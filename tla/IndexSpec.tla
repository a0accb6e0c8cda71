----------------------------- MODULE IndexSpec -----------------------------
(***************************************************************************)
(* What the MB+ tree promises its clients: a set of rows with different     *)
(* keys, of a row only its key, to which rows are added and from which they *)
(* are erased one by one, also by the operations on ranges, and all at once. *)
(***************************************************************************)
CONSTANT Keys
VARIABLES contents,
          last  \* the key that was last inserted or erased

Init == contents = {} /\ last \in Keys

Insert(key) == key \notin contents /\ contents' = contents \cup {key} /\ last' = key

Erase(key) == contents' = contents \ {key} /\ last' = key

Clear == contents' = {} /\ UNCHANGED last

Next == Clear \/ \E key \in Keys : Insert(key) \/ Erase(key)

Spec == Init /\ [][Next]_<<contents, last>>
=============================================================================
