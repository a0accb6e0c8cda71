--------------------------- MODULE TaggedPointer ---------------------------
(***************************************************************************)
(* Game/Concurrency/TaggedPointer: a pointer whose low bits, free because   *)
(* tasks are aligned, hold a tag, so that both change in one swap.          *)
(***************************************************************************)
EXTENDS Integers, FiniteSets

CONSTANTS Nodes,     \* the tasks
          Null,
          TagMod,    \* tags wrap at it (2^6 in the code)
          MaxStale   \* bound: updates of top while an operation is stalled
                     \* between its load and its compare-and-swap

ASSUME TagAssumption ==
  /\ Null \notin Nodes /\ IsFiniteSet(Nodes)
  /\ TagMod \in Nat \ {0}
  /\ MaxStale \in 0 .. TagMod - 1

Tagged == [ptr : Nodes \cup {Null}, tag : 0 .. TagMod - 1]
NoTag == [ptr |-> Null, tag |-> 0]
=============================================================================
