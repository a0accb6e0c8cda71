----------------------------- MODULE DequeSpec -----------------------------
(***************************************************************************)
(* What Game/Concurrency/BoundedConcurrentTaskDeque promises: each task     *)
(* goes to one thread, the newest first to the owner's pops and the oldest  *)
(* first to steals. The n-th task pushed is the number n.                   *)
(***************************************************************************)
EXTENDS Naturals, Sequences

CONSTANTS Thieves, Owner, MaxPushes

VARIABLES pushed,  \* how many tasks have been pushed
          taken    \* of each task: the threads it has been returned to

vars == <<pushed, taken>>

Contents == {n \in 1 .. pushed : taken[n] = <<>>}
Return(a, n) == taken' = [taken EXCEPT ![n] = <<a>>] /\ UNCHANGED pushed

Init == pushed = 0 /\ taken = [n \in 1 .. MaxPushes |-> <<>>]

Push == pushed < MaxPushes /\ pushed' = pushed + 1 /\ UNCHANGED taken

Pop == \E n \in Contents : (\A m \in Contents : m <= n) /\ Return(Owner, n)

Steal(a) == \E n \in Contents : (\A m \in Contents : n <= m) /\ Return(a, n)

Next == Push \/ Pop \/ \E a \in Thieves : Steal(a)

Spec == Init /\ [][Next]_vars
=============================================================================
