----------------------------- MODULE EventSpec -----------------------------
(***************************************************************************)
(* What Game/Concurrency/Event promises: once signaled it stays signaled,   *)
(* a wait() returns only after a signal(), and after a signal() every       *)
(* wait() returns.                                                          *)
(***************************************************************************)
CONSTANT Tasks
VARIABLES signaled, inside    \* the tasks inside wait()

vars == <<signaled, inside>>

\* A latch of count 0 has its event signaled from the start.
Init == signaled \in BOOLEAN /\ inside = {}

Enter(t) == t \notin inside /\ inside' = inside \cup {t} /\ UNCHANGED signaled

Return(t) == /\ t \in inside /\ signaled
             /\ inside' = inside \ {t} /\ UNCHANGED signaled

Signal == signaled' = TRUE /\ UNCHANGED inside

Next == Signal \/ \E t \in Tasks : Enter(t) \/ Return(t)

Spec == Init /\ [][Next]_vars /\ \A t \in Tasks : WF_vars(Return(t))
=============================================================================
