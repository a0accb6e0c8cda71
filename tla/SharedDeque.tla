----------------------------- MODULE SharedDeque -----------------------------
(***************************************************************************)
(* The deque of new tasks of thread 0 in Scheduler.cpp, when there is more  *)
(* than one scheduler thread. Which deque an operation uses follows from    *)
(* threadIndex, which is thread-local: a worker has its own, and it is 0.   *)
(* So thread 0, and a worker that another thread executes, push to and pop  *)
(* from one deque at once, each as if it were its only owner, and each with *)
(* the store buffer of its processor. What an owner does is TaskDeque's.    *)
(***************************************************************************)
EXTENDS TaskDeque

CONSTANT Worker  \* of the Thieves: the second thread that pushes and pops

VARIABLE workerBuffer

sharedVars == <<vars, workerBuffer>>

W == INSTANCE TaskDeque WITH
       Owner <- Worker, Thieves <- (Thieves \ {Worker}) \cup {Owner}, buffer <- workerBuffer

SharedInit == Init /\ workerBuffer = <<>>

OwnerSide == (OwnerStep \/ Flush) /\ UNCHANGED workerBuffer
WorkerSide == (W!OwnerStep \/ W!Flush) /\ UNCHANGED buffer

SharedSpec == SharedInit /\ [][OwnerSide \/ WorkerSide]_sharedVars

\* A pop that returns a task without a race for the last leaves another: "Still
\* more than one item left" (Task.h:98). Two pops that have read the same bottom
\* both get here, with one task between them.
StillMoreThanOne == [][PopMany \/ W!PopMany => Cardinality(Left) > 1]_sharedVars
=============================================================================
