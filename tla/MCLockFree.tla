----------------------------- MODULE MCLockFree -----------------------------
(***************************************************************************)
(* The lock-free containers of Task.h, each by itself: the work-stealing    *)
(* deque or the stack, chosen in the initial state. The other stays as it   *)
(* is when it is made.                                                      *)
(***************************************************************************)
EXTENDS TaskDeque, TaggedPointer

CONSTANT Procs

VARIABLES kind, stackTop, right, stackPc, current, arg, loose, got, age

S == INSTANCE TaskStack WITH top <- stackTop, pc <- stackPc

stack == <<stackTop, right, stackPc, current, arg, loose, got, age>>
lockFree == <<kind, vars, stack>>

MCInit == kind \in {"deque", "stack"} /\ Init /\ S!Init

DequeStep == kind = "deque" /\ Next /\ UNCHANGED <<kind, stack>>
StackStep(p) == kind = "stack" /\ S!Step(p) /\ UNCHANGED <<kind, vars>>

MCNext == DequeStep \/ \E p \in Procs : StackStep(p)

MCSpec == MCInit /\ [][MCNext]_lockFree /\ \A p \in Procs : WF_lockFree(StackStep(p))

\* A compare-and-swap on the top of the stack that would succeed has seen every
\* update of it (Task.cpp:33-48).
SwapIsFresh == S!SwapIsFresh

\* The stack behaves as one whose operations happen at once (Task.cpp:33-48).
StackImplemented == S!StackImplemented

\* Lock-freedom of the stack: operations keep completing (Task.cpp:33-48).
LockFree == kind = "stack" => S!LockFree
=============================================================================
