----------------------------- MODULE StackSpec -----------------------------
(***************************************************************************)
(* What Game/Concurrency/ConcurrentTaskStack promises: a stack with atomic  *)
(* push and pop. Mutex and Event use their stacks of waiters in this form.  *)
(***************************************************************************)
EXTENDS Sequences

CONSTANTS Nodes, Procs, Null
VARIABLES stack,   \* the nodes in the stack, top first
          got      \* what the last operation of each process returned

vars == <<stack, got>>

Init == stack = <<>> /\ got = [p \in Procs |-> Null]

Push(n) == /\ \A i \in DOMAIN stack : stack[i] # n
           /\ stack' = <<n>> \o stack /\ UNCHANGED got

Pop(p) == /\ stack # <<>>
          /\ stack' = Tail(stack)
          /\ got' = [got EXCEPT ![p] = Head(stack)]

\* pop returns null when the stack is empty, and only then.
PopEmpty(p) == /\ stack = <<>> /\ UNCHANGED stack
               /\ got' = [got EXCEPT ![p] = Null]

Next == (\E n \in Nodes : Push(n)) \/ \E p \in Procs : Pop(p) \/ PopEmpty(p)

Spec == Init /\ [][Next]_vars
=============================================================================
