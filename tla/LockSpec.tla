------------------------------ MODULE LockSpec ------------------------------
(***************************************************************************)
(* What Game/Concurrency/Mutex promises its callers: a lock that one task  *)
(* holds at a time, that a blocked caller gets once it is free, and whose   *)
(* tryLock never blocks (a failed tryLock changes nothing and is a          *)
(* stuttering step here).                                                   *)
(***************************************************************************)
CONSTANT Tasks
VARIABLE status    \* status[t]: "out", "blocked" inside lock(), "holding"

Init == status = [t \in Tasks |-> "out"]

Free == \A t \in Tasks : status[t] # "holding"

\* lock() finds the lock taken, or about to be handed to another task.
Block(t) == /\ status[t] = "out"
            /\ status' = [status EXCEPT ![t] = "blocked"]

\* lock() or tryLock() succeeds at once.
Acquire(t) == /\ status[t] = "out" /\ Free
              /\ status' = [status EXCEPT ![t] = "holding"]

\* A blocked lock() returns: the lock has been handed to its caller.
Grant(t) == /\ status[t] = "blocked" /\ Free
            /\ status' = [status EXCEPT ![t] = "holding"]

Release(t) == /\ status[t] = "holding"
              /\ status' = [status EXCEPT ![t] = "out"]

Next == \E t \in Tasks : Block(t) \/ Acquire(t) \/ Grant(t) \/ Release(t)

\* A free lock with blocked callers is granted to one of them, unless a
\* barging caller takes it first. There is no promise about which: the code
\* pops its waiters in last-in first-out order.
Spec == Init /\ [][Next]_status /\ WF_status(\E t \in Tasks : Grant(t))
=============================================================================
