------------------------------- MODULE Event -------------------------------
(***************************************************************************)
(* Game/Concurrency/Event: a one-shot event of user-mode-scheduled tasks.   *)
(* One action per atomic step of wait, of the continuation a wait leaves to *)
(* its scheduler thread, and of signal. The stack of waiters is used        *)
(* through atomic operations, and ready contexts are a set, as in Mutex.    *)
(***************************************************************************)
EXTENDS Integers, Sequences, FiniteSets

CONSTANTS Tasks,      \* the tasks that use the event
          Threads,    \* the scheduler threads
          NoTask,     \* null
          MaxCalls,   \* bound: calls of wait or signal per task
          AfterWait   \* where a task goes on when its wait() returns

ASSUME ConstantsAssumption ==
  /\ NoTask \notin Tasks
  /\ IsFiniteSet(Threads)
  /\ MaxCalls \in Nat
  /\ AfterWait \in {"out", "read"}

VARIABLES signaled,  \* the flag
          waiting,   \* the stack of waiting tasks, top first
          pc,        \* of each task: its next step
          left,      \* of each task: calls still to make
          on,        \* the task each scheduler thread executes
          cont,      \* the continuation each scheduler thread runs
          ready      \* contexts enqueued for execution

vars == <<signaled, waiting, pc, left, on, cont, ready>>

NoCont == [pc |-> "none", task |-> NoTask]

InitWith(isSet) ==
  /\ signaled = isSet
  /\ waiting = <<>>
  /\ pc = [t \in Tasks |-> "out"]
  /\ left = [t \in Tasks |-> MaxCalls]
  /\ on = [s \in Threads |-> NoTask]
  /\ cont = [s \in Threads |-> NoCont]
  /\ ready = Tasks

Init == InitWith(FALSE)

-----------------------------------------------------------------------------
(* Steps of a task t that scheduler thread s executes.                      *)

At(s, t, label) == on[s] = t /\ pc[t] = label
Goto(t, label) == pc' = [pc EXCEPT ![t] = label]
Call(t) == left[t] > 0 /\ left' = [left EXCEPT ![t] = @ - 1]

\* wait: if (!signaled.load())
Wait(s, t) ==
  /\ At(s, t, "out") /\ Call(t)
  /\ Goto(t, IF signaled THEN AfterWait ELSE "yield")
  /\ UNCHANGED <<signaled, waiting, on, cont, ready>>

\* Bug: the continuation is given no task.
WaitYieldNoTask(s, t) ==
  /\ At(s, t, "yield")
  /\ Goto(t, "parked")
  /\ on' = [on EXCEPT ![s] = NoTask]
  /\ cont' = [cont EXCEPT ![s] = [pc |-> "push", task |-> NoTask]]
  /\ UNCHANGED <<signaled, waiting, left, ready>>

\* wait: UmsThreadYield; the thread switches to the continuation
WaitYield(s, t) ==
  /\ At(s, t, "yield")
  /\ Goto(t, "parked")
  /\ on' = [on EXCEPT ![s] = NoTask]
  /\ cont' = [cont EXCEPT ![s] = [pc |-> "push", task |-> t]]
  /\ UNCHANGED <<signaled, waiting, left, ready>>

\* signal: signaled.store(true), by a task that has come to its call
Store(s, t) ==
  /\ signaled' = TRUE
  /\ Goto(t, "drain")
  /\ UNCHANGED <<waiting, on, cont, ready>>

Signal(s, t) == At(s, t, "out") /\ Call(t) /\ Store(s, t)

\* signal: pop a task and enqueue its context, until there is none
Drain(s, t) ==
  /\ At(s, t, "drain")
  /\ IF waiting = <<>>
       THEN Goto(t, "out") /\ UNCHANGED <<waiting, ready>>
       ELSE /\ waiting' = Tail(waiting)
            /\ ready' = ready \cup {Head(waiting)}
            /\ Goto(Head(waiting), AfterWait)
  /\ UNCHANGED <<signaled, left, on, cont>>

\* The task's function returns.
Finish(s, t) ==
  /\ At(s, t, "out") /\ left[t] = 0
  /\ Goto(t, "done")
  /\ on' = [on EXCEPT ![s] = NoTask]
  /\ UNCHANGED <<signaled, waiting, left, cont, ready>>

-----------------------------------------------------------------------------
(* Steps of the continuation of a wait on thread s. The task it pops need   *)
(* not be the one it pushed.                                                *)

\* waiting.push(currentTask)
ContPush(s) ==
  /\ cont[s].pc = "push"
  /\ waiting' = <<cont[s].task>> \o waiting
  /\ cont' = [cont EXCEPT ![s] = [pc |-> "load", task |-> NoTask]]
  /\ UNCHANGED <<signaled, pc, left, on, ready>>

\* Bug: the flag is not read again after the push.
ContLoadSkipped(s) ==
  /\ cont[s].pc = "load"
  /\ cont' = [cont EXCEPT ![s] = NoCont]
  /\ UNCHANGED <<signaled, waiting, pc, left, on, ready>>

\* Bug: the continuation pops whether or not the event is signaled.
ContLoadBlind(s) ==
  /\ cont[s].pc = "load"
  /\ cont' = [cont EXCEPT ![s] = [pc |-> "pop", task |-> NoTask]]
  /\ UNCHANGED <<signaled, waiting, pc, left, on, ready>>

\* if (signaled.load()), read again after the push
ContLoad(s) ==
  /\ cont[s].pc = "load"
  /\ cont' = [cont EXCEPT ![s] = IF signaled THEN [pc |-> "pop", task |-> NoTask] ELSE NoCont]
  /\ UNCHANGED <<signaled, waiting, pc, left, on, ready>>

\* nextTask = waiting.pop(); if (nextTask) executeContext(nextTask)
ContPop(s) ==
  /\ cont[s].pc = "pop"
  /\ cont' = [cont EXCEPT ![s] = NoCont]
  /\ IF waiting = <<>>
       THEN UNCHANGED <<waiting, pc, on>>
       ELSE /\ waiting' = Tail(waiting)
            /\ Goto(Head(waiting), AfterWait)
            /\ on' = [on EXCEPT ![s] = Head(waiting)]
  /\ UNCHANGED <<signaled, left, ready>>

ContStep(s) == ContPush(s) \/ ContLoad(s) \/ ContPop(s)

\* A scheduler thread with nothing to run executes some ready context.
Dispatch(s) ==
  /\ on[s] = NoTask /\ cont[s] = NoCont
  /\ \E t \in ready : on' = [on EXCEPT ![s] = t] /\ ready' = ready \ {t}
  /\ UNCHANGED <<signaled, waiting, pc, left, cont>>

\* The steps that are the same whoever wraps the event.
CommonStep(s) ==
  \/ ContStep(s) \/ Dispatch(s)
  \/ \E t \in Tasks : Wait(s, t) \/ WaitYield(s, t) \/ Drain(s, t) \/ Finish(s, t)

ThreadStep(s) == CommonStep(s) \/ \E t \in Tasks : Signal(s, t)

\* The tasks still alive wait for a signal that nobody is left to send.
Quiet == /\ \A t \in Tasks : pc[t] \in {"parked", "done"}
         /\ \A s \in Threads : cont[s] = NoCont
Terminated == Quiet /\ ~(signaled /\ \E t \in Tasks : pc[t] = "parked") /\ UNCHANGED vars

Next == (\E s \in Threads : ThreadStep(s)) \/ Terminated

Spec == Init /\ [][Next]_vars

\* Every scheduler thread keeps running, and runs what it finds.
FairSpec == Spec /\ \A s \in Threads : WF_vars(ThreadStep(s))

-----------------------------------------------------------------------------
(* Properties.                                                              *)

Labels == {"out", "yield", "parked", "drain", "read", "set", "done"}

TypeOK ==
  /\ signaled \in BOOLEAN
  /\ waiting \in Seq(Tasks)
  /\ pc \in [Tasks -> Labels]
  /\ left \in [Tasks -> 0 .. MaxCalls]
  /\ on \in [Threads -> Tasks \cup {NoTask}]
  /\ cont \in [Threads -> [pc : {"none", "push", "load", "pop"}, task : Tasks \cup {NoTask}]]
  /\ ready \in SUBSET Tasks

\* No lost wake-up: once the event is signaled and no signal() is draining the
\* stack, every task left in it has a continuation that will still pop one.
\* A task pushed after the last drain is thus never left behind, although each
\* continuation pops whichever task is on top (Event.cpp:10-17).
Popping == {s \in Threads : cont[s].pc \in {"load", "pop"}}
Draining == \E t \in Tasks : pc[t] = "drain"
NoLostWakeup == signaled /\ ~Draining => Len(waiting) <= Cardinality(Popping)

\* The event implements its abstract specification: no wait() returns before a
\* signal(), and after one every wait() returns.
inside == {t \in Tasks : pc[t] \in {"yield", "parked"}}
Abstract == INSTANCE EventSpec
EventImplemented == Abstract!Spec
=============================================================================
