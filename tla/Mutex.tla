------------------------------- MODULE Mutex -------------------------------
(***************************************************************************)
(* Game/Concurrency/Mutex: a mutex of user-mode-scheduled tasks. One action *)
(* per atomic step of lock, tryLock, unlock and of the continuation that a  *)
(* blocked lock() leaves to its scheduler thread. The stack of waiters is   *)
(* used through the atomic push, pop and peek that TaskStack shows its      *)
(* compare-and-swap loops to implement. Ready contexts are a set: the       *)
(* work-stealing bags may deliver them in any order to any thread.          *)
(***************************************************************************)
EXTENDS Integers, Sequences, FiniteSets

CONSTANTS Tasks,                \* the tasks that use the mutex
          Threads,              \* the scheduler threads
          Thread0,              \* the first of them
          NotASchedulerThread,  \* the thread of an empty hand-off
          NoTask,               \* null
          VersionMod,           \* hand-off versions wrap at it (2^16 in the code)
          MaxLocks,             \* bound: calls of lock or tryLock per task
          MaxBlocks             \* bound: times a worker blocks in the kernel

ASSUME ConstantsAssumption ==
  /\ NotASchedulerThread \notin Threads
  /\ NoTask \notin Tasks
  /\ VersionMod \in Nat \ {0}
  /\ MaxLocks \in Nat
  /\ MaxBlocks \in Nat

ASSUME ThreadAssumption == Thread0 \in Threads

VARIABLES count,    \* callers inside lock, plus the holder
          handOff,  \* [thread, version]: ownership offered by an unlock
          waiting,  \* the stack of blocked tasks, top first
          pc, reg,  \* of each task: next step, and the hand-off it has read
          left,     \* of each task: calls of lock or tryLock still to make
          on,       \* the task each scheduler thread executes
          cont,     \* the continuation each scheduler thread runs
          ready,    \* contexts enqueued for execution
          blocks    \* times a worker blocked in the kernel

mutex == <<count, handOff, waiting>>
vars == <<count, handOff, waiting, pc, reg, left, on, cont, ready, blocks>>

HandOff == [thread : Threads \cup {NotASchedulerThread}, version : 0 .. VersionMod - 1]
Empty(version) == [thread |-> NotASchedulerThread, version |-> version % VersionMod]
ContType == [pc : {"none", "push", "load", "peek", "cas", "pop", "null"},
             task : Tasks \cup {NoTask}, old : HandOff]
NoCont == [pc |-> "none", task |-> NoTask, old |-> Empty(0)]

\* The next step of a task: "out" between calls, "cs" holding the lock.
Labels == {"out", "yield", "parked", "cs", "tryLoad", "tryCas", "tryAdd",
           "pop", "load", "store", "peek", "cas", "done"}

Init == /\ count = 0
        /\ handOff = Empty(0)
        /\ waiting = <<>>
        /\ pc = [t \in Tasks |-> "out"]
        /\ reg = [t \in Tasks |-> Empty(0)]
        /\ left = [t \in Tasks |-> MaxLocks]
        /\ on = [s \in Threads |-> NoTask]
        /\ cont = [s \in Threads |-> NoCont]
        /\ ready = Tasks
        /\ blocks = 0

-----------------------------------------------------------------------------
(* Steps of a task t that scheduler thread s executes.                      *)

At(s, t, label) == on[s] = t /\ pc[t] = label
Goto(t, label) == pc' = [pc EXCEPT ![t] = label]
Call(t) == left[t] > 0 /\ left' = [left EXCEPT ![t] = @ - 1]

\* lock: count.fetch_add(1)
LockAdd(s, t) ==
  /\ At(s, t, "out") /\ Call(t)
  /\ count' = count + 1
  /\ Goto(t, IF count = 0 THEN "cs" ELSE "yield")
  /\ UNCHANGED <<handOff, waiting, reg, on, cont, ready, blocks>>

\* lock: UmsThreadYield; the thread switches to the continuation
LockYield(s, t) ==
  /\ At(s, t, "yield")
  /\ Goto(t, "parked")
  /\ on' = [on EXCEPT ![s] = NoTask]
  /\ cont' = [cont EXCEPT ![s] = [pc |-> "push", task |-> t, old |-> Empty(0)]]
  /\ UNCHANGED <<mutex, reg, left, ready, blocks>>

\* tryLock: count.compare_exchange_strong(0, 1)
TryCount(s, t) ==
  /\ At(s, t, "out") /\ Call(t)
  /\ IF count = 0 THEN count' = 1 /\ Goto(t, "cs")
                  ELSE count' = count /\ Goto(t, "tryLoad")
  /\ UNCHANGED <<handOff, waiting, reg, on, cont, ready, blocks>>

\* tryLock: handOff.load(), giving up when nothing is offered
TryLoad(s, t) ==
  /\ At(s, t, "tryLoad")
  /\ IF handOff.thread = NotASchedulerThread
       THEN reg' = reg /\ Goto(t, "out")
       ELSE reg' = [reg EXCEPT ![t] = handOff] /\ Goto(t, "tryCas")
  /\ UNCHANGED <<mutex, left, on, cont, ready, blocks>>

\* Bug: the add that has not happened yet is undone when the swap fails.
TryCasUndo(s, t) ==
  /\ At(s, t, "tryCas")
  /\ reg' = [reg EXCEPT ![t] = Empty(0)]
  /\ IF handOff = reg[t]
       THEN count' = count /\ handOff' = Empty(reg[t].version + 1) /\ Goto(t, "tryAdd")
       ELSE count' = count - 1 /\ handOff' = handOff /\ Goto(t, "out")
  /\ UNCHANGED <<waiting, left, on, cont, ready, blocks>>

\* Bug: a store instead of a compare-and-swap.
TryCasBlind(s, t) ==
  /\ At(s, t, "tryCas")
  /\ reg' = [reg EXCEPT ![t] = Empty(0)]
  /\ handOff' = Empty(reg[t].version + 1) /\ Goto(t, "tryAdd")
  /\ UNCHANGED <<count, waiting, left, on, cont, ready, blocks>>

\* tryLock: take the offered ownership, or give up
TryCas(s, t) ==
  /\ At(s, t, "tryCas")
  /\ reg' = [reg EXCEPT ![t] = Empty(0)]
  /\ IF handOff = reg[t]
       THEN handOff' = Empty(reg[t].version + 1) /\ Goto(t, "tryAdd")
       ELSE handOff' = handOff /\ Goto(t, "out")
  /\ UNCHANGED <<count, waiting, left, on, cont, ready, blocks>>

\* tryLock: only now count.fetch_add(1)
TryAdd(s, t) ==
  /\ At(s, t, "tryAdd")
  /\ count' = count + 1
  /\ Goto(t, "cs")
  /\ UNCHANGED <<handOff, waiting, reg, left, on, cont, ready, blocks>>

\* unlock: count.fetch_sub(1)
UnlockSub(s, t) ==
  /\ At(s, t, "cs")
  /\ count' = count - 1
  /\ Goto(t, IF count = 1 THEN "out" ELSE "pop")
  /\ UNCHANGED <<handOff, waiting, reg, left, on, cont, ready, blocks>>

\* Bug: nothing is offered when no waiter has been pushed yet.
UnlockPopGivesUp(s, t) ==
  /\ At(s, t, "pop")
  /\ IF waiting = <<>>
       THEN Goto(t, "out") /\ UNCHANGED <<waiting, ready>>
       ELSE /\ waiting' = Tail(waiting)
            /\ ready' = ready \cup {Head(waiting)}
            /\ pc' = [pc EXCEPT ![t] = "out", ![Head(waiting)] = "cs"]
  /\ UNCHANGED <<count, handOff, reg, left, on, cont, blocks>>

\* Bug: the woken task is left in the stack.
UnlockPopPeeks(s, t) ==
  /\ At(s, t, "pop")
  /\ IF waiting = <<>>
       THEN Goto(t, "load") /\ UNCHANGED ready
       ELSE /\ ready' = ready \cup {Head(waiting)}
            /\ pc' = [pc EXCEPT ![t] = "out", ![Head(waiting)] = "cs"]
  /\ UNCHANGED <<mutex, reg, left, on, cont, blocks>>

\* unlock: waiting.pop() and enqueueContext(nextTask): the woken task owns
\* the mutex. The popped task is in no other hands until it is enqueued.
UnlockPop(s, t) ==
  /\ At(s, t, "pop")
  /\ IF waiting = <<>>
       THEN Goto(t, "load") /\ UNCHANGED <<waiting, ready>>
       ELSE /\ waiting' = Tail(waiting)
            /\ ready' = ready \cup {Head(waiting)}
            /\ pc' = [pc EXCEPT ![t] = "out", ![Head(waiting)] = "cs"]
  /\ UNCHANGED <<count, handOff, reg, left, on, cont, blocks>>

\* unlock: newHandOff = { currentSchedulerThread(), handOff.load().version + 1 };
\* threadIndex is thread-local, and in every worker it is 0
UnlockLoad(s, t) ==
  /\ At(s, t, "load")
  /\ reg' = [reg EXCEPT ![t] =
       [thread |-> Thread0, version |-> (handOff.version + 1) % VersionMod]]
  /\ Goto(t, "store")
  /\ UNCHANGED <<mutex, left, on, cont, ready, blocks>>

\* unlock: handOff.store(newHandOff)
UnlockStore(s, t) ==
  /\ At(s, t, "store")
  /\ handOff' = reg[t]
  /\ Goto(t, "peek")
  /\ UNCHANGED <<count, waiting, reg, left, on, cont, ready, blocks>>

\* Bug: unlock does not look again after its offer.
UnlockPeekSkipped(s, t) ==
  /\ At(s, t, "peek")
  /\ reg' = [reg EXCEPT ![t] = Empty(0)] /\ Goto(t, "out")
  /\ UNCHANGED <<mutex, left, on, cont, ready, blocks>>

\* unlock: if (!waiting.peek()) return
UnlockPeek(s, t) ==
  /\ At(s, t, "peek")
  /\ IF waiting = <<>> THEN reg' = [reg EXCEPT ![t] = Empty(0)] /\ Goto(t, "out")
                       ELSE reg' = reg /\ Goto(t, "cas")
  /\ UNCHANGED <<mutex, left, on, cont, ready, blocks>>

\* unlock: take the offer back and try again, unless someone has taken it
UnlockCas(s, t) ==
  /\ At(s, t, "cas")
  /\ reg' = [reg EXCEPT ![t] = Empty(0)]
  /\ IF handOff = reg[t]
       THEN handOff' = Empty(reg[t].version + 1) /\ Goto(t, "pop")
       ELSE handOff' = handOff /\ Goto(t, "out")
  /\ UNCHANGED <<count, waiting, left, on, cont, ready, blocks>>

\* The task's function returns.
Finish(s, t) ==
  /\ At(s, t, "out") /\ left[t] = 0
  /\ Goto(t, "done")
  /\ on' = [on EXCEPT ![s] = NoTask]
  /\ UNCHANGED <<mutex, reg, left, cont, ready, blocks>>

TaskStep(s, t) ==
  \/ LockAdd(s, t) \/ LockYield(s, t)
  \/ TryCount(s, t) \/ TryLoad(s, t) \/ TryCas(s, t) \/ TryAdd(s, t)
  \/ UnlockSub(s, t) \/ UnlockPop(s, t) \/ UnlockLoad(s, t)
  \/ UnlockStore(s, t) \/ UnlockPeek(s, t) \/ UnlockCas(s, t)
  \/ Finish(s, t)

-----------------------------------------------------------------------------
(* Steps of the continuation that a blocked lock() runs on thread s, once   *)
(* its task is switched out. After the push the task may be resumed by      *)
(* another thread while the continuation still runs.                        *)

ContAt(s, label) == cont[s].pc = label
ContGoto(s, label) == cont' = [cont EXCEPT ![s].pc = label]
ContEnd(s) == cont' = [cont EXCEPT ![s] = NoCont]

\* waiting.push(currentTask)
ContPush(s) ==
  /\ ContAt(s, "push")
  /\ waiting' = <<cont[s].task>> \o waiting
  /\ ContGoto(s, "load")
  /\ UNCHANGED <<count, handOff, pc, reg, left, on, ready, blocks>>

\* old = handOff.load(); nothing to do when nothing is offered
ContLoad(s) ==
  /\ ContAt(s, "load")
  /\ IF handOff.thread = NotASchedulerThread
       THEN ContEnd(s)
       ELSE cont' = [cont EXCEPT ![s] =
              [pc |-> "peek", task |-> cont[s].task, old |-> handOff]]
  /\ UNCHANGED <<mutex, pc, reg, left, on, ready, blocks>>

\* Bug: the continuation does not look for a waiter before it takes the offer.
ContPeekSkipped(s) ==
  /\ ContAt(s, "peek") /\ ContGoto(s, "cas")
  /\ UNCHANGED <<mutex, pc, reg, left, on, ready, blocks>>

\* ... && waiting.peek()
ContPeek(s) ==
  /\ ContAt(s, "peek")
  /\ IF waiting = <<>> THEN ContEnd(s) ELSE ContGoto(s, "cas")
  /\ UNCHANGED <<mutex, pc, reg, left, on, ready, blocks>>

\* Bug: a store instead of a compare-and-swap.
ContCasBlind(s) ==
  /\ ContAt(s, "cas")
  /\ handOff' = Empty(cont[s].old.version + 1) /\ ContGoto(s, "pop")
  /\ UNCHANGED <<count, waiting, pc, reg, left, on, ready, blocks>>

\* handOff.compare_exchange_strong(old, { NotASchedulerThread, old.version + 1 })
ContCas(s) ==
  /\ ContAt(s, "cas")
  /\ IF handOff = cont[s].old
       THEN handOff' = Empty(cont[s].old.version + 1) /\ ContGoto(s, "pop")
       ELSE handOff' = handOff /\ ContEnd(s)
  /\ UNCHANGED <<count, waiting, pc, reg, left, on, ready, blocks>>

\* nextTask = waiting.pop(); executeContext(nextTask), which dereferences it:
\* "null" stands for the crash when there is none
ContPop(s) ==
  /\ ContAt(s, "pop")
  /\ IF waiting = <<>>
       THEN ContGoto(s, "null") /\ UNCHANGED <<waiting, pc, on>>
       ELSE /\ waiting' = Tail(waiting)
            /\ Goto(Head(waiting), "cs")
            /\ on' = [on EXCEPT ![s] = Head(waiting)]
            /\ ContEnd(s)
  /\ UNCHANGED <<count, handOff, reg, left, ready, blocks>>

ContStep(s) ==
  ContPush(s) \/ ContLoad(s) \/ ContPeek(s) \/ ContCas(s) \/ ContPop(s)

-----------------------------------------------------------------------------
(* The scheduler around the mutex.                                          *)

\* A scheduler thread with nothing to run executes some ready context.
Dispatch(s) ==
  /\ on[s] = NoTask /\ cont[s] = NoCont
  /\ \E t \in ready : on' = [on EXCEPT ![s] = t] /\ ready' = ready \ {t}
  /\ UNCHANGED <<mutex, pc, reg, left, cont, blocks>>

\* The worker blocks in the kernel; its thread is free, and the context comes
\* back through a completion list, to be executed by any thread.
Block(s) ==
  /\ on[s] # NoTask /\ blocks < MaxBlocks
  /\ blocks' = blocks + 1
  /\ ready' = ready \cup {on[s]}
  /\ on' = [on EXCEPT ![s] = NoTask]
  /\ UNCHANGED <<mutex, pc, reg, left, cont>>

\* All tasks have returned: the only state in which nothing more happens.
Terminated == (\A t \in Tasks : pc[t] = "done") /\ UNCHANGED vars

ThreadStep(s) == (\E t \in Tasks : TaskStep(s, t)) \/ ContStep(s) \/ Dispatch(s)

Next == (\E s \in Threads : ThreadStep(s) \/ Block(s)) \/ Terminated

Spec == Init /\ [][Next]_vars

\* Every scheduler thread keeps running, and runs what it finds.
FairSpec == Spec /\ \A s \in Threads : WF_vars(ThreadStep(s))

-----------------------------------------------------------------------------
(* Properties.                                                              *)

TypeOK ==
  /\ count \in Nat
  /\ handOff \in HandOff
  /\ waiting \in Seq(Tasks)
  /\ pc \in [Tasks -> Labels]
  /\ reg \in [Tasks -> HandOff]
  /\ left \in [Tasks -> 0 .. MaxLocks]
  /\ on \in [Threads -> Tasks \cup {NoTask}]
  /\ cont \in [Threads -> ContType]
  /\ ready \in SUBSET Tasks
  /\ blocks \in 0 .. MaxBlocks

\* At most one task is between the return of a successful lock or tryLock and
\* its unlock, whatever mix of barging callers, hand-offs and wake-ups occurs.
MutualExclusion ==
  \A t1, t2 \in Tasks : pc[t1] = "cs" /\ pc[t2] = "cs" => t1 = t2

\* Ownership is one token. It is with a task (the holder, an unlock that has
\* not passed it on, a tryLock that has taken a hand-off), or with a
\* continuation that has taken a hand-off, or on offer in handOff.
TaskHolds(t) == pc[t] \in {"cs", "pop", "load", "store", "tryAdd"}
ContHolds(s) == cont[s].pc = "pop"
Offered == handOff.thread # NotASchedulerThread

\* The token is never duplicated, and count = 0, the condition on which lock
\* and tryLock make a new one, is only seen when there is none.
OneToken ==
  /\ \A t1, t2 \in Tasks : TaskHolds(t1) /\ TaskHolds(t2) => t1 = t2
  /\ \A s1, s2 \in Threads : ContHolds(s1) /\ ContHolds(s2) => s1 = s2
  /\ \A t \in Tasks, s \in Threads : ~ (TaskHolds(t) /\ ContHolds(s))
  /\ Offered => (\A t \in Tasks : ~TaskHolds(t)) /\ (\A s \in Threads : ~ContHolds(s))
  /\ count = 0 => ~Offered /\ (\A t \in Tasks : ~TaskHolds(t))
                           /\ (\A s \in Threads : ~ContHolds(s))

\* The token is never lost: while callers are counted, somebody has it.
TokenNotLost ==
  count > 0 => \/ Offered
               \/ \E t \in Tasks : TaskHolds(t)
               \/ \E s \in Threads : ContHolds(s)

\* No lost hand-off: whenever ownership is on offer and a task waits, some
\* unlock or continuation has still to look, and its compare-and-swap would
\* succeed. This is what the order store/peek against push/load buys.
NoLostHandOff ==
  Offered /\ waiting # <<>> =>
    \/ \E t \in Tasks : pc[t] \in {"peek", "cas"} /\ reg[t] = handOff
    \/ \E s \in Threads : \/ cont[s].pc = "load"
                          \/ cont[s].pc \in {"peek", "cas"} /\ cont[s].old = handOff

\* A continuation that has taken a hand-off finds a task to execute: the
\* version makes its earlier peek still valid (Mutex.cpp:15-18).
NoNullExecute == \A s \in Threads : cont[s].pc # "null"

\* A context is executed by one thread at a time: every live task is in exactly
\* one place, running, ready, waiting, or carried by a continuation.
Places(t) ==
  {<<"on", s>> : s \in {s \in Threads : on[s] = t}}
    \cup {<<"push", s>> : s \in {s \in Threads : cont[s].pc = "push" /\ cont[s].task = t}}
    \cup {<<"waiting", i>> : i \in {i \in DOMAIN waiting : waiting[i] = t}}
    \cup {<<"ready", 0>> : i \in {i \in {0} : t \in ready}}
OnePlace ==
  \A t \in Tasks : Cardinality(Places(t)) = IF pc[t] = "done" THEN 0 ELSE 1

\* Every task gets through all its calls: no lock() blocks for ever.
AllReturn == <>(\A t \in Tasks : pc[t] = "done")

\* The mutex implements the abstract lock.
status == [t \in Tasks |-> CASE pc[t] = "cs" -> "holding"
                             [] pc[t] \in {"yield", "parked"} -> "blocked"
                             [] OTHER -> "out"]
Lock == INSTANCE LockSpec
LockImplemented == Lock!Spec
=============================================================================
