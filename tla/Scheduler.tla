------------------------------ MODULE Scheduler ------------------------------
(***************************************************************************)
(* Game/Concurrency/Scheduler.cpp with one scheduler thread, as it has on a *)
(* process with one processor: tasks are run by workers (contexts of        *)
(* user-mode scheduling), and workers by the thread, which chooses among    *)
(* unblocked workers, ready, pooled and new ones each time a worker yields  *)
(* or blocks. A worker runs one task after another.                         *)
(*                                                                          *)
(* A task spawns others, waits for them (at an event that its end signals), *)
(* and blocks in the kernel. The thread and its workers take turns, so that *)
(* an operation of a deque, and the walk along a dequeued completion list,  *)
(* is one step; it is assumed that nothing interrupts a worker in one. With *)
(* more threads that is not so: see SharedDeque. Sleeping is left out:      *)
(* sleepUntil does not compile, for it puts a task where a pair of a        *)
(* deadline and a task is needed.                                           *)
(***************************************************************************)
EXTENDS Integers, SequencesExt

CONSTANTS NumTasks,  \* tasks; the first is the one that startScheduler creates
          MaxBlocks  \* bound on how often tasks block in the kernel

ASSUME SchedulerAssumption == NumTasks \in Nat \ {0} /\ MaxBlocks \in Nat

Tasks == 1 .. NumTasks
Main == 1
Workers == Tasks  \* one is created for a new task
None == -1

VARIABLES
  pc,             \* of schedulerFunction, "run" while a worker runs
  running,        \* the worker that the thread executes
  workerStarted, unblockFailed,
  ready, pooled, new,  \* the thread's deques
  completed,      \* its completion list
  context, task,  \* the worker of a task, and the task set for a worker
  at,             \* the next step of a worker
  status,         \* of a task
  awaited,        \* the task that a task waits for
  blocked,        \* workers that are blocked in the kernel
  blocks, keepRunning

locals == <<workerStarted, unblockFailed>>
deques == <<ready, pooled, new>>
kernel == <<completed, blocked, blocks>>
client == <<status, awaited, keepRunning>>
vars == <<pc, running, locals, deques, kernel, context, task, at, client>>

Init ==
  /\ pc = "activated" /\ running = None
  /\ workerStarted = FALSE /\ unblockFailed = FALSE
  /\ ready = <<>> /\ pooled = <<>> /\ new = <<Main>> /\ completed = <<>>
  /\ context = [t \in Tasks |-> None]
  /\ task = context /\ awaited = context
  /\ at = [w \in Workers |-> "none"]
  /\ status = [t \in Tasks |-> IF t = Main THEN "new" ELSE "unborn"]
  /\ blocked = {} /\ blocks = 0
  /\ keepRunning = TRUE

-----------------------------------------------------------------------------
(* schedulerFunction. A worker that the thread executes does not return:    *)
(* when it yields or blocks, the function is called again. With no other    *)
(* thread there is nobody to steal from. A deque is taken from at its end.  *)

Execute(w) ==
  /\ running' = w
  /\ pc' = "run"
  /\ workerStarted' = FALSE /\ unblockFailed' = FALSE

Skip(label) ==
  /\ pc' = label
  /\ UNCHANGED <<running, locals, deques, kernel, context, task, at, client>>

\* Where in the completion list the workers are that have not terminated, and
\* these workers in the order of the list.
Unterminated == {i \in DOMAIN completed : at[completed[i]] # "terminated"}
Unblocked ==
  LET order == CHOOSE f \in [1 .. Cardinality(Unterminated) -> Unterminated] :
                 \A i, j \in DOMAIN f : i < j => f[i] < f[j]
  IN  [i \in DOMAIN order |-> completed[order[i]]]

TasksOf(workers) == [i \in DOMAIN workers |-> task[workers[i]]]

\* Bug: the worker that is executed is ready, too.
DequeueTwice ==
  /\ Unblocked # <<>>
  /\ Execute(Head(Unblocked))
  /\ ready' = ready \o TasksOf(Unblocked)
  /\ completed' = <<>>
  /\ UNCHANGED <<pooled, new, blocked, blocks, context, task, at, client>>

\* dequeueCompletionList: the first of them is executed, and the others are ready.
Dequeue ==
  /\ Unblocked # <<>>
  /\ Execute(Head(Unblocked))
  /\ ready' = ready \o TasksOf(Tail(Unblocked))
  /\ completed' = <<>>
  /\ UNCHANGED <<pooled, new, blocked, blocks, context, task, at, client>>

\* ... and none of the workers is left.
DequeueTerminated ==
  /\ Unblocked = <<>>
  /\ completed' = <<>>
  /\ UNCHANGED <<running, deques, blocked, blocks, context, task, at, client>>

Poll ==
  /\ pc = "activated"
  /\ \/ Dequeue
     \/ DequeueTerminated /\ pc' = "local" /\ UNCHANGED locals

TakeLocal(label, next) ==
  /\ pc = label
  /\ \/ /\ ready # <<>>
        /\ ready' = Front(ready)
        /\ Execute(context[Last(ready)])
        /\ UNCHANGED <<pooled, new, kernel, context, task, at, client>>
     \/ ready = <<>> /\ Skip(next)

\* Bug: ready contexts are left to thieves.
LocalLeft == pc = "local" /\ Skip("schedule")

Local == TakeLocal("local", "schedule")

\* Task t takes over the context of a task that has ended.
TakeOver(t, old) ==
  /\ context' = [context EXCEPT ![t] = context[old], ![old] = None]
  /\ task' = [task EXCEPT ![context[old]] = t]

\* The loop: a pooled context is given a new task; if there is none, it is put
\* back where it was.
UsePooled ==
  /\ pc = "schedule" /\ pooled # <<>> /\ new # <<>>
  /\ pooled' = Front(pooled) /\ new' = Front(new)
  /\ TakeOver(Last(new), Last(pooled))
  /\ Execute(context[Last(pooled)])
  /\ UNCHANGED <<ready, kernel, at, client>>

\* taskToUmsWorker: a worker for a new task, which is put into the completion list
StartWorker ==
  LET t == Last(new)
      w == CHOOSE v \in Workers : at[v] = "none"
  IN
  /\ pc = "schedule" /\ pooled = <<>> /\ new # <<>> /\ ~workerStarted /\ ~unblockFailed
  /\ new' = Front(new)
  /\ context' = [context EXCEPT ![t] = w] /\ task' = [task EXCEPT ![w] = t]
  /\ at' = [at EXCEPT ![w] = "check"]
  /\ completed' = Append(completed, w)
  /\ workerStarted' = TRUE
  /\ pc' = "wait"
  /\ UNCHANGED <<running, unblockFailed, ready, pooled, blocked, blocks, client>>

\* ... or nothing can be started.
StartNone ==
  /\ pc = "schedule"
  /\ new = <<>> \/ (pooled = <<>> /\ (workerStarted \/ unblockFailed))
  /\ Skip("wait")

\* Wait for the completion list, without limit if a worker was started. With
\* nothing to execute another turn begins, unless the loop is over.
Wait ==
  /\ pc = "wait"
  /\ \/ Dequeue
     \/ /\ completed # <<>> \/ ~workerStarted
        /\ DequeueTerminated
        /\ unblockFailed' = TRUE
        /\ UNCHANGED workerStarted
        /\ pc' = IF keepRunning THEN "schedule" ELSE "interrupted"

Interrupted == TakeLocal("interrupted", "await")

Await ==
  /\ pc = "await" /\ completed # <<>>
  /\ \/ Dequeue
     \/ /\ DequeueTerminated
        /\ workerStarted' = FALSE /\ unblockFailed' = FALSE
        /\ pc' = "schedule"

SchedulerStep ==
  Poll \/ Local \/ UsePooled \/ StartWorker \/ StartNone \/ Wait \/ Interrupted \/ Await

-----------------------------------------------------------------------------
(* workerThread, and what its task does.                                    *)

Runs(w, label) == pc = "run" /\ running = w /\ at[w] = label

\* The worker yields or blocks: schedulerFunction is called.
Activate(label) == running' = None /\ pc' = label

\* while (keepRunning): the task's function is called, or the worker ends.
Check(w) ==
  /\ Runs(w, "check")
  /\ \/ /\ keepRunning
        /\ at' = [at EXCEPT ![w] = "run"]
        /\ status' = [status EXCEPT ![task[w]] = "active"]
        /\ UNCHANGED <<pc, running, blocked>>
     \/ /\ ~keepRunning
        /\ at' = [at EXCEPT ![w] = "terminated"]
        /\ blocked' = blocked \cup {w}
        /\ Activate("activated")
        /\ UNCHANGED status
  /\ UNCHANGED <<locals, deques, completed, blocks, context, task, awaited, keepRunning>>

\* createTask and enqueueTask
Spawn(w, t) ==
  /\ Runs(w, "run")
  /\ status[t] = "unborn" /\ t > task[w]
  /\ status' = [status EXCEPT ![t] = "new"]
  /\ new' = Append(new, t)
  /\ UNCHANGED <<pc, running, locals, ready, pooled, kernel, context, task, at, awaited, keepRunning>>

\* Event::wait
WaitFor(w, t) ==
  /\ Runs(w, "run")
  /\ status[t] \in {"new", "active"} /\ t > task[w]
  /\ awaited' = [awaited EXCEPT ![task[w]] = t]
  /\ Activate("activated")
  /\ UNCHANGED <<locals, deques, kernel, context, task, at, status, keepRunning>>

\* UmsSchedulerThreadBlocked, by a system call or by an interrupt
Block(w, label) ==
  /\ Runs(w, "run") /\ blocks < MaxBlocks
  /\ blocks' = blocks + 1
  /\ blocked' = blocked \cup {w}
  /\ Activate(label)
  /\ UNCHANGED <<locals, deques, completed, context, task, at, client>>

\* The function returns, after Event::signal and enqueueContext of the waiting.
Finish(w) ==
  LET waiting == {t \in Tasks : awaited[t] = task[w]} IN
  /\ Runs(w, "run")
  /\ status' = [status EXCEPT ![task[w]] = "done"]
  /\ awaited' = [t \in Tasks |-> IF t \in waiting THEN None ELSE awaited[t]]
  /\ ready' = ready \o SetToSeq(waiting)
  /\ keepRunning' = (keepRunning /\ task[w] # Main)
  /\ at' = [at EXCEPT ![w] = "fetch"]
  /\ UNCHANGED <<pc, running, locals, pooled, new, kernel, context, task>>

\* The worker takes over a new task, or yields and is pooled.
Fetch(w) ==
  /\ Runs(w, "fetch")
  /\ at' = [at EXCEPT ![w] = "check"]
  /\ \/ /\ new # <<>>
        /\ new' = Front(new)
        /\ TakeOver(Last(new), task[w])
        /\ UNCHANGED <<pc, running, pooled>>
     \/ /\ new = <<>>
        /\ pooled' = Append(pooled, task[w])
        /\ Activate("activated")
        /\ UNCHANGED <<new, context, task>>
  /\ UNCHANGED <<locals, ready, kernel, client>>

WorkerStep ==
  \E w \in Workers :
    \/ Check(w) \/ Finish(w) \/ Fetch(w)
    \/ \E t \in Tasks : Spawn(w, t) \/ WaitFor(w, t)
    \/ \E label \in {"activated", "interrupted"} : Block(w, label)

\* The kernel puts a worker into the completion list.
Unblock(w) ==
  /\ w \in blocked
  /\ blocked' = blocked \ {w}
  /\ completed' = Append(completed, w)
  /\ UNCHANGED <<pc, running, locals, deques, blocks, context, task, at, client>>

Next == SchedulerStep \/ WorkerStep \/ \E w \in Workers : Unblock(w)

\* The thread has a processor, and the kernel unblocks workers in the end.
Fairness ==
  /\ WF_vars(SchedulerStep) /\ WF_vars(WorkerStep)
  /\ \A w \in Workers : WF_vars(Unblock(w))

Spec == Init /\ [][Next]_vars /\ Fairness

-----------------------------------------------------------------------------
(* Properties.                                                              *)

TypeOK ==
  /\ pc \in {"activated", "local", "schedule", "wait", "interrupted", "await", "run"}
  /\ running \in Workers \cup {None}
  /\ workerStarted \in BOOLEAN /\ unblockFailed \in BOOLEAN
  /\ ready \in Seq(Tasks) /\ pooled \in Seq(Tasks) /\ new \in Seq(Tasks)
  /\ completed \in Seq(Workers)
  /\ context \in [Tasks -> Workers \cup {None}] /\ task \in [Workers -> Tasks \cup {None}]
  /\ at \in [Workers -> {"none", "check", "run", "fetch", "terminated"}]
  /\ status \in [Tasks -> {"unborn", "new", "active", "done"}]
  /\ awaited \in [Tasks -> Tasks \cup {None}]
  /\ blocked \subseteq Workers /\ blocks \in 0 .. MaxBlocks
  /\ keepRunning \in BOOLEAN

In(place, list, x) == {<<place, i>> : i \in {i \in DOMAIN list : list[i] = x}}

\* Where a worker is, or the task that it belongs to.
Places(w) ==
  {<<"run">> : v \in {w} \cap {running}}
    \cup In("ready", ready, task[w]) \cup In("pooled", pooled, task[w])
    \cup In("completed", completed, w)
    \cup {<<"blocked">> : v \in {w} \cap blocked}
    \cup {<<"waits">> : t \in {t \in {task[w]} : awaited[t] # None}}

\* A worker that has not ended is in one place, executed or in one list: the
\* thread does not find one that it already executes or will find elsewhere, and
\* none is lost. It and its task belong to each other, and a task that has not
\* begun is in the deque of new ones, or has a worker that will begin it.
OnePlace ==
  /\ \A w \in Workers : at[w] \notin {"none", "terminated"} =>
       Cardinality(Places(w)) = 1 /\ context[task[w]] = w
  /\ \A t \in Tasks : status[t] = "new" =>
       Cardinality(In("new", new, t)) = IF context[t] = None THEN 1 ELSE 0

\* Every task that is created is run to its end unless the main task ends first,
\* although the thread stops looking for new tasks once it has started a worker,
\* and waits without limit for workers after that or after an interrupt.
EveryTaskRuns ==
  \A t \in Tasks : status[t] = "new" ~> status[t] = "done" \/ ~keepRunning
=============================================================================
