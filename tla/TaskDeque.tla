----------------------------- MODULE TaskDeque -----------------------------
(***************************************************************************)
(* Game/Concurrency/BoundedConcurrentTaskDeque: the work-stealing deque of  *)
(* a scheduler thread, on the memory model of the processor it is written   *)
(* for: a store of the owner waits in its store buffer and reaches memory   *)
(* later, in order; loads may overtake it; MemoryBarrier and interlocked    *)
(* operations drain the buffer. Thieves store only through interlocked      *)
(* operations. _ReadWriteBarrier orders the compiler, not the processor.    *)
(* The n-th task the owner pushes is the number n.                          *)
(***************************************************************************)
EXTENDS Integers, Sequences, FiniteSetsExt

CONSTANTS Thieves,
          Owner,       \* the thread that pushes and pops
          Capacity,    \* slots; a caller never fills more, push does not check
          MaxPushes    \* bound: tasks pushed (2^31 would wrap the comparisons)

ASSUME ConstantsAssumption ==
  /\ Owner \notin Thieves
  /\ Capacity \in Nat \ {0}
  /\ MaxPushes \in Nat

VARIABLES bottom, top, slots,  \* memory
          buffer,     \* stores of the owner that have not reached memory
          pc,         \* of each thread: its next step
          b, t, task, \* of each thread: its local variables
          pushed,     \* number of tasks pushed
          taken       \* of each task: the threads it has been returned to

vars == <<bottom, top, slots, buffer, pc, b, t, task, pushed, taken>>

Agents == Thieves \cup {Owner}
Slot(i) == i % Capacity

Init == /\ bottom = 0 /\ top = 0
        /\ slots = [i \in 0 .. Capacity - 1 |-> 0]
        /\ buffer = <<>>
        /\ pc = [a \in Agents |-> "idle"]
        /\ b = [a \in Agents |-> 0]
        /\ t = [a \in Agents |-> 0]
        /\ task = [a \in Agents |-> 0]
        /\ pushed = 0
        /\ taken = [n \in 1 .. MaxPushes |-> <<>>]

-----------------------------------------------------------------------------
(* The store buffer.                                                        *)

Bottom(v) == [to |-> "bottom", at |-> 0, value |-> v]
Task(i, v) == [to |-> "slot", at |-> Slot(i), value |-> v]

\* The owner reads its own latest store of bottom, in memory or not.
OwnBottom == LET stores == {k \in DOMAIN buffer : buffer[k].to = "bottom"} IN
             IF stores = {} THEN bottom ELSE buffer[Max(stores)].value

Flush ==
  /\ buffer # <<>>
  /\ buffer' = Tail(buffer)
  /\ LET w == Head(buffer) IN
       IF w.to = "bottom" THEN bottom' = w.value /\ slots' = slots
                          ELSE slots' = [slots EXCEPT ![w.at] = w.value] /\ bottom' = bottom
  /\ UNCHANGED <<top, pc, b, t, task, pushed, taken>>

-----------------------------------------------------------------------------
Goto(a, label) == pc' = [pc EXCEPT ![a] = label]

\* The operation returns a task, or returns null; its registers are dead.
Reset(a) == /\ Goto(a, "idle")
            /\ b' = [b EXCEPT ![a] = 0] /\ t' = [t EXCEPT ![a] = 0]
            /\ task' = [task EXCEPT ![a] = 0]
Take(a, n) == taken' = [taken EXCEPT ![n] = Append(@, a)]

\* push: b = bottom; tasks[b & Mask] = task
PushTask ==
  /\ pc[Owner] = "idle" /\ pushed < MaxPushes
  /\ OwnBottom - top < Capacity
  /\ pushed' = pushed + 1
  /\ buffer' = Append(buffer, Task(OwnBottom, pushed + 1))
  /\ b' = [b EXCEPT ![Owner] = OwnBottom]
  /\ Goto(Owner, "pushBottom")
  /\ UNCHANGED <<bottom, top, slots, t, task, taken>>

\* push: bottom = b + 1
PushBottom ==
  /\ pc[Owner] = "pushBottom"
  /\ buffer' = Append(buffer, Bottom(b[Owner] + 1))
  /\ Reset(Owner)
  /\ UNCHANGED <<bottom, top, slots, pushed, taken>>

\* Bug: no MemoryBarrier, so that the load of top overtakes the store of bottom.
NoBarrier == TRUE

\* MemoryBarrier: what the owner has stored is in memory
Barrier == buffer = <<>>

\* pop: b = bottom - 1; bottom = b
PopBottom ==
  /\ pc[Owner] = "idle"
  /\ b' = [b EXCEPT ![Owner] = OwnBottom - 1]
  /\ buffer' = Append(buffer, Bottom(OwnBottom - 1))
  /\ Goto(Owner, "popTop")
  /\ UNCHANGED <<bottom, top, slots, t, task, pushed, taken>>

\* pop: t = top, after the MemoryBarrier
ReadTop == pc[Owner] = "popTop" /\ Barrier

\* pop: still more than one item left
PopMany ==
  /\ ReadTop /\ top < b[Owner]
  /\ Take(Owner, slots[Slot(b[Owner])]) /\ Reset(Owner)
  /\ UNCHANGED <<bottom, top, slots, buffer, pushed>>

\* pop: the last item
PopLast ==
  /\ ReadTop /\ top = b[Owner]
  /\ t' = [t EXCEPT ![Owner] = top]
  /\ task' = [task EXCEPT ![Owner] = slots[Slot(b[Owner])]]
  /\ Goto(Owner, "popCas")
  /\ UNCHANGED <<bottom, top, slots, buffer, b, pushed, taken>>

\* Bugs: bottom is not restored; the last item is taken for none.
PopNoneForgets ==
  /\ ReadTop /\ top > b[Owner]
  /\ Reset(Owner)
  /\ UNCHANGED <<bottom, top, slots, buffer, pushed, taken>>
PopNoneOffByOne ==
  /\ ReadTop /\ top >= b[Owner]
  /\ buffer' = Append(buffer, Bottom(top)) /\ Reset(Owner)
  /\ UNCHANGED <<bottom, top, slots, pushed, taken>>

\* pop: nothing is left; bottom = t
PopNone ==
  /\ ReadTop /\ top > b[Owner]
  /\ buffer' = Append(buffer, Bottom(top)) /\ Reset(Owner)
  /\ UNCHANGED <<bottom, top, slots, pushed, taken>>

\* pop: race for the last item with _InterlockedCompareExchange; bottom = t + 1
PopCas ==
  /\ pc[Owner] = "popCas" /\ buffer = <<>>    \* an interlocked operation drains it
  /\ IF top = t[Owner] THEN top' = top + 1 /\ Take(Owner, task[Owner])
                       ELSE UNCHANGED <<top, taken>>
  /\ buffer' = <<Bottom(t[Owner] + 1)>>
  /\ Reset(Owner)
  /\ UNCHANGED <<bottom, slots, pushed>>

\* steal: t = top
StealTop(a) ==
  /\ pc[a] \in {"idle", "stealTop"}
  /\ t' = [t EXCEPT ![a] = top]
  /\ Goto(a, "stealBottom")
  /\ UNCHANGED <<bottom, top, slots, buffer, b, task, pushed, taken>>

\* steal: b = bottom; nothing to steal unless t < b
StealBottom(a) ==
  /\ pc[a] = "stealBottom"
  /\ IF t[a] < bottom THEN Goto(a, "stealTask") /\ UNCHANGED <<b, t, task>> ELSE Reset(a)
  /\ UNCHANGED <<bottom, top, slots, buffer, pushed, taken>>

\* steal: task = tasks[t & Mask]
StealTask(a) ==
  /\ pc[a] = "stealTask"
  /\ task' = [task EXCEPT ![a] = slots[Slot(t[a])]]
  /\ Goto(a, "stealCas")
  /\ UNCHANGED <<bottom, top, slots, buffer, b, t, pushed, taken>>

\* steal: _InterlockedCompareExchange(&top, t + 1, t); try again when it fails
StealCas(a) ==
  /\ pc[a] = "stealCas"
  /\ \/ /\ top = t[a] /\ top' = top + 1
        /\ Take(a, task[a]) /\ Reset(a)
     \/ /\ top # t[a] /\ task' = [task EXCEPT ![a] = 0] /\ t' = [t EXCEPT ![a] = 0]
        /\ Goto(a, "stealTop") /\ UNCHANGED <<top, b, taken>>
  /\ UNCHANGED <<bottom, slots, buffer, pushed>>

OwnerStep == PushTask \/ PushBottom \/ PopBottom \/ PopMany \/ PopLast \/ PopNone \/ PopCas
Steal(a) == StealTop(a) \/ StealBottom(a) \/ StealTask(a) \/ StealCas(a)

Next == Flush \/ OwnerStep \/ \E a \in Thieves : Steal(a)

Spec == Init /\ [][Next]_vars

-----------------------------------------------------------------------------
(* Properties.                                                              *)

\* No task is lost: while the owner is between operations, the tasks that are
\* pushed and not taken are those between top and bottom, in order.
Left == {n \in 1 .. pushed : taken[n] = <<>>}
NothingLost ==
  pc[Owner] = "idle" /\ buffer = <<>> =>
    /\ Left = {slots[Slot(i)] : i \in top .. bottom - 1}
    /\ \A i \in top .. bottom - 2 : slots[Slot(i)] < slots[Slot(i + 1)]

\* A pop returns null only when nothing is left, a race for the last task lost
\* to a thief included.
PopNullIsEmpty ==
  [][pc[Owner] \in {"popTop", "popCas"} /\ pc'[Owner] = "idle" /\ taken' = taken
       => Left = {}]_vars

\* The deque implements an atomic one: no task is returned to two threads, not
\* by a pop racing a steal for the last, nor by two steals, nor out of a slot
\* that has been reused, and each thread gets the task its end is due.
Abstract == INSTANCE DequeSpec
DequeImplemented == Abstract!Spec
=============================================================================
