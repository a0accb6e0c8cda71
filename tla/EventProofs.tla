---------------------------- MODULE EventProofs ----------------------------
(***************************************************************************)
(* No wake-up of Event is lost, and its wait() returns only after a         *)
(* signal(), for every number of tasks, of scheduler threads and of calls.  *)
(***************************************************************************)
EXTENDS Event, FiniteSetTheorems, SequenceTheorems, TLAPS

USE ConstantsAssumption

\* A task in the stack, or carried by a continuation that has still to push it,
\* is parked, and is in one of these places only.
Parked ==
  /\ \A i \in DOMAIN waiting : pc[waiting[i]] = "parked"
  /\ \A i, j \in DOMAIN waiting : waiting[i] = waiting[j] => i = j
  /\ \A s \in Threads : cont[s].pc = "push" =>
       /\ cont[s].task \in Tasks
       /\ pc[cont[s].task] = "parked"
       /\ \A i \in DOMAIN waiting : waiting[i] # cont[s].task
  /\ \A s, r \in Threads :
       cont[s].pc = "push" /\ cont[r].pc = "push" /\ cont[s].task = cont[r].task => s = r

\* Only a signaled event is drained or popped.
PopsSignaled ==
  /\ \A t \in Tasks : pc[t] = "drain" => signaled
  /\ \A s \in Threads : cont[s].pc = "pop" => signaled

\* A thread that executes a task runs no continuation.
Exclusive == \A s \in Threads : on[s] # NoTask => cont[s] = NoCont

IInv == TypeOK /\ Exclusive /\ Parked /\ PopsSignaled /\ NoLostWakeup

\* The head of a stack of parked tasks, and what is left under it.
LEMMA PopWaiting ==
  ASSUME TypeOK, Parked, waiting # <<>>
  PROVE  /\ Head(waiting) \in Tasks /\ pc[Head(waiting)] = "parked"
         /\ Tail(waiting) \in Seq(Tasks)
         /\ Len(Tail(waiting)) = Len(waiting) - 1
         /\ DOMAIN Tail(waiting) = 1 .. Len(waiting) - 1
         /\ \A i \in DOMAIN Tail(waiting) :
              /\ i + 1 \in DOMAIN waiting
              /\ Tail(waiting)[i] = waiting[i + 1]
              /\ Tail(waiting)[i] # Head(waiting)
<1>1. waiting \in Seq(Tasks) /\ Len(waiting) \in Nat /\ Len(waiting) > 0
  BY DEF TypeOK
<1>2. 1 \in DOMAIN waiting /\ Head(waiting) = waiting[1]
  BY <1>1
<1>3. Tail(waiting) \in Seq(Tasks) /\ Len(Tail(waiting)) = Len(waiting) - 1
  BY <1>1
<1>4. \A i \in 1 .. Len(waiting) - 1 : i + 1 \in DOMAIN waiting /\ Tail(waiting)[i] = waiting[i + 1]
  BY <1>1
<1> QED BY <1>1, <1>2, <1>3, <1>4 DEF Parked

\* A push puts the task on top of the stack.
LEMMA PushWaiting ==
  ASSUME TypeOK, NEW t \in Tasks
  PROVE  LET w == <<t>> \o waiting IN
         /\ w \in Seq(Tasks) /\ Len(w) = Len(waiting) + 1
         /\ DOMAIN w = 1 .. Len(waiting) + 1
         /\ w[1] = t
         /\ \A i \in DOMAIN waiting : w[i + 1] = waiting[i]
         /\ \A i \in DOMAIN w : i # 1 => i - 1 \in DOMAIN waiting /\ w[i] = waiting[i - 1]
  BY DEF TypeOK

\* The threads whose continuation will still pop are finitely many.
LEMMA PoppingFinite == IsFiniteSet(Popping) /\ Cardinality(Popping) \in Nat
<1>1. Popping \subseteq Threads BY DEF Popping
<1> QED BY <1>1, FS_Subset, FS_CardinalityType

\* An event that starts signaled, or not, satisfies the inductive invariant.
LEMMA InitWithIInv ==
  ASSUME NEW isSet \in BOOLEAN, InitWith(isSet)
  PROVE  IInv /\ Abstract!Init
<1> USE DEF InitWith, NoCont
<1>1. TypeOK
  <2>1. signaled \in BOOLEAN OBVIOUS
  <2>2. left \in [Tasks -> 0 .. MaxCalls] /\ pc \in [Tasks -> Labels] BY DEF Labels
  <2>3. waiting \in Seq(Tasks) /\ ready \in SUBSET Tasks OBVIOUS
  <2>4. /\ on \in [Threads -> Tasks \cup {NoTask}]
        /\ cont \in [Threads -> [pc : {"none", "push", "load", "pop"}, task : Tasks \cup {NoTask}]]
    OBVIOUS
  <2> QED BY <2>1, <2>2, <2>3, <2>4 DEF TypeOK
<1>2. DOMAIN waiting = {} /\ \A s \in Threads : cont[s].pc = "none"
  OBVIOUS
<1>4. Parked /\ Exclusive BY <1>2 DEF Parked, Exclusive
<1>3. PopsSignaled BY <1>2 DEF PopsSignaled
<1>6. NoLostWakeup BY PoppingFinite DEF NoLostWakeup
<1>5. Abstract!Init BY DEF Abstract!Init, inside
<1> QED BY <1>1, <1>3, <1>4, <1>5, <1>6 DEF IInv

\* So does the initial state of an event used by itself.
LEMMA InitIInv == Init => IInv /\ Abstract!Init
BY InitWithIInv DEF Init

\* The store of a signal(), whoever has come to it, keeps the invariant: the
\* storing task will drain the stack.
LEMMA StoreIInv ==
  ASSUME NEW s \in Threads, NEW t \in Tasks, IInv, Store(s, t),
         pc[t] \in {"out", "set"}, left' \in [Tasks -> 0 .. MaxCalls]
  PROVE  IInv'
<1> USE DEF IInv, Goto, Store
<1>1. TypeOK' BY DEF TypeOK, Labels
<1>2. Parked' /\ Exclusive' BY DEF Parked, Exclusive, TypeOK
<1>3. PopsSignaled' BY DEF PopsSignaled, TypeOK
<1>4. Draining' BY DEF Draining, TypeOK
<1> QED BY <1>1, <1>2, <1>3, <1>4 DEF NoLostWakeup

\* Every step of a task keeps the inductive invariant.
LEMMA TaskStepIInv ==
  ASSUME NEW s \in Threads, NEW t \in Tasks, IInv,
         \/ Wait(s, t) \/ WaitYield(s, t) \/ Signal(s, t) \/ Drain(s, t) \/ Finish(s, t)
  PROVE  IInv'
<1> USE DEF IInv, At, Goto, Call
<1>1. CASE Wait(s, t)
  <2>1. TypeOK' BY <1>1 DEF Wait, TypeOK, Labels
  <2>2. Parked' /\ Exclusive' BY <1>1 DEF Wait, Parked, Exclusive, TypeOK
  <2>3. PopsSignaled' BY <1>1 DEF Wait, PopsSignaled, TypeOK
  <2>4. NoLostWakeup' BY <1>1 DEF Wait, NoLostWakeup, Draining, Popping, TypeOK
  <2> QED BY <2>1, <2>2, <2>3, <2>4
<1>2. CASE WaitYield(s, t)
  <2>1. TypeOK' BY <1>2 DEF WaitYield, TypeOK, Labels
  <2>2. Parked' /\ Exclusive' BY <1>2 DEF WaitYield, Parked, Exclusive, TypeOK
  <2>3. PopsSignaled' BY <1>2 DEF WaitYield, PopsSignaled, TypeOK
  <2>4. NoLostWakeup'
    <3>1. cont[s] = NoCont BY <1>2 DEF WaitYield, Exclusive, TypeOK
    <3>2. Popping' = Popping BY <1>2, <3>1 DEF WaitYield, Popping, TypeOK, NoCont
    <3>3. Draining' <=> Draining BY <1>2 DEF WaitYield, Draining, TypeOK
    <3> QED BY <1>2, <3>2, <3>3 DEF WaitYield, NoLostWakeup
  <2> QED BY <2>1, <2>2, <2>3, <2>4
<1>3. CASE Signal(s, t)
  <2>1. left' \in [Tasks -> 0 .. MaxCalls] BY <1>3 DEF Signal, TypeOK
  <2> QED BY <1>3, <2>1, StoreIInv DEF Signal
<1>4. CASE Drain(s, t)
  <2>1. CASE waiting = <<>>
    <3>1. TypeOK' BY <1>4, <2>1 DEF Drain, TypeOK, Labels
    <3>2. Parked' /\ Exclusive' BY <1>4, <2>1 DEF Drain, Parked, Exclusive, TypeOK
    <3>3. PopsSignaled' BY <1>4, <2>1 DEF Drain, PopsSignaled, TypeOK
    <3>4. Len(waiting') = 0 BY <1>4, <2>1 DEF Drain
    <3>5. Popping' = Popping BY <1>4 DEF Drain, Popping
    <3> QED BY <3>1, <3>2, <3>3, <3>4, <3>5, PoppingFinite DEF NoLostWakeup
  <2>2. CASE waiting # <<>>
    <3> DEFINE next == Head(waiting)
               rest == Tail(waiting)
    <3>1. /\ waiting' = rest /\ ready' = ready \cup {next}
          /\ pc' = [pc EXCEPT ![next] = AfterWait] /\ pc[t] = "drain"
          /\ UNCHANGED <<signaled, left, on, cont>>
      BY <1>4, <2>2 DEF Drain
    <3>2. /\ next \in Tasks /\ pc[next] = "parked" /\ rest \in Seq(Tasks)
          /\ \A i \in DOMAIN rest : /\ i + 1 \in DOMAIN waiting
                                    /\ rest[i] = waiting[i + 1]
                                    /\ rest[i] # next
          /\ DOMAIN rest = 1 .. Len(waiting) - 1
          /\ next = waiting[1] /\ 1 \in DOMAIN waiting /\ Len(waiting) \in Nat
      BY <2>2, PopWaiting DEF TypeOK
    <3> HIDE DEF next, rest
    <3>3. TypeOK' BY <3>1, <3>2 DEF TypeOK, Labels
    <3>4. Parked' /\ Exclusive' BY <3>1, <3>2 DEF Parked, Exclusive, TypeOK
    <3>5. PopsSignaled' BY <3>1, <3>2 DEF PopsSignaled, TypeOK
    <3>6. Draining' BY <3>1, <3>2 DEF Draining, TypeOK
    <3> QED BY <3>3, <3>4, <3>5, <3>6 DEF NoLostWakeup
  <2> QED BY <2>1, <2>2
<1>5. CASE Finish(s, t)
  <2>1. TypeOK' BY <1>5 DEF Finish, TypeOK, Labels
  <2>2. Parked' /\ Exclusive' BY <1>5 DEF Finish, Parked, Exclusive, TypeOK
  <2>3. PopsSignaled' BY <1>5 DEF Finish, PopsSignaled, TypeOK
  <2>4. NoLostWakeup' BY <1>5 DEF Finish, NoLostWakeup, Draining, Popping, TypeOK
  <2> QED BY <2>1, <2>2, <2>3, <2>4
<1> QED BY <1>1, <1>2, <1>3, <1>4, <1>5

\* Every step of a continuation keeps the inductive invariant: a push adds a
\* task and a continuation that will pop, and a pop takes one of each away.
LEMMA ContStepIInv ==
  ASSUME NEW s \in Threads, IInv, ContStep(s)
  PROVE  IInv'
<1> USE DEF IInv, Goto
<1>1. CASE ContPush(s)
  <2> DEFINE t == cont[s].task
             w == <<t>> \o waiting
  <2>1. /\ waiting' = w /\ cont' = [cont EXCEPT ![s] = [pc |-> "load", task |-> NoTask]]
        /\ UNCHANGED <<signaled, pc, left, on, ready>>
        /\ cont[s].pc = "push" /\ t \in Tasks /\ pc[t] = "parked"
        /\ \A i \in DOMAIN waiting : waiting[i] # t
        /\ \A r \in Threads : cont[r].pc = "push" /\ cont[r].task = t => r = s
    BY <1>1 DEF ContPush, Parked
  <2>2. /\ w \in Seq(Tasks) /\ Len(w) = Len(waiting) + 1
        /\ DOMAIN w = 1 .. Len(waiting) + 1 /\ w[1] = t
        /\ \A i \in DOMAIN w : i # 1 => i - 1 \in DOMAIN waiting /\ w[i] = waiting[i - 1]
    BY <2>1, PushWaiting
  <2>l. Len(waiting) \in Nat BY DEF TypeOK
  <2> HIDE DEF t, w
  <2>3. TypeOK' BY <2>1, <2>2 DEF TypeOK
  <2>4. Exclusive' BY <2>1 DEF Exclusive, TypeOK, NoCont
  <2>5. Parked'
    <3>1. \A i \in DOMAIN w : pc[w[i]] = "parked"
      BY <2>1, <2>2 DEF Parked
    <3>2. \A i, j \in DOMAIN w : w[i] = w[j] => i = j
      BY <2>1, <2>2, <2>l DEF Parked
    <3>3. \A r \in Threads : cont'[r].pc = "push" => cont'[r] = cont[r] /\ r # s
      BY <2>1 DEF TypeOK
    <3>4. \A r \in Threads : cont'[r].pc = "push" =>
            \A i \in DOMAIN w : w[i] # cont'[r].task
      BY <2>1, <2>2, <3>3 DEF Parked
    <3> QED BY <2>1, <3>1, <3>2, <3>3, <3>4 DEF Parked
  <2>6. PopsSignaled' BY <2>1 DEF PopsSignaled, TypeOK
  <2>7. NoLostWakeup'
    <3>1. Popping' = Popping \cup {s} /\ s \notin Popping
      BY <2>1 DEF Popping, TypeOK
    <3>2. Cardinality(Popping') = Cardinality(Popping) + 1
      BY <3>1, PoppingFinite, FS_AddElement
    <3>3. Draining' <=> Draining BY <2>1 DEF Draining
    <3> QED BY <2>1, <2>2, <2>l, <3>2, <3>3, PoppingFinite DEF NoLostWakeup
  <2> QED BY <2>3, <2>4, <2>5, <2>6, <2>7
<1>2. CASE ContLoad(s)
  <2>1. TypeOK' BY <1>2 DEF ContLoad, TypeOK, NoCont
  <2>2. Exclusive' BY <1>2 DEF ContLoad, Exclusive, TypeOK, NoCont
  <2>3. Parked' BY <1>2 DEF ContLoad, Parked, TypeOK, NoCont
  <2>4. PopsSignaled' BY <1>2 DEF ContLoad, PopsSignaled, TypeOK, NoCont
  <2>5. NoLostWakeup'
    <3>1. signaled => Popping' = Popping BY <1>2 DEF ContLoad, Popping, TypeOK
    <3>2. Draining' <=> Draining BY <1>2 DEF ContLoad, Draining
    <3> QED BY <1>2, <3>1, <3>2 DEF ContLoad, NoLostWakeup
  <2> QED BY <2>1, <2>2, <2>3, <2>4, <2>5
<1>3. CASE ContPop(s)
  <2>1. CASE waiting = <<>>
    <3>1. TypeOK' BY <1>3, <2>1 DEF ContPop, TypeOK, NoCont
    <3>2. Exclusive' BY <1>3, <2>1 DEF ContPop, Exclusive, TypeOK, NoCont
    <3>3. Parked' BY <1>3, <2>1 DEF ContPop, Parked, TypeOK, NoCont
    <3>4. PopsSignaled' BY <1>3, <2>1 DEF ContPop, PopsSignaled, TypeOK, NoCont
    <3>5. Len(waiting') = 0 BY <1>3, <2>1 DEF ContPop
    <3>6. Popping' \subseteq Threads BY DEF Popping
    <3>7. Cardinality(Popping') \in Nat BY <3>6, FS_Subset, FS_CardinalityType
    <3> QED BY <3>1, <3>2, <3>3, <3>4, <3>5, <3>7 DEF NoLostWakeup
  <2>2. CASE waiting # <<>>
    <3> DEFINE next == Head(waiting)
               rest == Tail(waiting)
    <3>1. /\ waiting' = rest /\ on' = [on EXCEPT ![s] = next]
          /\ pc' = [pc EXCEPT ![next] = AfterWait]
          /\ cont' = [cont EXCEPT ![s] = NoCont]
          /\ UNCHANGED <<signaled, left, ready>>
          /\ cont[s].pc = "pop"
      BY <1>3, <2>2 DEF ContPop
    <3>2. /\ next \in Tasks /\ pc[next] = "parked" /\ rest \in Seq(Tasks)
          /\ \A i \in DOMAIN rest : /\ i + 1 \in DOMAIN waiting
                                    /\ rest[i] = waiting[i + 1]
                                    /\ rest[i] # next
          /\ DOMAIN rest = 1 .. Len(waiting) - 1 /\ Len(rest) = Len(waiting) - 1
          /\ next = waiting[1] /\ 1 \in DOMAIN waiting /\ Len(waiting) \in Nat
      BY <2>2, PopWaiting DEF TypeOK
    <3> HIDE DEF next, rest
    <3>3. TypeOK' BY <3>1, <3>2 DEF TypeOK, Labels, NoCont
    <3>4. Exclusive' BY <3>1, <3>2 DEF Exclusive, TypeOK
    <3>5. Parked' BY <3>1, <3>2 DEF Parked, TypeOK, NoCont
    <3>6. PopsSignaled' BY <3>1, <3>2 DEF PopsSignaled, TypeOK, NoCont
    <3>7. NoLostWakeup'
      <4>1. Popping' = Popping \ {s} /\ s \in Popping
        BY <3>1 DEF Popping, TypeOK, NoCont
      <4>2. Cardinality(Popping') = Cardinality(Popping) - 1
        BY <4>1, PoppingFinite, FS_RemoveElement
      <4>3. Draining' <=> Draining BY <3>1, <3>2 DEF Draining, TypeOK
      <4> QED BY <3>1, <3>2, <4>2, <4>3, PoppingFinite DEF NoLostWakeup
    <3> QED BY <3>3, <3>4, <3>5, <3>6, <3>7
  <2> QED BY <2>1, <2>2
<1> QED BY <1>1, <1>2, <1>3 DEF ContStep

\* So does the dispatch of a ready task.
LEMMA DispatchIInv ==
  ASSUME NEW s \in Threads, IInv, Dispatch(s)
  PROVE  IInv'
<1>1. PICK t \in Tasks : on' = [on EXCEPT ![s] = t] /\ ready' = ready \ {t}
  BY DEF Dispatch, IInv, TypeOK
<1>2. TypeOK' BY <1>1 DEF Dispatch, IInv, TypeOK
<1>3. Exclusive' BY <1>1 DEF Dispatch, IInv, TypeOK, Exclusive
<1> QED BY <1>2, <1>3 DEF Dispatch, IInv, Parked, PopsSignaled, NoLostWakeup, Draining, Popping

\* The steps every user of the event makes keep the invariant.
LEMMA CommonStepIInv ==
  ASSUME NEW s \in Threads, IInv, CommonStep(s)
  PROVE  IInv'
BY TaskStepIInv, ContStepIInv, DispatchIInv DEF CommonStep

\* The invariant is inductive.
LEMMA NextIInv == IInv /\ [Next]_vars => IInv'
<1> SUFFICES ASSUME IInv, [Next]_vars PROVE IInv'
  OBVIOUS
<1>1. CASE UNCHANGED vars
  BY <1>1 DEF vars, IInv, TypeOK, Exclusive, Parked, PopsSignaled, NoLostWakeup,
              Draining, Popping
<1>2. CASE \E s \in Threads : ThreadStep(s)
  BY <1>2, TaskStepIInv, CommonStepIInv DEF ThreadStep
<1> QED BY <1>1, <1>2 DEF Next, Terminated

\* The variables of the event, its tasks and its threads keep their types.
THEOREM TypeCorrect == Spec => []TypeOK
<1>1. IInv => TypeOK BY DEF IInv
<1> QED BY <1>1, InitIInv, NextIInv, PTL DEF Spec

\* Once the event is signaled and nobody drains the stack, each task left in
\* it has a continuation that will still pop one.
THEOREM WakeupsNotLost == Spec => []NoLostWakeup
<1>1. IInv => NoLostWakeup BY DEF IInv
<1> QED BY <1>1, InitIInv, NextIInv, PTL DEF Spec

\* Every step of the event is a step of EventSpec, or one it does not see: no
\* wait() returns before a signal(), and the event never becomes unsignaled.
\* First the steps every user of the event makes, and the store.
LEMMA CommonSimulation ==
  ASSUME NEW r \in Threads, IInv, CommonStep(r)
  PROVE  [Abstract!Next]_(Abstract!vars)
<1> USE DEF IInv, Abstract!Next, Abstract!vars
<1>2. ASSUME NEW s \in Threads, NEW t \in Tasks,
             Wait(s, t) \/ WaitYield(s, t) \/ Finish(s, t)
      PROVE  [Abstract!Next]_(Abstract!vars)
  <2>1. signaled' = signaled /\ pc[t] \in {"out", "yield"}
    BY <1>2 DEF Wait, WaitYield, Finish, At
  <2>2. inside' = inside \/ (t \notin inside /\ inside' = inside \cup {t})
    BY <1>2 DEF Wait, WaitYield, Finish, At, Goto, TypeOK, inside
  <2> QED BY <2>1, <2>2 DEF Abstract!Enter
<1>4. ASSUME NEW s \in Threads,
             ContPush(s) \/ ContLoad(s) \/ Dispatch(s)
      PROVE  UNCHANGED <<signaled, inside>>
  BY <1>4 DEF ContPush, ContLoad, Dispatch, inside
<1>5. ASSUME NEW t \in Tasks, pc[t] = "parked", signaled, signaled' = signaled,
             pc' = [pc EXCEPT ![t] = AfterWait]
      PROVE  Abstract!Return(t)
  BY <1>5 DEF TypeOK, inside, Abstract!Return
<1>6. ASSUME NEW s \in Threads, NEW t \in Tasks, Drain(s, t)
      PROVE  [Abstract!Next]_(Abstract!vars)
  <2>1. CASE waiting = <<>>
    BY <1>6, <2>1 DEF Drain, At, Goto, TypeOK, inside
  <2>2. CASE waiting # <<>>
    <3>1. Head(waiting) \in Tasks /\ pc[Head(waiting)] = "parked"
      BY <2>2, PopWaiting
    <3>2. signaled BY <1>6 DEF Drain, At, PopsSignaled
    <3> QED BY <1>5, <1>6, <2>2, <3>1, <3>2 DEF Drain, Goto
  <2> QED BY <2>1, <2>2
<1>7. ASSUME NEW s \in Threads, ContPop(s)
      PROVE  [Abstract!Next]_(Abstract!vars)
  <2>1. CASE waiting = <<>>
    BY <1>7, <2>1 DEF ContPop, inside
  <2>2. CASE waiting # <<>>
    <3>1. Head(waiting) \in Tasks /\ pc[Head(waiting)] = "parked"
      BY <2>2, PopWaiting
    <3>2. signaled BY <1>7 DEF ContPop, PopsSignaled
    <3> QED BY <1>5, <1>7, <2>2, <3>1, <3>2 DEF ContPop, Goto
  <2> QED BY <2>1, <2>2
<1> QED
  BY <1>2, <1>4, <1>6, <1>7 DEF CommonStep, ContStep

\* The store is the abstract signal.
LEMMA StoreSimulation ==
  ASSUME NEW s \in Threads, NEW t \in Tasks, IInv, Store(s, t), pc[t] \in {"out", "set"}
  PROVE  Abstract!Signal
BY DEF Store, Goto, IInv, TypeOK, inside, Abstract!Signal

\* With them, every step of an event used by itself.
LEMMA StepSimulation == IInv /\ [Next]_vars => [Abstract!Next]_(Abstract!vars)
<1> SUFFICES ASSUME IInv, [Next]_vars PROVE [Abstract!Next]_(Abstract!vars)
  OBVIOUS
<1>1. CASE UNCHANGED vars
  BY <1>1 DEF vars, inside, Abstract!vars
<1>2. ASSUME NEW s \in Threads, NEW t \in Tasks, Signal(s, t)
      PROVE  Abstract!Signal
  BY <1>2, StoreSimulation DEF Signal, At
<1> QED
  BY <1>1, <1>2, CommonSimulation DEF Next, Terminated, ThreadStep, Abstract!Next

\* Who uses the event relies on this: the flag is not reset, and a task goes on
\* from its wait() only when the event is signaled.
LEMMA CommonEffect ==
  ASSUME NEW r \in Threads, IInv, CommonStep(r)
  PROVE  /\ signaled' = signaled
         /\ \A t \in Tasks : /\ pc'[t] = "set" => pc[t] = "set"
                             /\ pc'[t] = "read" => pc[t] = "read" \/ signaled
                             /\ pc[t] = "parked" => pc'[t] = "parked" \/ signaled
<1> DEFINE Effect == \A t \in Tasks : /\ pc'[t] = "set" => pc[t] = "set"
                                      /\ pc'[t] = "read" => pc[t] = "read" \/ signaled
                                      /\ pc[t] = "parked" => pc'[t] = "parked" \/ signaled
<1> USE DEF IInv, At, Goto, TypeOK
<1>1. ASSUME NEW s \in Threads, NEW t \in Tasks,
             Wait(s, t) \/ WaitYield(s, t) \/ Finish(s, t)
      PROVE  signaled' = signaled /\ Effect
  BY <1>1 DEF Wait, WaitYield, Finish
<1>2. ASSUME NEW s \in Threads, ContPush(s) \/ ContLoad(s) \/ Dispatch(s)
      PROVE  signaled' = signaled /\ Effect
  BY <1>2 DEF ContPush, ContLoad, Dispatch
<1>3. ASSUME NEW s \in Threads, NEW t \in Tasks, Drain(s, t)
      PROVE  signaled' = signaled /\ Effect
  <2>1. signaled BY <1>3 DEF Drain, PopsSignaled
  <2>2. \A u \in Tasks : pc'[u] = "set" => pc[u] = "set"
    BY <1>3, PopWaiting DEF Drain
  <2> QED BY <1>3, <2>1, <2>2 DEF Drain
<1>4. ASSUME NEW s \in Threads, ContPop(s)
      PROVE  signaled' = signaled /\ Effect
  <2>1. signaled BY <1>4 DEF ContPop, PopsSignaled
  <2>2. \A u \in Tasks : pc'[u] = "set" => pc[u] = "set"
    BY <1>4, PopWaiting DEF ContPop
  <2> QED BY <1>4, <2>1, <2>2 DEF ContPop
<1> QED BY <1>1, <1>2, <1>3, <1>4 DEF CommonStep, ContStep

\* The safety part of EventImplemented: the event implements EventSpec.
THEOREM SafetyImplemented == Spec => Abstract!Init /\ [][Abstract!Next]_(Abstract!vars)
BY InitIInv, NextIInv, StepSimulation, PTL DEF Spec
=============================================================================
