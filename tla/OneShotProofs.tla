--------------------------- MODULE OneShotProofs ---------------------------
(***************************************************************************)
(* A latch's wait() returns only at count 0, and a promise's with its       *)
(* value, for every number of tasks, of scheduler threads and of calls. The *)
(* event keeps its properties whoever wraps it: what EventProofs proves of  *)
(* an event used by itself is used of the event of a latch and of a         *)
(* promise, which are the same event with another place to return to.       *)
(***************************************************************************)
EXTENDS MCOneShot, EventProofs

USE ConstantsAssumption, OneShotAssumption

LatchEvent == INSTANCE EventProofs WITH AfterWait <- "out"
PromiseEvent == INSTANCE EventProofs WITH AfterWait <- "read"

\* The invariant of the event does not depend on where its wait() returns to,
\* nor do the states of EventSpec.
LEMMA SameIInv == (LatchEvent!IInv <=> IInv) /\ (PromiseEvent!IInv <=> IInv)
<1> USE DEF IInv, TypeOK, Exclusive, Parked, PopsSignaled, NoLostWakeup, Draining,
            Popping, NoCont, Labels, Cardinality, IsFiniteSet
<1>1. LatchEvent!IInv <=> IInv
  BY DEF LatchEvent!IInv, LatchEvent!TypeOK, LatchEvent!Exclusive, LatchEvent!Parked,
         LatchEvent!PopsSignaled, LatchEvent!NoLostWakeup, LatchEvent!Draining,
         LatchEvent!Popping, LatchEvent!NoCont, LatchEvent!Labels,
         LatchEvent!Cardinality, LatchEvent!IsFiniteSet
<1>2. PromiseEvent!IInv <=> IInv
  BY DEF PromiseEvent!IInv, PromiseEvent!TypeOK, PromiseEvent!Exclusive,
         PromiseEvent!Parked, PromiseEvent!PopsSignaled, PromiseEvent!NoLostWakeup,
         PromiseEvent!Draining, PromiseEvent!Popping, PromiseEvent!NoCont,
         PromiseEvent!Labels, PromiseEvent!Cardinality, PromiseEvent!IsFiniteSet
<1> QED BY <1>1, <1>2

\* The same of the next state.
LEMMA SameIInvNext == ((LatchEvent!IInv <=> IInv) /\ (PromiseEvent!IInv <=> IInv))'
BY SameIInv, PTL

\* The event of a latch and that of a promise satisfy the event's assumption.
LEMMA SameAssumption ==
  LatchEvent!ConstantsAssumption /\ PromiseEvent!ConstantsAssumption
BY ConstantsAssumption
DEF ConstantsAssumption, LatchEvent!ConstantsAssumption, PromiseEvent!ConstantsAssumption,
       IsFiniteSet, LatchEvent!IsFiniteSet, PromiseEvent!IsFiniteSet

\* What a latch and a promise rely on: the flag is not reset, and a task goes
\* on from its wait() only when the event is signaled.
WaitEffect ==
  /\ signaled' = signaled
  /\ \A t \in Tasks : /\ pc'[t] = "set" => pc[t] = "set"
                      /\ pc'[t] = "read" => pc[t] = "read" \/ signaled
                      /\ pc[t] = "parked" => pc'[t] = "parked" \/ signaled

\* Every step that belongs to the event of a latch or of a promise keeps the
\* event's invariant, and is a step of EventSpec or one it does not see.
LEMMA WrappedStep ==
  ASSUME IInv, NEW s \in Threads, L!E!CommonStep(s) \/ P!E!CommonStep(s)
  PROVE  IInv' /\ WaitEffect /\ [Abstract!Next]_(Abstract!vars)
<1>1. CASE L!E!CommonStep(s)
  <2>1. LatchEvent!CommonStep(s)
    BY <1>1
    DEF L!E!CommonStep, L!E!ContStep, L!E!ContPush, L!E!ContLoad, L!E!ContPop, L!E!Dispatch,
        L!E!Wait, L!E!WaitYield, L!E!Drain, L!E!Finish, L!E!At, L!E!Goto, L!E!Call, L!E!NoCont,
        LatchEvent!CommonStep, LatchEvent!ContStep, LatchEvent!ContPush, LatchEvent!ContLoad,
        LatchEvent!ContPop, LatchEvent!Dispatch, LatchEvent!Wait, LatchEvent!WaitYield,
        LatchEvent!Drain, LatchEvent!Finish, LatchEvent!At, LatchEvent!Goto,
        LatchEvent!Call, LatchEvent!NoCont
  <2>2. LatchEvent!IInv' /\ WaitEffect /\ [LatchEvent!Abstract!Next]_(LatchEvent!Abstract!vars)
    BY <2>1, SameIInv, SameAssumption, LatchEvent!CommonStepIInv, LatchEvent!CommonSimulation,
       LatchEvent!CommonEffect DEF WaitEffect
  <2>3. [Abstract!Next]_(Abstract!vars)
    BY <2>2
    DEF LatchEvent!Abstract!Next, LatchEvent!Abstract!vars, LatchEvent!Abstract!Enter,
        LatchEvent!Abstract!Return, LatchEvent!Abstract!Signal, LatchEvent!inside,
        Abstract!Next, Abstract!vars, Abstract!Enter, Abstract!Return, Abstract!Signal, inside
  <2> QED BY <2>2, <2>3, SameIInvNext
<1>2. CASE P!E!CommonStep(s)
  <2>1. PromiseEvent!CommonStep(s)
    BY <1>2
    DEF P!E!CommonStep, P!E!ContStep, P!E!ContPush, P!E!ContLoad, P!E!ContPop, P!E!Dispatch,
        P!E!Wait, P!E!WaitYield, P!E!Drain, P!E!Finish, P!E!At, P!E!Goto, P!E!Call, P!E!NoCont,
        PromiseEvent!CommonStep, PromiseEvent!ContStep, PromiseEvent!ContPush,
        PromiseEvent!ContLoad, PromiseEvent!ContPop, PromiseEvent!Dispatch, PromiseEvent!Wait,
        PromiseEvent!WaitYield, PromiseEvent!Drain, PromiseEvent!Finish, PromiseEvent!At,
        PromiseEvent!Goto, PromiseEvent!Call, PromiseEvent!NoCont
  <2>2. PromiseEvent!IInv' /\ WaitEffect /\ [PromiseEvent!Abstract!Next]_(PromiseEvent!Abstract!vars)
    BY <2>1, SameIInv, SameAssumption, PromiseEvent!CommonStepIInv, PromiseEvent!CommonSimulation,
       PromiseEvent!CommonEffect DEF WaitEffect
  <2>3. [Abstract!Next]_(Abstract!vars)
    BY <2>2
    DEF PromiseEvent!Abstract!Next, PromiseEvent!Abstract!vars, PromiseEvent!Abstract!Enter,
        PromiseEvent!Abstract!Return, PromiseEvent!Abstract!Signal, PromiseEvent!inside,
        Abstract!Next, Abstract!vars, Abstract!Enter, Abstract!Return, Abstract!Signal, inside
  <2> QED BY <2>2, <2>3, SameIInvNext
<1> QED BY <1>1, <1>2

-----------------------------------------------------------------------------
\* The latch: its event is signaled, and its last countDown goes on to signal
\* it, only when the count is 0.
Counting ==
  /\ counter \in Nat
  /\ kind # "latch" => counter = 0
  /\ signaled => counter = 0
  /\ \A t \in Tasks : pc[t] = "set" /\ kind = "latch" => counter = 0

\* The promise: whoever goes on to signal its event, or to read its value,
\* finds the value stored, and no one has read another.
Fulfilled ==
  /\ got \in [Tasks -> SUBSET Values]
  /\ kind = "promise" => /\ signaled => value # Unset
                         /\ \A t \in Tasks : pc[t] \in {"set", "read"} => value # Unset
                         /\ value \in Values \cup {Unset}
  /\ OneValue

Kinds == kind \in {"event", "latch", "promise"}

OneShotInv == Kinds /\ IInv /\ Counting /\ Fulfilled

\* A task that leaves its wait() leaves it at count 0.
Opens == \A t \in Tasks : pc[t] = "parked" /\ pc'[t] # "parked" => counter = 0

\* The initial states satisfy the invariant.
LEMMA OneShotInit == MCInit => OneShotInv /\ Abstract!Init
<1> SUFFICES ASSUME MCInit PROVE OneShotInv /\ Abstract!Init
  OBVIOUS
<1>1. Kinds BY DEF MCInit, Kinds
<1>2. PICK isSet \in BOOLEAN : InitWith(isSet) /\ (isSet => kind = "latch" /\ counter = 0)
  BY DEF MCInit, Init, InitWith, L!Init, L!E!InitWith, P!Init, P!E!Init, P!E!InitWith,
         NoCont, L!E!NoCont, P!E!NoCont
<1>3. IInv /\ Abstract!Init BY <1>2, InitWithIInv
<1>4. Counting
  <2>1. counter \in Nat /\ (kind # "latch" => counter = 0)
    <3>1. CASE kind = "latch" BY <3>1 DEF MCInit, L!Init
    <3>2. CASE kind # "latch" BY <3>2 DEF MCInit, NoLatch
    <3> QED BY <3>1, <3>2
  <2>2. signaled = isSet /\ \A t \in Tasks : pc[t] = "out"
    BY <1>2 DEF InitWith
  <2> QED BY <1>2, <2>1, <2>2 DEF Counting
<1>5. Fulfilled
  BY <1>2 DEF MCInit, P!Init, NoPromise, Fulfilled, OneValue, P!OneValue, InitWith
<1> QED BY <1>1, <1>3, <1>4, <1>5 DEF OneShotInv

\* The event's own steps keep the invariant of a latch and of a promise.
LEMMA EventPart ==
  ASSUME OneShotInv, NEW s \in Threads, kind' = kind, UNCHANGED <<counter, value, got>>,
         \/ kind = "event" /\ ThreadStep(s)
         \/ kind = "latch" /\ L!E!CommonStep(s)
         \/ kind = "promise" /\ P!E!CommonStep(s)
  PROVE  OneShotInv' /\ Opens /\ [Abstract!Next]_(Abstract!vars)
<1> USE DEF OneShotInv
<1>1. CASE kind = "event"
  <2>1. IInv' BY <1>1, CommonStepIInv, TaskStepIInv DEF ThreadStep
  <2>2. [Abstract!Next]_(Abstract!vars)
    BY <1>1, CommonSimulation, StoreSimulation DEF ThreadStep, Signal, At, Abstract!Next
  <2>3. Kinds' /\ Counting' /\ Fulfilled' /\ Opens
    BY <1>1 DEF Kinds, Counting, Fulfilled, OneValue, P!OneValue, Opens
  <2> QED BY <2>1, <2>2, <2>3
<1>2. CASE kind # "event"
  <2>1. IInv' /\ WaitEffect /\ [Abstract!Next]_(Abstract!vars)
    BY <1>2, WrappedStep
  <2>2. Kinds' /\ Counting' /\ Opens
    BY <2>1 DEF Kinds, Counting, WaitEffect, Opens
  <2>3. Fulfilled'
    BY <2>1 DEF Fulfilled, WaitEffect, OneValue, P!OneValue
  <2> QED BY <2>1, <2>2, <2>3
<1> QED BY <1>1, <1>2

\* A countDown, a fulfil and a read move one task, which is not in its wait().
LEMMA MoveStep ==
  ASSUME IInv, NEW t \in Tasks, NEW label \in {"out", "set"},
         pc[t] \in {"out", "read"}, pc' = [pc EXCEPT ![t] = label],
         left' \in [Tasks -> 0 .. MaxCalls],
         UNCHANGED <<signaled, waiting, on, cont, ready>>
  PROVE  IInv' /\ UNCHANGED Abstract!vars
<1> USE DEF IInv
<1>1. TypeOK' BY DEF TypeOK, Labels
<1>2. Exclusive' /\ Parked' BY DEF Exclusive, Parked, TypeOK
<1>3. PopsSignaled' BY DEF PopsSignaled, TypeOK
<1>4. NoLostWakeup' BY DEF NoLostWakeup, Draining, Popping, TypeOK
<1>5. inside' = inside BY DEF inside, TypeOK
<1> QED BY <1>1, <1>2, <1>3, <1>4, <1>5 DEF Abstract!vars

\* The steps of a latch keep the invariant.
LEMMA LatchPart ==
  ASSUME OneShotInv, NEW s \in Threads, NEW t \in Tasks,
         kind = "latch", kind' = kind, UNCHANGED <<value, got>>,
         L!CountDown(s, t) \/ L!SignalZero(s, t)
  PROVE  OneShotInv' /\ Opens /\ [Abstract!Next]_(Abstract!vars)
<1> USE DEF OneShotInv
<1>0. pc \in [Tasks -> Labels] /\ left \in [Tasks -> 0 .. MaxCalls] BY DEF IInv, TypeOK
<1>1. CASE L!CountDown(s, t)
  <2> DEFINE label == IF counter = 1 THEN "set" ELSE "out"
  <2>0. label \in {"out", "set"} OBVIOUS
  <2>1. /\ pc[t] = "out" /\ pc' = [pc EXCEPT ![t] = label]
        /\ counter > 0 /\ counter' = counter - 1
        /\ UNCHANGED <<signaled, waiting, on, cont, ready>>
        /\ left[t] > 0 /\ left' = [left EXCEPT ![t] = @ - 1]
    BY <1>1 DEF L!CountDown, L!E!At, L!E!Goto, L!E!Call
  <2>2. left' \in [Tasks -> 0 .. MaxCalls] BY <1>0, <2>1
  <2>l. label = "set" <=> counter = 1 OBVIOUS
  <2> HIDE DEF label
  <2>3. IInv' /\ UNCHANGED Abstract!vars BY <2>0, <2>1, <2>2, MoveStep
  <2>4. Counting' /\ Opens BY <1>0, <2>1, <2>l DEF Counting, Opens
  <2>5. Kinds' /\ Fulfilled' BY DEF Kinds, Fulfilled, OneValue, P!OneValue
  <2> QED BY <2>3, <2>4, <2>5
<1>2. CASE L!SignalZero(s, t)
  <2>1. /\ pc[t] = "set" /\ Store(s, t) /\ left' = left /\ counter' = counter
    BY <1>2 DEF L!SignalZero, L!E!At, L!E!Store, L!E!Goto, Store, Goto
  <2>2. IInv' BY <1>0, <2>1, StoreIInv
  <2>3. [Abstract!Next]_(Abstract!vars) BY <2>1, StoreSimulation DEF Abstract!Next
  <2>4. Counting' /\ Opens BY <1>0, <2>1 DEF Counting, Opens, Store, Goto
  <2>5. Kinds' /\ Fulfilled' BY DEF Kinds, Fulfilled, OneValue, P!OneValue
  <2> QED BY <2>2, <2>3, <2>4, <2>5
<1> QED BY <1>1, <1>2

\* The steps of a promise keep the invariant.
LEMMA PromisePart ==
  ASSUME OneShotInv, NEW s \in Threads, NEW t \in Tasks,
         kind = "promise", kind' = kind, counter' = counter,
         P!Fulfill(s, t) \/ P!SignalFulfilled(s, t) \/ P!Read(s, t)
  PROVE  OneShotInv' /\ Opens /\ [Abstract!Next]_(Abstract!vars)
<1> USE DEF OneShotInv
<1>0. pc \in [Tasks -> Labels] /\ left \in [Tasks -> 0 .. MaxCalls] BY DEF IInv, TypeOK
<1>1. CASE P!Fulfill(s, t)
  <2>1. /\ pc[t] = "out" /\ pc' = [pc EXCEPT ![t] = "set"]
        /\ value = Unset /\ value' \in Values /\ got' = got
        /\ UNCHANGED <<signaled, waiting, on, cont, ready>>
        /\ left[t] > 0 /\ left' = [left EXCEPT ![t] = @ - 1]
    BY <1>1 DEF P!Fulfill, P!E!At, P!E!Goto, P!E!Call
  <2>2. left' \in [Tasks -> 0 .. MaxCalls] BY <1>0, <2>1
  <2>3. IInv' /\ UNCHANGED Abstract!vars BY <2>1, <2>2, MoveStep
  <2>4. Counting' /\ Opens BY <1>0, <2>1 DEF Counting, Opens
  <2>5. \A u \in Tasks : got[u] = {} BY <2>1 DEF Fulfilled, OneValue, P!OneValue
  <2>6. Kinds' /\ Fulfilled' BY <2>1, <2>5 DEF Kinds, Fulfilled, OneValue, P!OneValue
  <2> QED BY <2>3, <2>4, <2>6
<1>2. CASE P!SignalFulfilled(s, t)
  <2>1. /\ pc[t] = "set" /\ Store(s, t) /\ left' = left /\ UNCHANGED <<value, got>>
    BY <1>2 DEF P!SignalFulfilled, P!E!At, P!E!Store, P!E!Goto, Store, Goto
  <2>2. IInv' BY <1>0, <2>1, StoreIInv
  <2>3. [Abstract!Next]_(Abstract!vars) BY <2>1, StoreSimulation DEF Abstract!Next
  <2>4. Counting' /\ Opens BY <1>0, <2>1 DEF Counting, Opens, Store, Goto
  <2>5. Kinds' /\ Fulfilled'
    BY <1>0, <2>1 DEF Kinds, Fulfilled, OneValue, P!OneValue, Store, Goto
  <2> QED BY <2>2, <2>3, <2>4, <2>5
<1>3. CASE P!Read(s, t)
  <2>1. /\ pc[t] = "read" /\ pc' = [pc EXCEPT ![t] = "out"]
        /\ got' = [got EXCEPT ![t] = @ \cup {value}] /\ value' = value /\ left' = left
        /\ UNCHANGED <<signaled, waiting, on, cont, ready>>
    BY <1>3 DEF P!Read, P!E!At, P!E!Goto
  <2>2. IInv' /\ UNCHANGED Abstract!vars BY <1>0, <2>1, MoveStep
  <2>3. Counting' /\ Opens BY <1>0, <2>1 DEF Counting, Opens
  <2>4. value \in Values BY <2>1 DEF Fulfilled
  <2>5. got' \in [Tasks -> SUBSET Values] BY <2>1, <2>4 DEF Fulfilled
  <2>6. OneValue' BY <2>1, <2>4 DEF Fulfilled, OneValue, P!OneValue
  <2>7. Kinds' /\ Fulfilled' BY <1>0, <2>1, <2>5, <2>6 DEF Kinds, Fulfilled
  <2> QED BY <2>2, <2>3, <2>7
<1> QED BY <1>1, <1>2, <1>3

\* The invariant is inductive, and with it every step opens a wait() only when
\* it may and is a step of EventSpec, or one it does not see.
LEMMA OneShotNext ==
  OneShotInv /\ [MCNext]_oneShot =>
    OneShotInv' /\ [Opens]_oneShot /\ [Abstract!Next]_(Abstract!vars)
<1> SUFFICES ASSUME OneShotInv, [MCNext]_oneShot
             PROVE  OneShotInv' /\ Opens /\ [Abstract!Next]_(Abstract!vars)
  OBVIOUS
<1>1. CASE UNCHANGED oneShot
  <2>1. IInv'
    BY <1>1 DEF oneShot, vars, OneShotInv, IInv, TypeOK, Exclusive, Parked, PopsSignaled,
                NoLostWakeup, Draining, Popping
  <2>2. Kinds' /\ Counting' /\ Fulfilled' /\ Opens
    BY <1>1 DEF oneShot, vars, OneShotInv, Kinds, Counting, Fulfilled, OneValue, P!OneValue, Opens
  <2>3. UNCHANGED Abstract!vars BY <1>1 DEF oneShot, vars, Abstract!vars, inside
  <2> QED BY <2>1, <2>2, <2>3 DEF OneShotInv
<1>2. CASE MCNext
  <2>1. CASE UNCHANGED oneShot BY <1>1, <2>1
  <2>2. CASE kind = "event" /\ ~UNCHANGED oneShot
    <3>1. PICK s \in Threads : ThreadStep(s)
      BY <1>2, <2>2 DEF MCNext, Next, Terminated, oneShot
    <3> QED BY <1>2, <2>2, <3>1, EventPart DEF MCNext
  <2>3. CASE kind = "latch" /\ ~UNCHANGED oneShot
    <3>1. PICK s \in Threads : L!ThreadStep(s)
      BY <1>2, <2>3
      DEF MCNext, L!Next, L!Terminated, L!vars, L!isZero, oneShot, vars
    <3>2. CASE L!WaitStep(s)
      BY <1>2, <2>3, <3>2, EventPart DEF MCNext, L!WaitStep
    <3>3. ASSUME NEW t \in Tasks, L!CountDown(s, t) \/ L!SignalZero(s, t)
          PROVE  OneShotInv' /\ Opens /\ [Abstract!Next]_(Abstract!vars)
      BY <1>2, <2>3, <3>3, LatchPart DEF MCNext
    <3> QED BY <3>1, <3>2, <3>3 DEF L!ThreadStep
  <2>4. CASE kind = "promise" /\ ~UNCHANGED oneShot
    <3>1. PICK s \in Threads : P!ThreadStep(s)
      BY <1>2, <2>4
      DEF MCNext, P!Next, P!Terminated, P!vars, P!fulfilled, oneShot, vars
    <3>2. CASE P!WaitStep(s)
      BY <1>2, <2>4, <3>2, EventPart DEF MCNext, P!WaitStep
    <3>3. ASSUME NEW t \in Tasks, P!Fulfill(s, t) \/ P!SignalFulfilled(s, t) \/ P!Read(s, t)
          PROVE  OneShotInv' /\ Opens /\ [Abstract!Next]_(Abstract!vars)
      BY <1>2, <2>4, <3>3, PromisePart DEF MCNext
    <3> QED BY <3>1, <3>2, <3>3 DEF P!ThreadStep
  <2> QED BY <1>2, <2>1, <2>2, <2>3, <2>4 DEF OneShotInv, Kinds
<1> QED BY <1>1, <1>2

-----------------------------------------------------------------------------
\* Whoever wraps it, the event of an event, a latch or a promise loses no
\* wake-up: once it is signaled and nobody drains its stack, every task left
\* there has a continuation that will still pop one.
THEOREM WrappedWakeupsNotLost == MCSpec => [](TypeOK /\ NoLostWakeup)
<1>1. OneShotInv => TypeOK /\ NoLostWakeup BY DEF OneShotInv, IInv
<1> QED BY <1>1, OneShotInit, OneShotNext, PTL DEF MCSpec

\* Whoever wraps it, the event implements the safety part of EventSpec.
THEOREM WrappedSafetyImplemented ==
  MCSpec => Abstract!Init /\ [][Abstract!Next]_(Abstract!vars)
BY OneShotInit, OneShotNext, PTL DEF MCSpec

\* A wait() on a latch that had to block returns only when every countDown
\* has happened, whoever overtakes the last of them before it signals.
THEOREM LatchOpensAtZero == MCSpec => OpensAtZero
<1>1. [Opens]_oneShot =>
        [\A t \in Tasks : pc[t] = "parked" /\ pc'[t] # "parked" => counter = 0]_(L!vars)
  BY DEF Opens, oneShot, vars, L!vars, L!isZero
<1> QED BY <1>1, OneShotInit, OneShotNext, PTL DEF MCSpec, OpensAtZero, L!OpensAtZero

\* Every wait() on a promise returns the one value it was fulfilled with.
THEOREM PromiseOneValue == MCSpec => []OneValue
<1>1. OneShotInv => OneValue BY DEF OneShotInv, Fulfilled
<1> QED BY <1>1, OneShotInit, OneShotNext, PTL DEF MCSpec
=============================================================================
