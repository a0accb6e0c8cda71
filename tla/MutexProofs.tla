---------------------------- MODULE MutexProofs ----------------------------
(***************************************************************************)
(* Mutual exclusion of Mutex; then where its tasks are, what becomes of an  *)
(* offered ownership, and that the mutex implements LockSpec. The numbers   *)
(* of tasks, of scheduler threads and of calls, and the modulus of the      *)
(* hand-off's version, are arbitrary: the version protects the stack of     *)
(* waiters, not the ownership token, and what depends on it is proved as    *)
(* long as no hand-off that somebody is about to compare comes back.        *)
(***************************************************************************)
EXTENDS Mutex, FiniteSetTheorems, TLAPS

USE ConstantsAssumption DEF ContType

\* A hand-off that is about to be compared, or stored, names a thread: the
\* compare-and-swap that follows takes ownership on offer and never makes any.
ReadOffers ==
  /\ \A t \in Tasks : pc[t] \in {"tryCas", "store", "peek", "cas"}
                        => reg[t].thread # NotASchedulerThread
  /\ \A s \in Threads : cont[s].pc \in {"peek", "cas"}
                        => cont[s].old.thread # NotASchedulerThread

\* A continuation that has not pushed its task yet carries one.
CarriesTask == \A s \in Threads : cont[s].pc = "push" => cont[s].task \in Tasks

IInv == TypeOK /\ CarriesTask /\ ReadOffers /\ OneToken

\* The hand-off that a compare-and-swap leaves behind, and the initial one:
\* it offers nothing.
LEMMA EmptyType ==
  ASSUME NEW v \in Nat
  PROVE  Empty(v) \in HandOff /\ Empty(v).thread = NotASchedulerThread
  BY DEF Empty, HandOff

\* A task that goes to a label stays a task with a label.
LEMMA GotoType ==
  ASSUME pc \in [Tasks -> Labels], NEW t \in Tasks, NEW label \in Labels, Goto(t, label)
  PROVE  pc' \in [Tasks -> Labels]
  BY DEF Goto

\* The continuation of a thread is replaced by one of the right type, or only
\* goes to another step.
LEMMA ContTypes ==
  ASSUME cont \in [Threads -> ContType], NEW s \in Threads
  PROVE  /\ ContEnd(s) => cont' \in [Threads -> ContType] /\ cont'[s].pc = "none"
         /\ \A l \in {"load", "cas", "pop", "null"} :
              ContGoto(s, l) => /\ cont' \in [Threads -> ContType]
                                /\ cont'[s] = [cont[s] EXCEPT !.pc = l]
         /\ ContEnd(s) \/ (\E l \in {"load", "cas", "pop", "null"} : ContGoto(s, l))
              => \A r \in Threads : r # s => cont'[r] = cont[r]
<1>1. NoCont \in ContType /\ NoCont.pc = "none"
  BY EmptyType DEF NoCont
<1>2. ASSUME NEW l \in {"load", "cas", "pop", "null"}
      PROVE  [cont[s] EXCEPT !.pc = l] \in ContType
  OBVIOUS
<1> QED BY <1>1, <1>2 DEF ContEnd, ContGoto

\* A task that takes the offered token leaves one token; a task that leaves
\* empty-handed disturbs none.
LEMMA TokenTaken ==
  ASSUME TypeOK, OneToken, NEW t \in Tasks, NEW l \in {"tryAdd", "pop"},
         Offered, handOff'.thread = NotASchedulerThread,
         pc' = [pc EXCEPT ![t] = l], UNCHANGED <<count, cont>>
  PROVE  OneToken'
<1>1. pc \in [Tasks -> Labels]
  BY DEF TypeOK
<1>2. ~Offered' /\ TaskHolds(t)' /\ \A r \in Tasks : r # t => TaskHolds(r)' = TaskHolds(r)
  BY <1>1 DEF Offered, TaskHolds
<1>3. \A r \in Threads : ContHolds(r)' = ContHolds(r)
  BY DEF ContHolds
<1>4. count # 0 /\ (\A r \in Tasks : ~TaskHolds(r)) /\ (\A r \in Threads : ~ContHolds(r))
  BY DEF OneToken
<1> QED BY <1>2, <1>3, <1>4 DEF OneToken

LEMMA TokenUntouched ==
  ASSUME TypeOK, OneToken, NEW t \in Tasks,
         pc' = [pc EXCEPT ![t] = "out"], UNCHANGED <<count, handOff, cont>>
  PROVE  OneToken'
<1>1. pc \in [Tasks -> Labels]
  BY DEF TypeOK
<1>2. ~TaskHolds(t)' /\ \A r \in Tasks : r # t => TaskHolds(r)' = TaskHolds(r)
  BY <1>1 DEF TaskHolds
<1>3. Offered' = Offered /\ \A r \in Threads : ContHolds(r)' = ContHolds(r)
  BY DEF ContHolds, Offered
<1> QED BY <1>2, <1>3 DEF OneToken

\* The initial state satisfies the inductive invariant.
LEMMA InitIInv == Init => IInv
<1> SUFFICES ASSUME Init PROVE IInv
  OBVIOUS
<1>1. Empty(0) \in HandOff /\ Empty(0).thread = NotASchedulerThread
  BY EmptyType
<1>2. TypeOK
  BY <1>1 DEF Init, TypeOK, NoCont, Labels
<1>3. CarriesTask /\ ReadOffers
  BY DEF Init, CarriesTask, ReadOffers, NoCont
<1>4. OneToken
  BY <1>1 DEF Init, OneToken, NoCont, TaskHolds, ContHolds, Offered
<1> QED BY <1>2, <1>3, <1>4 DEF IInv

\* Every step of a task keeps the inductive invariant.
LEMMA TaskStepIInv ==
  ASSUME NEW s \in Threads, NEW t \in Tasks, IInv, TaskStep(s, t)
  PROVE  IInv'
<1> USE DEF IInv, TypeOK, At, Goto, Call, mutex
<1>e. \A v \in Nat : Empty(v) \in HandOff /\ Empty(v).thread = NotASchedulerThread
  BY EmptyType
<1>v. \A h \in HandOff : h.version + 1 \in Nat
  BY DEF HandOff
<1>1. CASE LockAdd(s, t)
  <2>1. TypeOK' BY <1>1 DEF LockAdd, Labels
  <2>2. CarriesTask' /\ ReadOffers' BY <1>1 DEF LockAdd, CarriesTask, ReadOffers
  <2>3. OneToken' BY <1>1 DEF LockAdd, OneToken, TaskHolds, ContHolds, Offered
  <2> QED BY <2>1, <2>2, <2>3
<1>2. CASE LockYield(s, t)
  <2>1. TypeOK' BY <1>2, <1>e DEF LockYield, Labels, NoCont
  <2>2. CarriesTask' /\ ReadOffers'
    BY <1>2 DEF LockYield, CarriesTask, ReadOffers, NoCont
  <2>3. OneToken'
    BY <1>2 DEF LockYield, OneToken, TaskHolds, ContHolds, Offered, NoCont
  <2> QED BY <2>1, <2>2, <2>3
<1>3. CASE TryCount(s, t)
  <2>0. pc' \in [Tasks -> Labels]
    <3> "cs" \in Labels /\ "tryLoad" \in Labels BY DEF Labels
    <3> HIDE DEF Goto, At, Call
    <3> QED BY <1>3, GotoType DEF TryCount
  <2>1. TypeOK' BY <1>3, <2>0 DEF TryCount
  <2>2. CarriesTask' /\ ReadOffers' BY <1>3 DEF TryCount, CarriesTask, ReadOffers
  <2>3. OneToken' BY <1>3 DEF TryCount, OneToken, TaskHolds, ContHolds, Offered
  <2> QED BY <2>1, <2>2, <2>3
<1>4. CASE TryLoad(s, t)
  <2>0. pc' \in [Tasks -> Labels]
    <3> "out" \in Labels /\ "tryCas" \in Labels BY DEF Labels
    <3> HIDE DEF Goto, At
    <3> QED BY <1>4, GotoType DEF TryLoad
  <2>1. TypeOK' BY <1>4, <2>0 DEF TryLoad
  <2>2. CarriesTask' /\ ReadOffers' BY <1>4 DEF TryLoad, CarriesTask, ReadOffers
  <2>3. OneToken' BY <1>4 DEF TryLoad, OneToken, TaskHolds, ContHolds, Offered
  <2> QED BY <2>1, <2>2, <2>3
<1>5. CASE TryCas(s, t)
  <2>1. TypeOK' BY <1>5, <1>e, <1>v DEF TryCas, Labels
  <2>2. CarriesTask' /\ ReadOffers'
    BY <1>5, <1>e DEF TryCas, CarriesTask, ReadOffers
  <2>3. CASE handOff = reg[t]
    <3>1. Offered /\ handOff'.thread = NotASchedulerThread
      BY <1>5, <1>e, <1>v, <2>3 DEF TryCas, ReadOffers, Offered
    <3>2. pc' = [pc EXCEPT ![t] = "tryAdd"] /\ UNCHANGED <<count, cont>>
      BY <1>5, <2>3 DEF TryCas
    <3>3. OneToken'
      <4> HIDE DEF TypeOK, At, Goto
      <4> QED BY <3>1, <3>2, TokenTaken
    <3> QED BY <2>1, <2>2, <3>3
  <2>4. CASE handOff # reg[t]
    <3>1. pc' = [pc EXCEPT ![t] = "out"] /\ UNCHANGED <<count, handOff, cont>>
      BY <1>5, <2>4 DEF TryCas
    <3>2. OneToken'
      <4> HIDE DEF TypeOK, At, Goto
      <4> QED BY <3>1, TokenUntouched
    <3> QED BY <2>1, <2>2, <3>2
  <2> QED BY <2>3, <2>4
<1>6. CASE TryAdd(s, t)
  <2>1. TypeOK' BY <1>6 DEF TryAdd, Labels
  <2>2. CarriesTask' /\ ReadOffers' BY <1>6 DEF TryAdd, CarriesTask, ReadOffers
  <2>3. OneToken' BY <1>6 DEF TryAdd, OneToken, TaskHolds, ContHolds, Offered
  <2> QED BY <2>1, <2>2, <2>3
<1>7. CASE UnlockSub(s, t)
  <2>1. count > 0 BY <1>7 DEF UnlockSub, OneToken, TaskHolds
  <2>2. TypeOK' BY <1>7, <2>1 DEF UnlockSub, Labels
  <2>3. CarriesTask' /\ ReadOffers' BY <1>7 DEF UnlockSub, CarriesTask, ReadOffers
  <2>4. OneToken'
    BY <1>7, <2>1 DEF UnlockSub, OneToken, TaskHolds, ContHolds, Offered
  <2> QED BY <2>2, <2>3, <2>4
<1>8. CASE UnlockPop(s, t)
  <2>1. CASE waiting = <<>>
    <3>0. pc' \in [Tasks -> Labels]
      <4> "load" \in Labels BY DEF Labels
      <4> HIDE DEF Goto, At
      <4> QED BY <1>8, <2>1, GotoType DEF UnlockPop
    <3>1. TypeOK' BY <1>8, <2>1, <3>0 DEF UnlockPop
    <3>2. CarriesTask' /\ ReadOffers'
      BY <1>8, <2>1 DEF UnlockPop, CarriesTask, ReadOffers
    <3>3. OneToken'
      BY <1>8, <2>1 DEF UnlockPop, OneToken, TaskHolds, ContHolds, Offered
    <3> QED BY <3>1, <3>2, <3>3
  <2>2. CASE waiting # <<>>
    <3> DEFINE next == Head(waiting)
    <3>0. next \in Tasks /\ Tail(waiting) \in Seq(Tasks)
      BY <2>2
    <3>1. /\ pc' = [pc EXCEPT ![t] = "out", ![next] = "cs"]
          /\ waiting' = Tail(waiting) /\ ready' = ready \cup {next}
          /\ UNCHANGED <<count, handOff, reg, left, on, cont, blocks>>
          /\ pc[t] = "pop"
      BY <1>8, <2>2 DEF UnlockPop
    <3> HIDE DEF next
    <3>2. TypeOK' BY <3>0, <3>1 DEF Labels
    <3>3. CarriesTask' /\ ReadOffers' BY <3>0, <3>1 DEF CarriesTask, ReadOffers
    <3>4. OneToken'
      BY <3>0, <3>1 DEF OneToken, TaskHolds, ContHolds, Offered
    <3> QED BY <3>2, <3>3, <3>4
  <2> QED BY <2>1, <2>2
<1>9. CASE UnlockLoad(s, t)
  <2>1. [thread |-> Thread0, version |-> (handOff.version + 1) % VersionMod] \in HandOff
    BY ThreadAssumption DEF HandOff
  <2>2. TypeOK' BY <1>9, <2>1 DEF UnlockLoad, Labels
  <2>3. CarriesTask' /\ ReadOffers'
    BY <1>9, ThreadAssumption DEF UnlockLoad, CarriesTask, ReadOffers
  <2>4. OneToken' BY <1>9 DEF UnlockLoad, OneToken, TaskHolds, ContHolds, Offered
  <2> QED BY <2>2, <2>3, <2>4
<1>10. CASE UnlockStore(s, t)
  <2>1. TypeOK' BY <1>10 DEF UnlockStore, Labels
  <2>2. CarriesTask' /\ ReadOffers'
    BY <1>10 DEF UnlockStore, CarriesTask, ReadOffers
  <2>3. OneToken' BY <1>10 DEF UnlockStore, OneToken, TaskHolds, ContHolds, Offered
  <2> QED BY <2>1, <2>2, <2>3
<1>11. CASE UnlockPeek(s, t)
  <2>0. pc' \in [Tasks -> Labels]
    <3> "out" \in Labels /\ "cas" \in Labels BY DEF Labels
    <3> HIDE DEF Goto, At
    <3> QED BY <1>11, GotoType DEF UnlockPeek
  <2>r. reg' \in [Tasks -> HandOff]
    <3>1. Empty(0) \in HandOff BY <1>e
    <3>2. reg' = reg \/ reg' = [reg EXCEPT ![t] = Empty(0)] BY <1>11 DEF UnlockPeek
    <3> QED BY <3>1, <3>2
  <2>1. TypeOK'
    <3> UNCHANGED <<count, handOff, waiting, left, on, cont, ready, blocks>>
      BY <1>11 DEF UnlockPeek
    <3> QED BY <2>0, <2>r
  <2>2. CarriesTask' /\ ReadOffers'
    BY <1>11 DEF UnlockPeek, CarriesTask, ReadOffers
  <2>3. OneToken' BY <1>11 DEF UnlockPeek, OneToken, TaskHolds, ContHolds, Offered
  <2> QED BY <2>1, <2>2, <2>3
<1>12. CASE UnlockCas(s, t)
  <2>1. TypeOK' BY <1>12, <1>e, <1>v DEF UnlockCas, Labels
  <2>2. CarriesTask' /\ ReadOffers'
    BY <1>12, <1>e DEF UnlockCas, CarriesTask, ReadOffers
  <2>3. CASE handOff = reg[t]
    <3>1. Offered /\ handOff'.thread = NotASchedulerThread
      BY <1>12, <1>e, <1>v, <2>3 DEF UnlockCas, ReadOffers, Offered
    <3>2. pc' = [pc EXCEPT ![t] = "pop"] /\ UNCHANGED <<count, cont>>
      BY <1>12, <2>3 DEF UnlockCas
    <3>3. OneToken'
      <4> HIDE DEF TypeOK, At, Goto
      <4> QED BY <3>1, <3>2, TokenTaken
    <3> QED BY <2>1, <2>2, <3>3
  <2>4. CASE handOff # reg[t]
    <3>1. pc' = [pc EXCEPT ![t] = "out"] /\ UNCHANGED <<count, handOff, cont>>
      BY <1>12, <2>4 DEF UnlockCas
    <3>2. OneToken'
      <4> HIDE DEF TypeOK, At, Goto
      <4> QED BY <3>1, TokenUntouched
    <3> QED BY <2>1, <2>2, <3>2
  <2> QED BY <2>3, <2>4
<1>13. CASE Finish(s, t)
  <2>1. TypeOK' BY <1>13 DEF Finish, Labels
  <2>2. CarriesTask' /\ ReadOffers' BY <1>13 DEF Finish, CarriesTask, ReadOffers
  <2>3. OneToken' BY <1>13 DEF Finish, OneToken, TaskHolds, ContHolds, Offered
  <2> QED BY <2>1, <2>2, <2>3
<1> QED
  BY <1>1, <1>2, <1>3, <1>4, <1>5, <1>6, <1>7, <1>8, <1>9, <1>10, <1>11, <1>12, <1>13
  DEF TaskStep

\* Every step of a continuation keeps the inductive invariant.
LEMMA ContStepIInv ==
  ASSUME NEW s \in Threads, IInv, ContStep(s)
  PROVE  IInv'
<1> USE DEF IInv, TypeOK, ContAt, Goto, mutex
<1>e. \A v \in Nat : Empty(v) \in HandOff /\ Empty(v).thread = NotASchedulerThread
  BY EmptyType
<1>v. \A h \in HandOff : h.version + 1 \in Nat
  BY DEF HandOff
<1>t. cont \in [Threads -> ContType]
  OBVIOUS
\* A step that ends the continuation, or sends it to a step that neither holds
\* the token nor compares, leaves what the invariant says of continuations.
<1>q. ASSUME ContEnd(s) \/ ContGoto(s, "load")
      PROVE  /\ cont' \in [Threads -> ContType]
             /\ cont'[s].pc \in {"none", "load"}
             /\ \A r \in Threads : r # s => cont'[r] = cont[r]
  BY <1>t, <1>q, ContTypes
<1>1. CASE ContPush(s)
  <2>1. cont[s].task \in Tasks BY <1>1 DEF ContPush, CarriesTask
  <2>2. <<cont[s].task>> \o waiting \in Seq(Tasks) BY <2>1
  <2>3. ContGoto(s, "load") BY <1>1 DEF ContPush
  <2>4. TypeOK' BY <1>1, <1>q, <2>2, <2>3 DEF ContPush
  <2>5. CarriesTask' /\ ReadOffers'
    BY <1>1, <1>q, <2>3 DEF ContPush, CarriesTask, ReadOffers
  <2>6. OneToken'
    BY <1>1, <1>q, <2>3 DEF ContPush, OneToken, TaskHolds, ContHolds, Offered
  <2> QED BY <2>4, <2>5, <2>6
<1>2. CASE ContLoad(s)
  <2>1. CASE ContEnd(s)
    <3>1. TypeOK' BY <1>2, <1>q, <2>1 DEF ContLoad
    <3>2. CarriesTask' /\ ReadOffers'
      BY <1>2, <1>q, <2>1 DEF ContLoad, CarriesTask, ReadOffers
    <3>3. OneToken'
      BY <1>2, <1>q, <2>1 DEF ContLoad, OneToken, TaskHolds, ContHolds, Offered
    <3> QED BY <3>1, <3>2, <3>3
  <2>2. CASE /\ Offered
             /\ cont' = [cont EXCEPT ![s] =
                          [pc |-> "peek", task |-> cont[s].task, old |-> handOff]]
    <3>1. TypeOK' BY <1>2, <2>2 DEF ContLoad
    <3>2. CarriesTask' /\ ReadOffers'
      BY <1>2, <2>2 DEF ContLoad, CarriesTask, ReadOffers, Offered
    <3>3. OneToken'
      BY <1>2, <2>2 DEF ContLoad, OneToken, TaskHolds, ContHolds, Offered
    <3> QED BY <3>1, <3>2, <3>3
  <2> QED BY <1>2, <2>1, <2>2 DEF ContLoad, Offered
<1>3. CASE ContPeek(s)
  <2>1. CASE ContEnd(s)
    <3>1. TypeOK' BY <1>3, <1>q, <2>1 DEF ContPeek
    <3>2. CarriesTask' /\ ReadOffers'
      BY <1>3, <1>q, <2>1 DEF ContPeek, CarriesTask, ReadOffers
    <3>3. OneToken'
      BY <1>3, <1>q, <2>1 DEF ContPeek, OneToken, TaskHolds, ContHolds, Offered
    <3> QED BY <3>1, <3>2, <3>3
  <2>2. CASE ContGoto(s, "cas")
    <3>1. /\ cont' \in [Threads -> ContType]
          /\ cont'[s].pc = "cas" /\ cont'[s].old = cont[s].old
          /\ \A r \in Threads : r # s => cont'[r] = cont[r]
      BY <1>t, <2>2, ContTypes
    <3>2. TypeOK' BY <1>3, <3>1 DEF ContPeek
    <3>3. CarriesTask' /\ ReadOffers'
      BY <1>3, <3>1 DEF ContPeek, CarriesTask, ReadOffers
    <3>4. OneToken'
      BY <1>3, <3>1 DEF ContPeek, OneToken, TaskHolds, ContHolds, Offered
    <3> QED BY <3>2, <3>3, <3>4
  <2> QED BY <1>3, <2>1, <2>2 DEF ContPeek
<1>4. CASE ContCas(s)
  <2>1. CASE handOff' = handOff /\ ContEnd(s)
    <3>1. TypeOK' BY <1>4, <1>q, <2>1 DEF ContCas
    <3>2. CarriesTask' /\ ReadOffers'
      BY <1>4, <1>q, <2>1 DEF ContCas, CarriesTask, ReadOffers
    <3>3. OneToken'
      BY <1>4, <1>q, <2>1 DEF ContCas, OneToken, TaskHolds, ContHolds, Offered
    <3> QED BY <3>1, <3>2, <3>3
  <2>2. CASE /\ handOff = cont[s].old
             /\ handOff' = Empty(cont[s].old.version + 1) /\ ContGoto(s, "pop")
    <3>1. /\ cont' \in [Threads -> ContType]
          /\ cont'[s].pc = "pop"
          /\ \A r \in Threads : r # s => cont'[r] = cont[r]
      BY <1>t, <2>2, ContTypes
    <3>2. handOff' \in HandOff /\ handOff'.thread = NotASchedulerThread /\ Offered
      BY <1>4, <1>e, <1>v, <2>2 DEF ContCas, ReadOffers, Offered
    <3>3. TypeOK' BY <1>4, <3>1, <3>2 DEF ContCas
    <3>4. CarriesTask' /\ ReadOffers'
      BY <1>4, <3>1 DEF ContCas, CarriesTask, ReadOffers
    <3>5. OneToken'
      BY <1>4, <3>1, <3>2 DEF ContCas, OneToken, TaskHolds, ContHolds, Offered
    <3> QED BY <3>3, <3>4, <3>5
  <2> QED BY <1>4, <2>1, <2>2 DEF ContCas
<1>5. CASE ContPop(s)
  <2>1. CASE ContGoto(s, "null") /\ UNCHANGED <<waiting, pc, on>>
    <3>1. /\ cont' \in [Threads -> ContType]
          /\ cont'[s].pc = "null"
          /\ \A r \in Threads : r # s => cont'[r] = cont[r]
      BY <1>t, <2>1, ContTypes
    <3>2. TypeOK' BY <1>5, <2>1, <3>1 DEF ContPop
    <3>3. CarriesTask' /\ ReadOffers'
      BY <1>5, <2>1, <3>1 DEF ContPop, CarriesTask, ReadOffers
    <3>4. OneToken'
      BY <1>5, <2>1, <3>1 DEF ContPop, OneToken, TaskHolds, ContHolds, Offered
    <3> QED BY <3>2, <3>3, <3>4
  <2>2. CASE waiting # <<>> /\ ContEnd(s)
    <3> DEFINE next == Head(waiting)
    <3>0. next \in Tasks /\ Tail(waiting) \in Seq(Tasks)
      BY <2>2
    <3>1. /\ pc' = [pc EXCEPT ![next] = "cs"]
          /\ waiting' = Tail(waiting) /\ on' = [on EXCEPT ![s] = next]
          /\ UNCHANGED <<count, handOff, reg, left, ready, blocks>>
          /\ cont[s].pc = "pop"
      BY <1>5, <2>2 DEF ContPop
    <3> HIDE DEF next
    <3>2. TypeOK' BY <1>q, <2>2, <3>0, <3>1 DEF Labels
    <3>3. CarriesTask' /\ ReadOffers'
      BY <1>q, <2>2, <3>0, <3>1 DEF CarriesTask, ReadOffers
    <3>4. OneToken'
      BY <1>q, <2>2, <3>0, <3>1 DEF OneToken, TaskHolds, ContHolds, Offered
    <3> QED BY <3>2, <3>3, <3>4
  <2> QED BY <1>5, <2>1, <2>2 DEF ContPop
<1> QED BY <1>1, <1>2, <1>3, <1>4, <1>5 DEF ContStep

\* The scheduler's own steps touch neither the mutex nor a task's progress.
LEMMA SchedulerIInv ==
  ASSUME NEW s \in Threads, IInv, Dispatch(s) \/ Block(s)
  PROVE  IInv'
<1> USE DEF IInv, mutex
<1>1. CASE Dispatch(s)
  <2>1. PICK t \in Tasks : on' = [on EXCEPT ![s] = t] /\ ready' = ready \ {t}
    BY <1>1 DEF Dispatch, TypeOK
  <2> QED BY <1>1, <2>1 DEF Dispatch, TypeOK, CarriesTask, ReadOffers, OneToken,
                            TaskHolds, ContHolds, Offered
<1>2. CASE Block(s)
  <2>1. on[s] \in Tasks BY <1>2 DEF Block, TypeOK
  <2> QED BY <1>2, <2>1 DEF Block, TypeOK, CarriesTask, ReadOffers, OneToken,
                            TaskHolds, ContHolds, Offered
<1> QED BY <1>1, <1>2

\* The invariant is inductive.
LEMMA NextIInv == IInv /\ [Next]_vars => IInv'
<1> SUFFICES ASSUME IInv, [Next]_vars PROVE IInv'
  OBVIOUS
<1>1. CASE Next
  <2>1. CASE \E s \in Threads : ThreadStep(s) \/ Block(s)
    BY <2>1, TaskStepIInv, ContStepIInv, SchedulerIInv DEF ThreadStep
  <2>2. CASE UNCHANGED vars
    BY <2>2 DEF vars, IInv, TypeOK, CarriesTask, ReadOffers, OneToken,
                TaskHolds, ContHolds, Offered
  <2> QED BY <1>1, <2>1, <2>2 DEF Next, Terminated
<1>2. CASE UNCHANGED vars
  BY <1>2 DEF vars, IInv, TypeOK, CarriesTask, ReadOffers, OneToken,
              TaskHolds, ContHolds, Offered
<1> QED BY <1>1, <1>2

\* The variables of the mutex and of its tasks and threads keep their types: in
\* particular count is never negative, although unlock subtracts unconditionally.
THEOREM TypeCorrect == Spec => []TypeOK
<1>1. IInv => TypeOK BY DEF IInv
<1> QED BY <1>1, InitIInv, NextIInv, PTL DEF Spec

\* Ownership of the mutex is one token: it is never duplicated, and a caller
\* that finds count = 0 makes a new one only when there is none.
THEOREM TokenUnique == Spec => []OneToken
<1>1. IInv => OneToken BY DEF IInv
<1> QED BY <1>1, InitIInv, NextIInv, PTL DEF Spec

\* No two tasks hold the mutex at once.
THEOREM MutexExcludes == Spec => []MutualExclusion
<1>1. OneToken => MutualExclusion
  BY DEF OneToken, MutualExclusion, TaskHolds
<1> QED BY <1>1, TokenUnique, PTL

-----------------------------------------------------------------------------
(* The stack of waiters and the hand-off.                                   *)

\* A thread that executes a task runs no continuation.
Exclusive == \A s \in Threads : on[s] # NoTask => cont[s].pc = "none"

Pushing(s, t) == cont[s].pc = "push" /\ cont[s].task = t

\* A blocked task is in the stack, or carried by a continuation that has still
\* to push it, once.
Parked ==
  /\ \A i \in DOMAIN waiting : pc[waiting[i]] = "parked"
  /\ \A i, j \in DOMAIN waiting : waiting[i] = waiting[j] => i = j
  /\ \A s \in Threads, t \in Tasks : Pushing(s, t) =>
       pc[t] = "parked" /\ \A i \in DOMAIN waiting : waiting[i] # t
  /\ \A s, r \in Threads, t \in Tasks : Pushing(s, t) /\ Pushing(r, t) => s = r
  /\ \A t \in Tasks : pc[t] = "parked" =>
       \/ \E i \in DOMAIN waiting : waiting[i] = t
       \/ \E s \in Threads : Pushing(s, t)

Switched(t) == t \notin ready /\ \A s \in Threads : on[s] # t

\* Any other task that has not ended is executed, or ready, once.
Runnable ==
  /\ \A t \in Tasks : pc[t] \in {"parked", "done"} <=> Switched(t)
  /\ \A t \in ready, s \in Threads : on[s] # t
  /\ \A t \in Tasks, s, r \in Threads : on[s] = t /\ on[r] = t => s = r

Placed == TypeOK /\ Exclusive /\ Parked /\ Runnable

\* The head of a stack of blocked tasks, and what is left under it.
LEMMA PopWaiting ==
  ASSUME Placed, waiting # <<>>
  PROVE  /\ Head(waiting) \in Tasks /\ pc[Head(waiting)] = "parked"
         /\ Head(waiting) = waiting[1] /\ 1 \in DOMAIN waiting
         /\ Tail(waiting) \in Seq(Tasks)
         /\ Len(waiting) \in Nat /\ DOMAIN Tail(waiting) = 1 .. Len(waiting) - 1
         /\ \A i \in DOMAIN Tail(waiting) :
              /\ i + 1 \in DOMAIN waiting
              /\ Tail(waiting)[i] = waiting[i + 1]
              /\ Tail(waiting)[i] # Head(waiting)
         /\ \A i \in DOMAIN waiting : i # 1 =>
              i - 1 \in DOMAIN Tail(waiting) /\ waiting[i] = Tail(waiting)[i - 1]
<1>1. waiting \in Seq(Tasks) /\ Len(waiting) \in Nat /\ Len(waiting) > 0
  BY DEF Placed, TypeOK
<1>2. 1 \in DOMAIN waiting /\ Head(waiting) = waiting[1] /\ waiting[1] \in Tasks
  BY <1>1
<1>3. Tail(waiting) \in Seq(Tasks) /\ Len(Tail(waiting)) = Len(waiting) - 1
  BY <1>1
<1>4. \A i \in 1 .. Len(waiting) - 1 : i + 1 \in DOMAIN waiting /\ Tail(waiting)[i] = waiting[i + 1]
  BY <1>1
<1> QED BY <1>1, <1>2, <1>3, <1>4 DEF Placed, Parked

\* A push puts the task on top of the stack.
LEMMA PushWaiting ==
  ASSUME TypeOK, NEW t \in Tasks
  PROVE  LET w == <<t>> \o waiting IN
         /\ w \in Seq(Tasks)
         /\ Len(waiting) \in Nat /\ DOMAIN w = 1 .. Len(waiting) + 1
         /\ w[1] = t
         /\ \A i \in DOMAIN waiting : i + 1 \in DOMAIN w /\ w[i + 1] = waiting[i]
         /\ \A i \in DOMAIN w : i # 1 => i - 1 \in DOMAIN waiting /\ w[i] = waiting[i - 1]
  BY DEF TypeOK

\* A step by which a running task only goes on.
LEMMA TaskGoesOn ==
  ASSUME Placed, NEW s \in Threads, NEW t \in Tasks, on[s] = t,
         NEW label \in Labels \ {"parked", "done"}, pc' = [pc EXCEPT ![t] = label],
         UNCHANGED <<waiting, on, cont, ready>>
  PROVE  Exclusive' /\ Parked' /\ Runnable'
<1>1. pc[t] \notin {"parked", "done"} BY DEF Placed, Runnable, Switched
<1>2. \A r \in Tasks : pc'[r] = IF r = t THEN label ELSE pc[r]
  BY DEF Placed, TypeOK
<1>3. \A r \in Tasks : pc'[r] \in {"parked", "done"} <=> pc[r] \in {"parked", "done"}
  BY <1>1, <1>2
<1>4. \A r \in Tasks : pc'[r] = "parked" <=> pc[r] = "parked"
  BY <1>1, <1>2
<1>5. \A i \in DOMAIN waiting : waiting[i] \in Tasks BY DEF Placed, TypeOK
<1> QED BY <1>3, <1>4, <1>5 DEF Placed, Exclusive, Parked, Runnable, Switched, Pushing

\* A step by which a continuation that has pushed its task only goes on.
LEMMA ContGoesOn ==
  ASSUME Placed, NEW s \in Threads, cont[s].pc \notin {"none", "push"},
         cont'[s].pc # "push", \A r \in Threads : r # s => cont'[r] = cont[r],
         UNCHANGED <<waiting, pc, on, ready>>
  PROVE  Exclusive' /\ Parked' /\ Runnable'
<1>1. on[s] = NoTask BY DEF Placed, Exclusive
<1>2. \A r \in Threads, t \in Tasks : Pushing(r, t)' <=> Pushing(r, t)
  BY DEF Pushing
<1>3. Exclusive' BY <1>1 DEF Placed, Exclusive
<1>4. Parked' BY <1>2 DEF Placed, Parked
<1> QED BY <1>3, <1>4 DEF Placed, Runnable, Switched

\* A running task that leaves its thread for no other place is switched out.
LEMMA SwitchOut ==
  ASSUME Placed, NEW s \in Threads, NEW t \in Tasks, on[s] = t,
         NEW label \in {"parked", "done"}, pc' = [pc EXCEPT ![t] = label],
         on' = [on EXCEPT ![s] = NoTask], UNCHANGED ready
  PROVE  Runnable'
<1>1. \A u \in Tasks : pc'[u] = IF u = t THEN label ELSE pc[u]
  BY DEF Placed, TypeOK
<1>2. \A r \in Threads : on'[r] = IF r = s THEN NoTask ELSE on[r]
  BY DEF Placed, TypeOK
<1>3. t \notin ready /\ \A r \in Threads : on[r] = t => r = s
  BY DEF Placed, Runnable
<1>4. \A u \in Tasks : Switched(u)' <=> Switched(u) \/ u = t
  BY <1>2, <1>3 DEF Switched
<1>5. \A u \in Tasks : pc'[u] \in {"parked", "done"} <=> Switched(u)'
  BY <1>1, <1>4 DEF Placed, Runnable
<1>6. \A u \in ready', r \in Threads : on'[r] # u
  BY <1>2 DEF Placed, Runnable, TypeOK
<1>7. \A u \in Tasks, q, r \in Threads : on'[q] = u /\ on'[r] = u => q = r
  BY <1>2 DEF Placed, Runnable
<1> QED BY <1>5, <1>6, <1>7 DEF Runnable

\* The task that blocks is handed to the continuation of its thread.
LEMMA YieldPlaced ==
  ASSUME Placed, NEW s \in Threads, NEW t \in Tasks, LockYield(s, t)
  PROVE  Exclusive' /\ Parked' /\ Runnable'
<1>1. /\ on[s] = t /\ t # NoTask /\ pc[t] = "yield"
      /\ on' = [on EXCEPT ![s] = NoTask] /\ pc' = [pc EXCEPT ![t] = "parked"]
      /\ cont' = [cont EXCEPT ![s] = [pc |-> "push", task |-> t, old |-> Empty(0)]]
      /\ waiting' = waiting /\ ready' = ready
  BY DEF LockYield, At, Goto, mutex
<1>2. cont[s].pc = "none" BY <1>1 DEF Placed, Exclusive
<1>3. \A r \in Threads, u \in Tasks :
        Pushing(r, u)' <=> Pushing(r, u) \/ (r = s /\ u = t)
  BY <1>1, <1>2 DEF Placed, TypeOK, Pushing
<1>4. \A u \in Tasks : pc'[u] = IF u = t THEN "parked" ELSE pc[u]
  BY <1>1 DEF Placed, TypeOK
<1>5. \A i \in DOMAIN waiting : waiting[i] \in Tasks /\ waiting[i] # t
  BY <1>1 DEF Placed, TypeOK, Parked
<1>6. \A r \in Threads : ~Pushing(r, t) BY <1>1 DEF Placed, Parked
<1>7. Exclusive' BY <1>1 DEF Placed, TypeOK, Exclusive
<1>8. Parked' BY <1>1, <1>3, <1>4, <1>5, <1>6 DEF Placed, Parked
<1>9. Runnable' BY <1>1, SwitchOut
<1> QED BY <1>7, <1>8, <1>9

\* A task whose function returns is nowhere.
LEMMA FinishPlaced ==
  ASSUME Placed, NEW s \in Threads, NEW t \in Tasks, Finish(s, t)
  PROVE  Exclusive' /\ Parked' /\ Runnable'
<1>1. /\ on[s] = t /\ t # NoTask /\ pc[t] = "out"
      /\ on' = [on EXCEPT ![s] = NoTask] /\ pc' = [pc EXCEPT ![t] = "done"]
      /\ waiting' = waiting /\ ready' = ready /\ cont' = cont
  BY DEF Finish, At, Goto, mutex
<1>2. \A u \in Tasks : pc'[u] = IF u = t THEN "done" ELSE pc[u]
  BY <1>1 DEF Placed, TypeOK
<1>4. Exclusive' BY <1>1 DEF Placed, TypeOK, Exclusive
<1>5. Parked'
  <2>1. \A i \in DOMAIN waiting : waiting[i] \in Tasks /\ waiting[i] # t
    BY <1>1 DEF Placed, TypeOK, Parked
  <2>2. \A r \in Threads : ~Pushing(r, t) BY <1>1 DEF Placed, Parked
  <2> QED BY <1>1, <1>2, <2>1, <2>2 DEF Placed, Parked, Pushing
<1>6. Runnable' BY <1>1, SwitchOut
<1> QED BY <1>4, <1>5, <1>6

\* An unlock that finds a blocked task makes it ready.
LEMMA WakePlaced ==
  ASSUME Placed, NEW s \in Threads, NEW t \in Tasks, UnlockPop(s, t), waiting # <<>>
  PROVE  Exclusive' /\ Parked' /\ Runnable'
<1> DEFINE next == Head(waiting)
           rest == Tail(waiting)
<1>1. /\ waiting' = rest /\ ready' = ready \cup {next} /\ on[s] = t
      /\ pc' = [pc EXCEPT ![t] = "out", ![next] = "cs"] /\ pc[t] = "pop"
      /\ UNCHANGED <<on, cont>>
  BY DEF UnlockPop, At
<1>2. /\ next \in Tasks /\ pc[next] = "parked" /\ next = waiting[1]
      /\ Len(waiting) \in Nat /\ DOMAIN rest = 1 .. Len(waiting) - 1
      /\ \A i \in DOMAIN rest : /\ i + 1 \in DOMAIN waiting
                                /\ rest[i] = waiting[i + 1] /\ rest[i] # next
      /\ \A i \in DOMAIN waiting : i # 1 => i - 1 \in DOMAIN rest /\ waiting[i] = rest[i - 1]
      /\ 1 \in DOMAIN waiting
  BY PopWaiting
<1> HIDE DEF next, rest
<1>3. \A u \in Tasks : pc'[u] = IF u = next THEN "cs" ELSE IF u = t THEN "out" ELSE pc[u]
  BY <1>1, <1>2 DEF Placed, TypeOK
<1>4. \A r \in Threads : ~Pushing(r, next) /\ ~Pushing(r, t)
  BY <1>1, <1>2 DEF Placed, Parked
<1>5. \A i \in DOMAIN waiting : waiting[i] \in Tasks
  BY DEF Placed, TypeOK
<1>6. Exclusive' BY <1>1 DEF Placed, Exclusive
<1>7. Parked'
  <2>0. \A i \in DOMAIN rest : rest[i] \in Tasks /\ pc[rest[i]] = "parked"
    BY <1>2, <1>5 DEF Placed, Parked
  <2>1. \A i \in DOMAIN rest : pc'[rest[i]] = "parked"
    BY <1>1, <1>2, <1>3, <2>0
  <2>2. \A i, j \in DOMAIN rest : rest[i] = rest[j] => i = j
    BY <1>2 DEF Placed, Parked
  <2>3. \A r \in Threads, u \in Tasks : Pushing(r, u)' <=> Pushing(r, u)
    BY <1>1 DEF Pushing
  <2>4. \A r \in Threads, u \in Tasks : Pushing(r, u) =>
          pc'[u] = "parked" /\ \A i \in DOMAIN rest : rest[i] # u
    BY <1>2, <1>3, <1>4 DEF Placed, Parked
  <2>5. \A u \in Tasks : pc'[u] = "parked" =>
          (\E i \in DOMAIN rest : rest[i] = u) \/ \E r \in Threads : Pushing(r, u)
    BY <1>2, <1>3 DEF Placed, Parked
  <2> QED BY <1>1, <2>1, <2>2, <2>3, <2>4, <2>5 DEF Placed, Parked
<1>8. Runnable'
  <2>1. Switched(next) /\ ~Switched(t)
    BY <1>1, <1>2 DEF Placed, Runnable
  <2>2. \A u \in Tasks : Switched(u)' <=> Switched(u) /\ u # next
    BY <1>1 DEF Switched
  <2>3. \A u \in Tasks : pc'[u] \in {"parked", "done"} <=> Switched(u)'
    BY <1>3, <2>1, <2>2 DEF Placed, Runnable
  <2>4. \A u \in ready', r \in Threads : on'[r] # u
    BY <1>1, <2>1 DEF Placed, Runnable, Switched
  <2>5. \A u \in Tasks, q, r \in Threads : on'[q] = u /\ on'[r] = u => q = r
    BY <1>1 DEF Placed, Runnable
  <2> QED BY <2>3, <2>4, <2>5 DEF Runnable
<1> QED BY <1>6, <1>7, <1>8

\* The continuation's push takes its task to the stack.
LEMMA PushPlaced ==
  ASSUME Placed, CarriesTask, NEW s \in Threads, ContPush(s)
  PROVE  Exclusive' /\ Parked' /\ Runnable'
<1> DEFINE t == cont[s].task
           w == <<t>> \o waiting
<1>1. /\ waiting' = w /\ cont' = [cont EXCEPT ![s].pc = "load"]
      /\ UNCHANGED <<pc, on, ready>>
      /\ cont[s].pc = "push" /\ t \in Tasks
  BY DEF ContPush, ContAt, ContGoto, CarriesTask
<1>2. Pushing(s, t) BY <1>1 DEF Pushing
<1>3. /\ Len(waiting) \in Nat /\ DOMAIN w = 1 .. Len(waiting) + 1 /\ w[1] = t
      /\ \A i \in DOMAIN waiting : i + 1 \in DOMAIN w /\ w[i + 1] = waiting[i]
      /\ \A i \in DOMAIN w : i # 1 => i - 1 \in DOMAIN waiting /\ w[i] = waiting[i - 1]
  BY <1>1, PushWaiting DEF Placed
<1>c. \A r \in Threads : cont'[r].pc = "push" => cont'[r] = cont[r] /\ r # s
  BY <1>1 DEF Placed, TypeOK
<1> HIDE DEF t, w
<1>4. Exclusive' BY <1>1 DEF Placed, TypeOK, Exclusive
<1>5. Parked'
  <2>1. \A r \in Threads, u \in Tasks : Pushing(r, u)' => Pushing(r, u) /\ r # s /\ u # t
    BY <1>1, <1>2, <1>c DEF Pushing, Placed, Parked
  <2>2. \A r \in Threads, u \in Tasks : Pushing(r, u) /\ u # t => Pushing(r, u)'
    <3>1. \A r \in Threads : r # s => cont'[r] = cont[r]
      BY <1>1 DEF Placed, TypeOK
    <3> QED BY <3>1, <1>2 DEF Pushing
  <2>3. \A i \in DOMAIN w : pc[w[i]] = "parked"
    BY <1>1, <1>2, <1>3 DEF Placed, Parked
  <2>4. \A i, j \in DOMAIN w : w[i] = w[j] => i = j
    BY <1>1, <1>2, <1>3 DEF Placed, Parked
  <2>5. \A r \in Threads, u \in Tasks : Pushing(r, u)' =>
          pc[u] = "parked" /\ \A i \in DOMAIN w : w[i] # u
    BY <1>1, <1>3, <2>1 DEF Placed, Parked
  <2>6. \A u \in Tasks : pc[u] = "parked" =>
          (\E i \in DOMAIN w : w[i] = u) \/ \E r \in Threads : Pushing(r, u)'
    <3> SUFFICES ASSUME NEW u \in Tasks, pc[u] = "parked"
                 PROVE  (\E i \in DOMAIN w : w[i] = u) \/ \E r \in Threads : Pushing(r, u)'
      OBVIOUS
    <3>1. CASE u = t BY <1>3, <3>1
    <3>2. CASE \E i \in DOMAIN waiting : waiting[i] = u BY <1>3, <3>2
    <3>3. CASE u # t /\ \E r \in Threads : Pushing(r, u) BY <2>2, <3>3
    <3> QED BY <3>1, <3>2, <3>3 DEF Placed, Parked
  <2>7. \A q, r \in Threads, u \in Tasks : Pushing(q, u)' /\ Pushing(r, u)' => q = r
    BY <2>1 DEF Placed, Parked
  <2> QED BY <1>1, <2>3, <2>4, <2>5, <2>6, <2>7 DEF Parked
<1>6. Runnable' BY <1>1 DEF Placed, Runnable, Switched
<1> QED BY <1>4, <1>5, <1>6

\* The continuation that has taken a hand-off executes a blocked task.
LEMMA ResumePlaced ==
  ASSUME Placed, NEW s \in Threads, ContPop(s), waiting # <<>>
  PROVE  Exclusive' /\ Parked' /\ Runnable'
<1> DEFINE next == Head(waiting)
           rest == Tail(waiting)
<1>1. /\ waiting' = rest /\ on' = [on EXCEPT ![s] = next]
      /\ pc' = [pc EXCEPT ![next] = "cs"] /\ cont[s].pc = "pop"
      /\ cont' = [cont EXCEPT ![s] = NoCont] /\ UNCHANGED ready
  BY DEF ContPop, ContAt, ContEnd, Goto
<1>2. /\ next \in Tasks /\ pc[next] = "parked" /\ next = waiting[1]
      /\ Len(waiting) \in Nat /\ DOMAIN rest = 1 .. Len(waiting) - 1
      /\ \A i \in DOMAIN rest : /\ i + 1 \in DOMAIN waiting
                                /\ rest[i] = waiting[i + 1] /\ rest[i] # next
      /\ \A i \in DOMAIN waiting : i # 1 => i - 1 \in DOMAIN rest /\ waiting[i] = rest[i - 1]
      /\ 1 \in DOMAIN waiting
  BY PopWaiting
<1> HIDE DEF next, rest
<1>3. \A u \in Tasks : pc'[u] = IF u = next THEN "cs" ELSE pc[u]
  BY <1>1, <1>2 DEF Placed, TypeOK
<1>4. \A r \in Threads : on'[r] = IF r = s THEN next ELSE on[r]
  BY <1>1 DEF Placed, TypeOK
<1>5. on[s] = NoTask BY <1>1 DEF Placed, Exclusive
<1>6. \A r \in Threads : cont'[r] = IF r = s THEN NoCont ELSE cont[r]
  BY <1>1 DEF Placed, TypeOK
<1>7. Exclusive' BY <1>4, <1>6 DEF Placed, Exclusive, NoCont
<1>8. Parked'
  <2>1. \A r \in Threads, u \in Tasks : Pushing(r, u)' <=> Pushing(r, u)
    BY <1>1, <1>6 DEF Pushing, NoCont
  <2>2. \A r \in Threads : ~Pushing(r, next)
    BY <1>2 DEF Placed, Parked
  <2>3. \A i \in DOMAIN waiting : waiting[i] \in Tasks BY DEF Placed, TypeOK
  <2>4. \A i \in DOMAIN rest : pc'[rest[i]] = "parked"
    BY <1>2, <1>3, <2>3 DEF Placed, Parked
  <2>5. \A i, j \in DOMAIN rest : rest[i] = rest[j] => i = j
    BY <1>2 DEF Placed, Parked
  <2>6. \A r \in Threads, u \in Tasks : Pushing(r, u) =>
          pc'[u] = "parked" /\ \A i \in DOMAIN rest : rest[i] # u
    <3> SUFFICES ASSUME NEW r \in Threads, NEW u \in Tasks, Pushing(r, u)
                 PROVE  pc'[u] = "parked" /\ \A i \in DOMAIN rest : rest[i] # u
      OBVIOUS
    <3>1. pc[u] = "parked" /\ (\A i \in DOMAIN waiting : waiting[i] # u) /\ u # next
      BY <2>2 DEF Placed, Parked
    <3> QED BY <1>2, <1>3, <3>1
  <2>7. \A u \in Tasks : pc'[u] = "parked" =>
          (\E i \in DOMAIN rest : rest[i] = u) \/ \E r \in Threads : Pushing(r, u)
    BY <1>2, <1>3 DEF Placed, Parked
  <2> QED BY <1>1, <2>1, <2>4, <2>5, <2>6, <2>7 DEF Placed, Parked
<1>9. Runnable'
  <2>1. Switched(next) BY <1>2 DEF Placed, Runnable
  <2>2. \A u \in Tasks : Switched(u)' <=> Switched(u) /\ u # next
    BY <1>1, <1>4, <1>5 DEF Switched
  <2>3. \A u \in Tasks : pc'[u] \in {"parked", "done"} <=> Switched(u)'
    BY <1>3, <2>1, <2>2 DEF Placed, Runnable
  <2>4. \A u \in ready', r \in Threads : on'[r] # u
    BY <1>1, <1>4, <2>1 DEF Placed, Runnable, Switched
  <2>5. \A u \in Tasks, q, r \in Threads : on'[q] = u /\ on'[r] = u => q = r
    BY <1>4, <2>1 DEF Placed, Runnable, Switched
  <2> QED BY <2>3, <2>4, <2>5 DEF Runnable
<1> QED BY <1>7, <1>8, <1>9

\* The scheduler moves a task between a thread and the ready contexts.
LEMMA SchedulerPlaced ==
  ASSUME Placed, NEW s \in Threads, Dispatch(s) \/ Block(s)
  PROVE  Exclusive' /\ Parked' /\ Runnable'
<1>1. CASE Dispatch(s)
  <2>1. PICK t \in Tasks : /\ t \in ready /\ on' = [on EXCEPT ![s] = t]
                           /\ ready' = ready \ {t}
    BY <1>1 DEF Dispatch, Placed, TypeOK
  <2>2. on[s] = NoTask /\ cont[s].pc = "none" /\ UNCHANGED <<waiting, pc, cont>>
    BY <1>1 DEF Dispatch, mutex, NoCont
  <2>3. \A r \in Threads : on'[r] = IF r = s THEN t ELSE on[r]
    BY <2>1 DEF Placed, TypeOK
  <2>4. Exclusive' /\ Parked' BY <2>2, <2>3 DEF Placed, Exclusive, Parked, Pushing
  <2>5. \A u \in Tasks : Switched(u)' <=> Switched(u)
    BY <2>1, <2>2, <2>3 DEF Switched
  <2>6. \A u \in ready', r \in Threads : on'[r] # u
    BY <2>1, <2>3 DEF Placed, Runnable
  <2>7. \A u \in Tasks, q, r \in Threads : on'[q] = u /\ on'[r] = u => q = r
    BY <2>1, <2>3 DEF Placed, Runnable
  <2> QED BY <2>2, <2>4, <2>5, <2>6, <2>7 DEF Placed, Runnable
<1>2. CASE Block(s)
  <2>0. PICK t \in Tasks : t = on[s]
    BY <1>2 DEF Block, Placed, TypeOK
  <2>1. /\ ready' = ready \cup {t} /\ on' = [on EXCEPT ![s] = NoTask]
        /\ UNCHANGED <<waiting, pc, cont>>
    BY <1>2, <2>0 DEF Block, mutex
  <2>2. \A r \in Threads : on'[r] = IF r = s THEN NoTask ELSE on[r]
    BY <2>1 DEF Placed, TypeOK
  <2>3. \A r \in Threads : on[r] = t => r = s
    BY <2>0 DEF Placed, Runnable
  <2>4. Exclusive' /\ Parked' BY <2>1, <2>2 DEF Placed, Exclusive, Parked, Pushing
  <2>5. \A u \in Tasks : Switched(u)' <=> Switched(u)
    <3>1. ~Switched(t) BY <2>0 DEF Switched
    <3>2. ~Switched(t)' BY <2>1 DEF Switched
    <3>3. \A u \in Tasks : u # t => (Switched(u)' <=> Switched(u))
      BY <2>0, <2>1, <2>2 DEF Switched
    <3> QED BY <3>1, <3>2, <3>3
  <2>6. \A u \in ready', r \in Threads : on'[r] # u
    BY <2>1, <2>2, <2>3 DEF Placed, Runnable, TypeOK
  <2>7. \A u \in Tasks, q, r \in Threads : on'[q] = u /\ on'[r] = u => q = r
    BY <2>2 DEF Placed, Runnable
  <2> QED BY <2>1, <2>4, <2>5, <2>6, <2>7 DEF Placed, Runnable
<1> QED BY <1>1, <1>2

\* What the steps of a task are to the places of the tasks.
LEMMA TaskSteps ==
  ASSUME NEW s \in Threads, NEW t \in Tasks, TaskStep(s, t)
  PROVE  \/ LockYield(s, t) \/ Finish(s, t)
         \/ UnlockPop(s, t) /\ waiting # <<>>
         \/ /\ on[s] = t /\ UNCHANGED <<waiting, on, cont, ready>>
            /\ \E label \in Labels \ {"parked", "done"} : pc' = [pc EXCEPT ![t] = label]
<1> USE DEF At, Goto, mutex
<1>l. Labels \ {"parked", "done"} = {"out", "yield", "cs", "tryLoad", "tryCas", "tryAdd",
                                    "pop", "load", "store", "peek", "cas"}
  BY DEF Labels
<1>1. CASE LockAdd(s, t) BY <1>1, <1>l DEF LockAdd
<1>2. CASE TryCount(s, t) BY <1>2, <1>l DEF TryCount
<1>3. CASE TryLoad(s, t) BY <1>3, <1>l DEF TryLoad
<1>4. CASE TryCas(s, t) BY <1>4, <1>l DEF TryCas
<1>5. CASE TryAdd(s, t) BY <1>5, <1>l DEF TryAdd
<1>6. CASE UnlockSub(s, t) BY <1>6, <1>l DEF UnlockSub
<1>7. CASE UnlockPop(s, t) BY <1>7, <1>l DEF UnlockPop
<1>8. CASE UnlockLoad(s, t) BY <1>8, <1>l DEF UnlockLoad
<1>9. CASE UnlockStore(s, t) BY <1>9, <1>l DEF UnlockStore
<1>10. CASE UnlockPeek(s, t) BY <1>10, <1>l DEF UnlockPeek
<1>11. CASE UnlockCas(s, t) BY <1>11, <1>l DEF UnlockCas
<1> QED
  BY <1>1, <1>2, <1>3, <1>4, <1>5, <1>6, <1>7, <1>8, <1>9, <1>10, <1>11 DEF TaskStep

\* What the steps of a continuation are to the places of the tasks.
LEMMA ContSteps ==
  ASSUME Placed, NEW s \in Threads, ContStep(s)
  PROVE  \/ ContPush(s)
         \/ ContPop(s) /\ waiting # <<>>
         \/ /\ cont[s].pc \notin {"none", "push"} /\ cont'[s].pc # "push"
            /\ \A r \in Threads : r # s => cont'[r] = cont[r]
            /\ UNCHANGED <<waiting, pc, on, ready>>
<1> USE DEF ContAt, ContGoto, ContEnd, NoCont, mutex, Placed, TypeOK
<1>1. CASE ContLoad(s) BY <1>1 DEF ContLoad
<1>2. CASE ContPeek(s) BY <1>2 DEF ContPeek
<1>3. CASE ContCas(s) BY <1>3 DEF ContCas
<1>4. CASE ContPop(s) BY <1>4 DEF ContPop
<1> QED BY <1>1, <1>2, <1>3, <1>4 DEF ContStep

\* Every step leaves the tasks in their places.
LEMMA NextPlaced ==
  ASSUME IInv, Placed, [Next]_vars
  PROVE  Placed'
<1>0. TypeOK' BY NextIInv DEF IInv
<1>1. ASSUME NEW s \in Threads, NEW t \in Tasks, TaskStep(s, t)
      PROVE  Exclusive' /\ Parked' /\ Runnable'
  BY <1>1, TaskSteps, TaskGoesOn, YieldPlaced, FinishPlaced, WakePlaced
<1>2. ASSUME NEW s \in Threads, ContStep(s)
      PROVE  Exclusive' /\ Parked' /\ Runnable'
  BY <1>2, ContSteps, ContGoesOn, PushPlaced, ResumePlaced DEF IInv
<1>3. ASSUME UNCHANGED vars
      PROVE  Exclusive' /\ Parked' /\ Runnable'
  BY <1>3 DEF vars, Placed, Exclusive, Parked, Runnable, Switched, Pushing
<1>4. Exclusive' /\ Parked' /\ Runnable'
  BY <1>1, <1>2, <1>3, SchedulerPlaced DEF Next, ThreadStep, Terminated
<1> QED BY <1>0, <1>4 DEF Placed

LEMMA InitPlaced == Init => Placed
<1> SUFFICES ASSUME Init PROVE Placed
  OBVIOUS
<1>1. TypeOK BY InitIInv DEF IInv
<1>2. /\ waiting = <<>> /\ ready = Tasks
      /\ \A t \in Tasks : pc[t] = "out"
      /\ \A s \in Threads : on[s] = NoTask /\ cont[s].pc = "none"
  BY DEF Init, NoCont
<1>3. Exclusive /\ Parked BY <1>2 DEF Exclusive, Parked, Pushing
<1>4. Runnable BY <1>2 DEF Runnable, Switched
<1> QED BY <1>1, <1>3, <1>4 DEF Placed

\* A task is in one place: no two threads execute it or will find it, and until
\* it ends it is not lost.
LEMMA PlacedOnce == Placed => OnePlace
<1> SUFFICES ASSUME Placed, NEW t \in Tasks
             PROVE  Cardinality(Places(t)) = IF pc[t] = "done" THEN 0 ELSE 1
  BY DEF OnePlace
<1> DEFINE Runs == {s \in Threads : on[s] = t}
           Pushes == {s \in Threads : Pushing(s, t)}
           Waits == {i \in DOMAIN waiting : waiting[i] = t}
<1>1. Places(t) = {<<"on", s>> : s \in Runs} \cup {<<"push", s>> : s \in Pushes}
                    \cup {<<"waiting", i>> : i \in Waits}
                    \cup {<<"ready", 0>> : i \in {i \in {0} : t \in ready}}
  BY DEF Places, Pushing
<1>2. CASE pc[t] = "done"
  <2>1. Runs = {} /\ Pushes = {} /\ Waits = {} /\ t \notin ready
    BY <1>2 DEF Placed, Parked, Runnable, Switched
  <2>2. Places(t) = {} BY <1>1, <2>1
  <2> QED BY <1>2, <2>2, FS_EmptySet
<1>3. CASE pc[t] = "parked"
  <2>1. Runs = {} /\ t \notin ready
    BY <1>3 DEF Placed, Runnable, Switched
  <2>2. CASE \E i \in DOMAIN waiting : waiting[i] = t
    <3>1. PICK i \in DOMAIN waiting : waiting[i] = t BY <2>2
    <3>2. Waits = {i} /\ Pushes = {} BY <3>1 DEF Placed, Parked
    <3>3. Places(t) = {<<"waiting", i>>} BY <1>1, <2>1, <3>2
    <3> QED BY <1>3, <3>3, FS_Singleton
  <2>3. CASE \E s \in Threads : Pushing(s, t)
    <3>1. PICK s \in Threads : Pushing(s, t) BY <2>3
    <3>2. Pushes = {s} /\ Waits = {} BY <3>1 DEF Placed, Parked
    <3>3. Places(t) = {<<"push", s>>} BY <1>1, <2>1, <3>2
    <3> QED BY <1>3, <3>3, FS_Singleton
  <2> QED BY <1>3, <2>2, <2>3 DEF Placed, Parked
<1>4. CASE pc[t] \notin {"parked", "done"}
  <2>1. Pushes = {} /\ Waits = {} BY <1>4 DEF Placed, Parked
  <2>2. ~Switched(t) BY <1>4 DEF Placed, Runnable
  <2>3. CASE t \in ready
    <3>1. Runs = {} BY <2>3 DEF Placed, Runnable
    <3>2. Places(t) = {<<"ready", 0>>} BY <1>1, <2>1, <2>3, <3>1
    <3> QED BY <1>4, <3>2, FS_Singleton
  <2>4. CASE t \notin ready /\ \E s \in Threads : on[s] = t
    <3>1. PICK s \in Threads : on[s] = t BY <2>4
    <3>2. Runs = {s} BY <3>1 DEF Placed, Runnable
    <3>3. Places(t) = {<<"on", s>>} BY <1>1, <2>1, <2>4, <3>2
    <3> QED BY <1>4, <3>3, FS_Singleton
  <2> QED BY <2>2, <2>3, <2>4 DEF Switched
<1> QED BY <1>2, <1>3, <1>4

\* Every task that has not ended is in exactly one place, in every reachable
\* state: a blocked task is pushed once and resumed once, although its lock()
\* is still running in a continuation when another thread resumes it.
THEOREM TasksInOnePlace == Spec => []OnePlace
<1>1. Init => IInv /\ Placed BY InitIInv, InitPlaced
<1>2. IInv /\ Placed /\ [Next]_vars => (IInv /\ Placed)' BY NextIInv, NextPlaced
<1>3. Placed => OnePlace BY PlacedOnce
<1> QED BY <1>1, <1>2, <1>3, PTL DEF Spec

-----------------------------------------------------------------------------
(* Offered ownership.                                                       *)

\* A task that goes on leaves somebody to look at the offer, unless it was the
\* one to look, and stops looking.
LEMMA TaskKeepsLooking ==
  ASSUME NoLostHandOff, NEW t \in Tasks,
         UNCHANGED <<handOff, waiting, cont>>,
         \A u \in Tasks : u # t => pc'[u] = pc[u] /\ reg'[u] = reg[u],
         pc[t] \in {"peek", "cas"} /\ reg[t] = handOff /\ waiting # <<>>
           => pc'[t] \in {"peek", "cas"} /\ reg'[t] = reg[t]
  PROVE  NoLostHandOff'
  BY DEF NoLostHandOff, Offered

\* So does a continuation.
LEMMA ContKeepsLooking ==
  ASSUME NoLostHandOff, NEW s \in Threads,
         UNCHANGED <<handOff, waiting, pc, reg>>,
         \A r \in Threads : r # s => cont'[r] = cont[r],
         Offered /\ waiting # <<>> /\ cont[s].pc = "load"
           => cont'[s].pc = "peek" /\ cont'[s].old = handOff,
         cont[s].pc \in {"peek", "cas"} /\ cont[s].old = handOff /\ waiting # <<>>
           => cont'[s].pc \in {"peek", "cas"} /\ cont'[s].old = cont[s].old
  PROVE  NoLostHandOff'
  BY DEF NoLostHandOff, Offered

\* An unlock looks at the stack after it has made its offer, and a lock() looks
\* at the offer after it has pushed its task: one of them finds the other.
LEMMA NextLooks ==
  ASSUME IInv, Placed, NoLostHandOff, [Next]_vars
  PROVE  NoLostHandOff'
<1> USE DEF At, Goto, mutex
<1>t. TypeOK BY DEF IInv
<1>1. ASSUME NEW s \in Threads, NEW t \in Tasks, TaskStep(s, t)
      PROVE  NoLostHandOff'
  <2>1. CASE LockAdd(s, t)
    BY <1>t, <2>1, TaskKeepsLooking DEF LockAdd, TypeOK
  <2>2. CASE LockYield(s, t)
    <3>1. /\ pc[t] = "yield" /\ pc' = [pc EXCEPT ![t] = "parked"]
          /\ UNCHANGED <<handOff, waiting, reg>>
          /\ cont[s].pc = "none"
          /\ \A r \in Threads : r # s => cont'[r] = cont[r]
      BY <1>t, <2>2 DEF LockYield, Placed, Exclusive, TypeOK
    <3>2. \A u \in Tasks : u # t => pc'[u] = pc[u]
      BY <1>t, <3>1 DEF TypeOK
    <3> QED BY <3>1, <3>2 DEF NoLostHandOff, Offered
  <2>3. CASE TryCount(s, t)
    BY <1>t, <2>3, TaskKeepsLooking DEF TryCount, TypeOK
  <2>4. CASE TryLoad(s, t)
    BY <1>t, <2>4, TaskKeepsLooking DEF TryLoad, TypeOK
  <2>5. CASE TryCas(s, t)
    <3>1. CASE handOff = reg[t]
      <4>1. reg[t].version + 1 \in Nat BY <1>t DEF TypeOK, HandOff
      <4>2. ~Offered' BY <2>5, <3>1, <4>1, EmptyType DEF TryCas, Offered
      <4> QED BY <4>2 DEF NoLostHandOff
    <3>2. CASE handOff # reg[t]
      BY <1>t, <2>5, <3>2, TaskKeepsLooking DEF TryCas, TypeOK
    <3> QED BY <3>1, <3>2
  <2>6. CASE TryAdd(s, t)
    BY <1>t, <2>6, TaskKeepsLooking DEF TryAdd, TypeOK
  <2>7. CASE UnlockSub(s, t)
    BY <1>t, <2>7, TaskKeepsLooking DEF UnlockSub, TypeOK
  <2>8. CASE UnlockPop(s, t)
    <3>1. ~Offered BY <2>8 DEF UnlockPop, IInv, OneToken, TaskHolds
    <3>2. ~Offered' BY <2>8, <3>1 DEF UnlockPop, Offered
    <3> QED BY <3>2 DEF NoLostHandOff
  <2>9. CASE UnlockLoad(s, t)
    BY <1>t, <2>9, TaskKeepsLooking DEF UnlockLoad, TypeOK
  <2>10. CASE UnlockStore(s, t)
    <3>1. pc'[t] = "peek" /\ reg'[t] = handOff'
      BY <1>t, <2>10 DEF UnlockStore, TypeOK
    <3> QED BY <3>1 DEF NoLostHandOff
  <2>11. CASE UnlockPeek(s, t)
    BY <1>t, <2>11, TaskKeepsLooking DEF UnlockPeek, TypeOK
  <2>12. CASE UnlockCas(s, t)
    <3>1. CASE handOff = reg[t]
      <4>1. reg[t].version + 1 \in Nat BY <1>t DEF TypeOK, HandOff
      <4>2. ~Offered' BY <2>12, <3>1, <4>1, EmptyType DEF UnlockCas, Offered
      <4> QED BY <4>2 DEF NoLostHandOff
    <3>2. CASE handOff # reg[t]
      BY <1>t, <2>12, <3>2, TaskKeepsLooking DEF UnlockCas, TypeOK
    <3> QED BY <3>1, <3>2
  <2>13. CASE Finish(s, t)
    BY <1>t, <2>13, TaskKeepsLooking DEF Finish, TypeOK
  <2> QED
    BY <1>1, <2>1, <2>2, <2>3, <2>4, <2>5, <2>6, <2>7, <2>8, <2>9, <2>10, <2>11, <2>12, <2>13
    DEF TaskStep
<1>2. ASSUME NEW s \in Threads, ContStep(s)
      PROVE  NoLostHandOff'
  <2> USE DEF ContAt, ContGoto, ContEnd
  <2>1. CASE ContPush(s)
    <3>1. cont'[s].pc = "load" BY <1>t, <2>1 DEF ContPush, TypeOK
    <3> QED BY <3>1 DEF NoLostHandOff
  <2>2. CASE ContLoad(s)
    BY <1>t, <2>2, ContKeepsLooking DEF ContLoad, TypeOK, Offered
  <2>3. CASE ContPeek(s)
    BY <1>t, <2>3, ContKeepsLooking DEF ContPeek, TypeOK
  <2>4. CASE ContCas(s)
    <3>1. CASE handOff = cont[s].old
      <4>1. cont[s].old.version + 1 \in Nat BY <1>t DEF TypeOK, HandOff
      <4>2. ~Offered' BY <2>4, <3>1, <4>1, EmptyType DEF ContCas, Offered
      <4> QED BY <4>2 DEF NoLostHandOff
    <3>2. CASE handOff # cont[s].old
      BY <1>t, <2>4, <3>2, ContKeepsLooking DEF ContCas, TypeOK
    <3> QED BY <3>1, <3>2
  <2>5. CASE ContPop(s)
    <3>1. ~Offered BY <2>5 DEF ContPop, IInv, OneToken, ContHolds
    <3>2. ~Offered' BY <2>5, <3>1 DEF ContPop, Offered
    <3> QED BY <3>2 DEF NoLostHandOff
  <2> QED BY <1>2, <2>1, <2>2, <2>3, <2>4, <2>5 DEF ContStep
<1>3. ASSUME NEW s \in Threads, Dispatch(s) \/ Block(s)
      PROVE  NoLostHandOff'
  BY <1>3 DEF Dispatch, Block, NoLostHandOff, Offered
<1>4. ASSUME UNCHANGED vars
      PROVE  NoLostHandOff'
  BY <1>4 DEF vars, NoLostHandOff, Offered
<1> QED BY <1>1, <1>2, <1>3, <1>4 DEF Next, ThreadStep, Terminated

\* Ownership on offer to a blocked task is never forgotten, whatever the order
\* in which an unlock stores and peeks and a lock() pushes and loads.
THEOREM HandOffNotLost == Spec => []NoLostHandOff
<1>1. Init => IInv /\ Placed /\ NoLostHandOff
  BY InitIInv, InitPlaced DEF Init, NoLostHandOff
<1>2. IInv /\ Placed /\ NoLostHandOff /\ [Next]_vars => (IInv /\ Placed /\ NoLostHandOff)'
  BY NextIInv, NextPlaced, NextLooks
<1> QED BY <1>1, <1>2, PTL DEF Spec

-----------------------------------------------------------------------------
(* The mutex implements LockSpec.                                           *)

\* The status of a task follows from its next step.
LEMMA StatusOf ==
  /\ status = [t \in Tasks |-> status[t]]
  /\ \A t \in Tasks :
       /\ status[t] = "holding" <=> pc[t] = "cs"
       /\ status[t] = "blocked" <=> pc[t] \in {"yield", "parked"}
       /\ status[t] = "out" <=> pc[t] \notin {"cs", "yield", "parked"}
  BY DEF status

\* A step that only moves one task moves its status at most.
LEMMA StatusStep ==
  ASSUME TypeOK, NEW t \in Tasks, NEW label \in Labels, pc' = [pc EXCEPT ![t] = label]
  PROVE  /\ status' = [status EXCEPT ![t] = status'[t]]
         /\ status'[t] = "holding" <=> label = "cs"
         /\ status'[t] = "blocked" <=> label \in {"yield", "parked"}
         /\ status'[t] = "out" <=> label \notin {"cs", "yield", "parked"}
         /\ status'[t] = status[t] => status' = status
  BY DEF status, TypeOK

\* A task that is out, and stays so, leaves the status as it is.
LEMMA StatusKept ==
  ASSUME TypeOK, NEW t \in Tasks, NEW label \in Labels, pc' = [pc EXCEPT ![t] = label],
         pc[t] \notin {"cs", "yield", "parked"}, label \notin {"cs", "yield", "parked"}
  PROVE  status' = status
<1>1. status[t] = "out" BY StatusOf
<1>2. status'[t] = "out" /\ (status'[t] = status[t] => status' = status) BY StatusStep
<1> QED BY ONLY <1>1, <1>2

\* Whoever takes the token finds the lock free.
LEMMA TokenFree ==
  ASSUME OneToken
  PROVE  /\ count = 0 \/ Offered \/ (\E s \in Threads : ContHolds(s)) => Lock!Free
         /\ (\E t \in Tasks : TaskHolds(t) /\ pc[t] # "cs") => Lock!Free
  BY StatusOf DEF OneToken, TaskHolds, Lock!Free

\* Every step of the mutex is a step of LockSpec, or one it does not see: the
\* lock goes from hand to hand without being held twice, to tasks that ask for
\* it only, and a failed tryLock() changes nothing.
LEMMA StepSimulation ==
  ASSUME IInv, Placed, [Next]_vars
  PROVE  [Lock!Next]_status
<1> USE DEF At, Goto, Lock!Next, Lock!Block, Lock!Acquire, Lock!Grant, Lock!Release
<1>t. TypeOK /\ OneToken BY DEF IInv
<1>l. {"out", "yield", "parked", "cs", "tryLoad", "tryCas", "tryAdd",
       "pop", "load", "store", "peek", "cas", "done"} \subseteq Labels
  BY DEF Labels
<1>1. ASSUME NEW s \in Threads, NEW t \in Tasks, TaskStep(s, t)
      PROVE  [Lock!Next]_status
  <2>1. CASE LockAdd(s, t)
    <3>1. CASE count = 0
      <4>1. pc[t] = "out" /\ pc' = [pc EXCEPT ![t] = "cs"] BY <2>1, <3>1 DEF LockAdd
      <4>2. status[t] = "out" /\ status' = [status EXCEPT ![t] = "holding"]
        BY <1>t, <1>l, <4>1, StatusOf, StatusStep
      <4> QED BY <1>t, <3>1, <4>2, TokenFree
    <3>2. CASE count # 0
      <4>1. pc[t] = "out" /\ pc' = [pc EXCEPT ![t] = "yield"] BY <2>1, <3>2 DEF LockAdd
      <4>2. status[t] = "out" /\ status' = [status EXCEPT ![t] = "blocked"]
        BY <1>t, <1>l, <4>1, StatusOf, StatusStep
      <4> QED BY <4>2
    <3> QED BY <3>1, <3>2
  <2>2. CASE LockYield(s, t)
    BY <1>t, <1>l, <2>2, StatusOf, StatusStep DEF LockYield
  <2>3. CASE TryCount(s, t)
    <3>1. CASE count = 0
      <4>1. pc[t] = "out" /\ pc' = [pc EXCEPT ![t] = "cs"] BY <2>3, <3>1 DEF TryCount
      <4>2. status[t] = "out" /\ status' = [status EXCEPT ![t] = "holding"]
        BY <1>t, <1>l, <4>1, StatusOf, StatusStep
      <4> QED BY <1>t, <3>1, <4>2, TokenFree
    <3>2. CASE count # 0
      BY <1>t, <1>l, <2>3, <3>2, StatusOf, StatusStep DEF TryCount
    <3> QED BY <3>1, <3>2
  <2>4. CASE TryLoad(s, t)
    <3>1. pc[t] = "tryLoad" /\ \E l \in {"out", "tryCas"} : pc' = [pc EXCEPT ![t] = l]
      BY <2>4 DEF TryLoad
    <3> QED BY ONLY <1>t, <1>l, <3>1, StatusKept
  <2>5. CASE TryCas(s, t)
    <3>1. pc[t] = "tryCas" /\ \E l \in {"tryAdd", "out"} : pc' = [pc EXCEPT ![t] = l]
      BY <2>5 DEF TryCas
    <3> QED BY ONLY <1>t, <1>l, <3>1, StatusKept
  <2>6. CASE TryAdd(s, t)
    <3>1. pc[t] = "tryAdd" /\ pc' = [pc EXCEPT ![t] = "cs"] BY <2>6 DEF TryAdd
    <3>2. status[t] = "out" /\ status' = [status EXCEPT ![t] = "holding"]
      BY <1>t, <1>l, <3>1, StatusOf, StatusStep
    <3> QED BY <1>t, <3>1, <3>2, TokenFree DEF TaskHolds
  <2>7. CASE UnlockSub(s, t)
    <3>1. pc[t] = "cs" /\ \E l \in {"out", "pop"} : pc' = [pc EXCEPT ![t] = l]
      BY <2>7 DEF UnlockSub
    <3>2. status[t] = "holding" /\ status' = [status EXCEPT ![t] = "out"]
      BY <1>t, <1>l, <3>1, StatusOf, StatusStep
    <3> QED BY <3>2
  <2>8. CASE UnlockPop(s, t)
    <3>1. CASE waiting = <<>>
      BY <1>t, <1>l, <2>8, <3>1, StatusOf, StatusStep DEF UnlockPop
    <3>2. CASE waiting # <<>>
      <4> DEFINE next == Head(waiting)
      <4>1. next \in Tasks /\ pc[next] = "parked" BY <3>2, PopWaiting
      <4>2. pc[t] = "pop" /\ pc' = [pc EXCEPT ![t] = "out", ![next] = "cs"]
        BY <2>8, <3>2 DEF UnlockPop
      <4> HIDE DEF next
      <4>3. status[next] = "blocked" /\ status' = [status EXCEPT ![next] = "holding"]
        BY <1>t, <4>1, <4>2 DEF status, TypeOK
      <4>4. Lock!Free BY <1>t, <4>2, TokenFree DEF TaskHolds
      <4> QED BY <4>1, <4>3, <4>4
    <3> QED BY <3>1, <3>2
  <2>9. CASE UnlockLoad(s, t)
    <3>1. pc[t] = "load" /\ pc' = [pc EXCEPT ![t] = "store"]
      BY <2>9 DEF UnlockLoad
    <3> QED BY ONLY <1>t, <1>l, <3>1, StatusKept
  <2>10. CASE UnlockStore(s, t)
    <3>1. pc[t] = "store" /\ pc' = [pc EXCEPT ![t] = "peek"]
      BY <2>10 DEF UnlockStore
    <3> QED BY ONLY <1>t, <1>l, <3>1, StatusKept
  <2>11. CASE UnlockPeek(s, t)
    <3>1. pc[t] = "peek" /\ \E l \in {"out", "cas"} : pc' = [pc EXCEPT ![t] = l]
      BY <2>11 DEF UnlockPeek
    <3> QED BY ONLY <1>t, <1>l, <3>1, StatusKept
  <2>12. CASE UnlockCas(s, t)
    <3>1. pc[t] = "cas" /\ \E l \in {"pop", "out"} : pc' = [pc EXCEPT ![t] = l]
      BY <2>12 DEF UnlockCas
    <3> QED BY ONLY <1>t, <1>l, <3>1, StatusKept
  <2>13. CASE Finish(s, t)
    <3>1. pc[t] = "out" /\ pc' = [pc EXCEPT ![t] = "done"]
      BY <2>13 DEF Finish
    <3> QED BY ONLY <1>t, <1>l, <3>1, StatusKept
  <2> QED
    BY <1>1, <2>1, <2>2, <2>3, <2>4, <2>5, <2>6, <2>7, <2>8, <2>9, <2>10, <2>11, <2>12, <2>13
    DEF TaskStep
<1>2. ASSUME NEW s \in Threads, ContStep(s)
      PROVE  [Lock!Next]_status
  <2>1. CASE ContPop(s) /\ waiting # <<>>
    <3> DEFINE next == Head(waiting)
    <3>1. next \in Tasks /\ pc[next] = "parked" BY <2>1, PopWaiting
    <3>2. pc' = [pc EXCEPT ![next] = "cs"] /\ ContHolds(s)
      BY <2>1 DEF ContPop, ContAt, ContHolds
    <3> HIDE DEF next
    <3>3. status[next] = "blocked" /\ status' = [status EXCEPT ![next] = "holding"]
      BY <1>t, <1>l, <3>1, <3>2, StatusOf, StatusStep
    <3>4. Lock!Free BY <1>t, <3>2, TokenFree
    <3> QED BY <3>1, <3>3, <3>4
  <2>2. CASE UNCHANGED pc
    BY <2>2 DEF status
  <2> QED BY <1>2, <2>1, <2>2, ContSteps DEF ContPush
<1>3. ASSUME UNCHANGED pc
      PROVE  [Lock!Next]_status
  BY <1>3 DEF status
<1> QED BY <1>1, <1>2, <1>3 DEF Next, ThreadStep, Terminated, Dispatch, Block, vars

\* The safety part of LockImplemented: the mutex implements LockSpec.
THEOREM SafetyImplemented == Spec => Lock!Init /\ [][Lock!Next]_status
<1>1. Init => IInv /\ Placed /\ Lock!Init
  BY InitIInv, InitPlaced DEF Init, Lock!Init, status
<1>2. IInv /\ Placed /\ [Next]_vars => (IInv /\ Placed)'
  BY NextIInv, NextPlaced
<1> QED BY <1>1, <1>2, StepSimulation, PTL DEF Spec

-----------------------------------------------------------------------------
(* What the version of a hand-off is for.                                   *)

\* A hand-off that a continuation is about to compare does not come back once
\* it is gone: what the version is for (Mutex.cpp:15-18), and what it no longer
\* does when it wraps around meanwhile.
ReuseFree ==
  \A s \in Threads :
    cont[s].pc = "cas" /\ handOff # cont[s].old => handOff' # cont[s].old
NoReuse == [][ReuseFree]_vars

\* A continuation that takes the hand-off, or is about to, has a task to execute.
Found ==
  \A s \in Threads :
    /\ cont[s].pc = "cas" /\ handOff = cont[s].old => waiting # <<>>
    /\ cont[s].pc = "pop" => waiting # <<>>
    /\ cont[s].pc # "null"

\* Only the holder of the token pops, so that what a continuation has seen in
\* the stack stays there while the hand-off it has read is the current one.
LEMMA NextFound ==
  ASSUME IInv, Placed, Found, [Next]_vars, [ReuseFree]_vars
  PROVE  Found'
<1> USE DEF At, Goto, mutex
<1>t. TypeOK /\ OneToken /\ ReadOffers BY DEF IInv
<1>r. \A s \in Threads : cont[s].pc = "cas" /\ handOff' = cont[s].old => handOff = cont[s].old
  BY DEF ReuseFree, vars
<1>p. ASSUME NEW r \in Threads, cont'[r] = cont[r],
             \/ waiting' = waiting
             \/ waiting' # <<>>
             \/ ~Offered /\ ~ContHolds(r) /\ handOff' = handOff
      PROVE  /\ cont'[r].pc = "cas" /\ handOff' = cont'[r].old => waiting' # <<>>
             /\ cont'[r].pc = "pop" => waiting' # <<>>
             /\ cont'[r].pc # "null"
  BY <1>t, <1>r, <1>p DEF Found, ReadOffers, Offered, ContHolds
<1>1. ASSUME NEW s \in Threads, NEW t \in Tasks, TaskStep(s, t)
      PROVE  Found'
  <2>1. CASE LockYield(s, t)
    <3>1. waiting' = waiting /\ cont'[s].pc = "push"
          /\ \A r \in Threads : r # s => cont'[r] = cont[r]
      BY <1>t, <2>1 DEF LockYield, TypeOK
    <3> QED BY <1>p, <3>1 DEF Found
  <2>2. CASE UnlockPop(s, t) /\ waiting # <<>>
    <3>1. UNCHANGED <<cont, handOff>> /\ TaskHolds(t)
      BY <2>2 DEF UnlockPop, TaskHolds
    <3>2. ~Offered /\ \A r \in Threads : ~ContHolds(r)
      BY <1>t, <3>1 DEF OneToken
    <3> QED BY <1>p, <3>1, <3>2 DEF Found
  <2>3. CASE UNCHANGED <<waiting, cont>>
    BY <1>p, <2>3 DEF Found
  <2> QED BY <1>1, <2>1, <2>2, <2>3, TaskSteps DEF Finish
<1>2. ASSUME NEW s \in Threads, ContStep(s)
      PROVE  Found'
  <2> USE DEF ContAt, ContGoto, ContEnd
  <2>1. CASE ContPush(s)
    <3>1. waiting' # <<>>
      <4>1. cont[s].task \in Tasks BY <2>1 DEF ContPush, IInv, CarriesTask
      <4>2. 1 \in DOMAIN (<<cont[s].task>> \o waiting) BY <1>t, <4>1, PushWaiting
      <4> QED BY <2>1, <4>2 DEF ContPush
    <3>2. cont'[s].pc = "load" /\ \A r \in Threads : r # s => cont'[r] = cont[r]
      BY <1>t, <2>1 DEF ContPush, TypeOK
    <3> QED BY <1>p, <3>1, <3>2 DEF Found
  <2>2. CASE ContPop(s)
    <3>1. waiting # <<>> /\ ContHolds(s) BY <2>2 DEF ContPop, ContHolds, Found
    <3>2. /\ cont'[s].pc = "none" /\ handOff' = handOff
          /\ \A r \in Threads : r # s => cont'[r] = cont[r]
      BY <1>t, <2>2, <3>1 DEF ContPop, TypeOK, NoCont
    <3>3. ~Offered /\ \A r \in Threads : r # s => ~ContHolds(r)
      BY <1>t, <3>1 DEF OneToken
    <3> QED BY <1>p, <3>2, <3>3 DEF Found
  <2>3. CASE ContLoad(s) \/ ContPeek(s) \/ ContCas(s)
    <3>1. waiting' = waiting /\ \A r \in Threads : r # s => cont'[r] = cont[r]
      BY <1>t, <2>3 DEF ContLoad, ContPeek, ContCas, TypeOK
    <3>2. /\ cont'[s].pc = "cas" => waiting # <<>>
          /\ cont'[s].pc = "pop" => waiting # <<>>
          /\ cont'[s].pc # "null"
      <4>1. CASE ContLoad(s) BY <1>t, <4>1 DEF ContLoad, TypeOK, NoCont
      <4>2. CASE ContPeek(s) BY <1>t, <4>2 DEF ContPeek, TypeOK, NoCont
      <4>3. CASE ContCas(s) BY <1>t, <4>3 DEF ContCas, TypeOK, NoCont, Found
      <4> QED BY <2>3, <4>1, <4>2, <4>3
    <3> QED BY <1>p, <3>1, <3>2 DEF Found
  <2> QED BY <1>2, <2>1, <2>2, <2>3 DEF ContStep
<1>3. ASSUME UNCHANGED <<waiting, cont>>
      PROVE  Found'
  BY <1>p, <1>3 DEF Found
<1> QED BY <1>1, <1>2, <1>3 DEF Next, ThreadStep, Terminated, Dispatch, Block, vars

\* While callers are counted, somebody has the token: it is lost only by a
\* continuation that takes a hand-off and finds nobody to execute.
LEMMA NextToken ==
  ASSUME IInv, Placed, Found, TokenNotLost, [Next]_vars
  PROVE  TokenNotLost'
<1> USE DEF At, Goto, mutex
<1>t. TypeOK /\ ReadOffers BY DEF IInv
<1> DEFINE Token == \/ Offered
                    \/ \E t \in Tasks : TaskHolds(t)
                    \/ \E s \in Threads : ContHolds(s)
<1>k. count > 0 => Token BY DEF TokenNotLost
<1>q. Token' => TokenNotLost' BY DEF TokenNotLost
<1>u. ASSUME UNCHANGED <<count, handOff>>, \A r \in Threads : ContHolds(r) => ContHolds(r)',
             \A u \in Tasks : TaskHolds(u) => TaskHolds(u)'
      PROVE  TokenNotLost'
  BY <1>u DEF TokenNotLost, Offered
<1>g. ASSUME NEW t \in Tasks, NEW label \in {"cs", "pop", "load", "store", "tryAdd"},
             pc' = [pc EXCEPT ![t] = label]
      PROVE  Token'
  <2>1. TaskHolds(t)' BY <1>t, <1>g DEF TypeOK, TaskHolds
  <2> QED BY <2>1
<1>n. ASSUME NEW t \in Tasks, ~TaskHolds(t), NEW label \in Labels,
             pc' = [pc EXCEPT ![t] = label]
      PROVE  \A u \in Tasks : TaskHolds(u) => TaskHolds(u)'
  BY <1>t, <1>n DEF TypeOK, TaskHolds
<1> HIDE DEF Token
<1>1. ASSUME NEW s \in Threads, NEW t \in Tasks, TaskStep(s, t)
      PROVE  TokenNotLost'
  <2>1. CASE LockAdd(s, t)
    <3>1. CASE count = 0 BY <1>g, <1>q, <2>1, <3>1 DEF LockAdd
    <3>2. CASE count # 0
      <4>1. Token BY <1>t, <1>k, <3>2 DEF TypeOK
      <4>2. \A u \in Tasks : TaskHolds(u) => TaskHolds(u)'
        BY <1>t, <2>1 DEF LockAdd, TypeOK, TaskHolds
      <4>3. Token' BY <2>1, <4>1, <4>2 DEF LockAdd, Token, Offered, ContHolds
      <4> QED BY <1>q, <4>3
    <3> QED BY <3>1, <3>2
  <2>2. CASE LockYield(s, t)
    <3>1. \A u \in Tasks : TaskHolds(u) => TaskHolds(u)'
      BY <1>t, <2>2 DEF LockYield, TypeOK, TaskHolds
    <3>2. \A r \in Threads : ContHolds(r) => ContHolds(r)'
      BY <1>t, <2>2 DEF LockYield, Placed, Exclusive, TypeOK, ContHolds
    <3> QED BY <1>u, <2>2, <3>1, <3>2 DEF LockYield
  <2>3. CASE TryCount(s, t)
    <3>1. CASE count = 0 BY <1>g, <1>q, <2>3, <3>1 DEF TryCount
    <3>2. CASE count # 0
      <4>1. \A u \in Tasks : TaskHolds(u) => TaskHolds(u)'
        BY <1>t, <2>3, <3>2 DEF TryCount, TypeOK, TaskHolds
      <4> QED BY <1>u, <2>3, <3>2, <4>1 DEF TryCount, ContHolds
    <3> QED BY <3>1, <3>2
  <2>4. CASE TryLoad(s, t)
    <3>1. \A u \in Tasks : TaskHolds(u) => TaskHolds(u)'
      BY <1>t, <2>4 DEF TryLoad, TypeOK, TaskHolds
    <3> QED BY <1>u, <2>4, <3>1 DEF TryLoad, ContHolds
  <2>5. CASE TryCas(s, t)
    <3>1. CASE handOff = reg[t] BY <1>g, <1>q, <2>5, <3>1 DEF TryCas
    <3>2. CASE handOff # reg[t]
      <4>1. \A u \in Tasks : TaskHolds(u) => TaskHolds(u)'
        BY <1>t, <2>5, <3>2 DEF TryCas, TypeOK, TaskHolds
      <4> QED BY <1>u, <2>5, <3>2, <4>1 DEF TryCas, ContHolds
    <3> QED BY <3>1, <3>2
  <2>6. CASE TryAdd(s, t) BY <1>g, <1>q, <2>6 DEF TryAdd
  <2>7. CASE UnlockSub(s, t)
    <3>1. CASE count = 1 BY <2>7, <3>1 DEF UnlockSub, TokenNotLost
    <3>2. CASE count # 1 BY <1>g, <1>q, <2>7, <3>2 DEF UnlockSub
    <3> QED BY <3>1, <3>2
  <2>8. CASE UnlockPop(s, t)
    <3>1. CASE waiting = <<>> BY <1>g, <1>q, <2>8, <3>1 DEF UnlockPop
    <3>2. CASE waiting # <<>>
      <4>1. PICK next \in Tasks : next = Head(waiting) BY <3>2, PopWaiting
      <4>2. TaskHolds(next)'
        BY <1>t, <2>8, <3>2, <4>1 DEF UnlockPop, TypeOK, TaskHolds
      <4> QED BY <1>q, <4>1, <4>2 DEF Token
    <3> QED BY <3>1, <3>2
  <2>9. CASE UnlockLoad(s, t) BY <1>g, <1>q, <2>9 DEF UnlockLoad
  <2>10. CASE UnlockStore(s, t)
    <3>1. Offered' BY <1>t, <2>10 DEF UnlockStore, ReadOffers, Offered
    <3> QED BY <1>q, <3>1 DEF Token
  <2>11. CASE UnlockPeek(s, t)
    <3>1. \A u \in Tasks : TaskHolds(u) => TaskHolds(u)'
      BY <1>t, <2>11 DEF UnlockPeek, TypeOK, TaskHolds
    <3> QED BY <1>u, <2>11, <3>1 DEF UnlockPeek, ContHolds
  <2>12. CASE UnlockCas(s, t)
    <3>1. CASE handOff = reg[t] BY <1>g, <1>q, <2>12, <3>1 DEF UnlockCas
    <3>2. CASE handOff # reg[t]
      <4>1. \A u \in Tasks : TaskHolds(u) => TaskHolds(u)'
        BY <1>t, <2>12, <3>2 DEF UnlockCas, TypeOK, TaskHolds
      <4> QED BY <1>u, <2>12, <3>2, <4>1 DEF UnlockCas, ContHolds
    <3> QED BY <3>1, <3>2
  <2>13. CASE Finish(s, t)
    <3>1. \A u \in Tasks : TaskHolds(u) => TaskHolds(u)'
      BY <1>t, <2>13 DEF Finish, TypeOK, TaskHolds
    <3> QED BY <1>u, <2>13, <3>1 DEF Finish, ContHolds
  <2> QED
    BY <1>1, <2>1, <2>2, <2>3, <2>4, <2>5, <2>6, <2>7, <2>8, <2>9, <2>10, <2>11, <2>12, <2>13
    DEF TaskStep
<1>2. ASSUME NEW s \in Threads, ContStep(s)
      PROVE  TokenNotLost'
  <2> USE DEF ContAt, ContGoto, ContEnd
  <2>1. CASE ContPop(s)
    <3>1. waiting # <<>> BY <2>1 DEF ContPop, Found
    <3>2. PICK next \in Tasks : next = Head(waiting) BY <3>1, PopWaiting
    <3>3. TaskHolds(next)'
      BY <1>t, <2>1, <3>1, <3>2 DEF ContPop, TypeOK, TaskHolds
    <3> QED BY <1>q, <3>2, <3>3 DEF Token
  <2>2. CASE ContCas(s) /\ handOff = cont[s].old
    <3>1. ContHolds(s)' BY <1>t, <2>2 DEF ContCas, TypeOK, ContHolds
    <3> QED BY <1>q, <3>1 DEF Token
  <2>3. CASE ContPush(s) \/ ContLoad(s) \/ ContPeek(s) \/ (ContCas(s) /\ handOff # cont[s].old)
    <3>1. /\ UNCHANGED <<count, handOff, pc>> /\ cont[s].pc # "pop"
          /\ \A r \in Threads : r # s => cont'[r] = cont[r]
      BY <1>t, <2>3 DEF ContPush, ContLoad, ContPeek, ContCas, TypeOK
    <3> QED BY <1>u, <3>1 DEF ContHolds, TaskHolds
  <2> QED BY <1>2, <2>1, <2>2, <2>3 DEF ContStep
<1>3. ASSUME UNCHANGED <<count, handOff, pc, cont>>
      PROVE  TokenNotLost'
  BY <1>3, <1>u DEF TaskHolds, ContHolds
<1> QED BY <1>1, <1>2, <1>3 DEF Next, ThreadStep, Terminated, Dispatch, Block, vars

\* The hand-off that a continuation is about to compare is the current one, or
\* one of an earlier version.
EarlierVersion ==
  \A s \in Threads : cont[s].pc \in {"peek", "cas"} =>
    handOff = cont[s].old \/ cont[s].old.version < handOff.version

\* The version does not wrap around: it grows with every change of the hand-off.
NoWrap == [][handOff'.version > handOff.version]_handOff

LEMMA NextEarlierVersion ==
  ASSUME IInv, EarlierVersion, [Next]_vars, [handOff'.version > handOff.version]_handOff
  PROVE  EarlierVersion' /\ [ReuseFree]_vars
<1> USE DEF mutex
<1>t. TypeOK /\ TypeOK' BY NextIInv DEF IInv
<1>v. handOff' = handOff \/ handOff'.version > handOff.version
  OBVIOUS
<1>n. handOff.version \in Int /\ handOff'.version \in Int
      /\ \A s \in Threads : cont[s].old.version \in Int
  BY <1>t DEF TypeOK, HandOff
<1>1. \A r \in Threads : cont'[r] = cont[r] /\ cont[r].pc \in {"peek", "cas"} =>
        handOff' = cont'[r].old \/ cont'[r].old.version < handOff'.version
  BY <1>v, <1>n DEF EarlierVersion
<1>2. ReuseFree BY <1>v, <1>n DEF ReuseFree, EarlierVersion
<1>3. ASSUME NEW s \in Threads, NEW t \in Tasks, TaskStep(s, t)
      PROVE  EarlierVersion'
  <2>1. CASE LockYield(s, t)
    <3>1. cont'[s].pc = "push" /\ \A r \in Threads : r # s => cont'[r] = cont[r]
      BY <1>t, <2>1 DEF LockYield, TypeOK
    <3> QED BY <1>1, <3>1 DEF EarlierVersion
  <2>2. CASE UNCHANGED cont BY <1>1, <2>2 DEF EarlierVersion
  <2> QED BY <1>3, <2>1, <2>2, TaskSteps DEF Finish, UnlockPop
<1>4. ASSUME NEW s \in Threads, ContStep(s)
      PROVE  EarlierVersion'
  <2> USE DEF ContAt, ContGoto, ContEnd
  <2>1. \A r \in Threads : r # s => cont'[r] = cont[r]
    BY <1>t, <1>4 DEF ContStep, ContPush, ContLoad, ContPeek, ContCas, ContPop, TypeOK
  <2>2. CASE ContLoad(s) /\ cont'[s].pc = "peek"
    <3>1. cont'[s].old = handOff /\ handOff' = handOff
      BY <1>t, <2>2 DEF ContLoad, TypeOK, NoCont
    <3> QED BY <1>1, <2>1, <3>1 DEF EarlierVersion
  <2>3. CASE ContPeek(s) /\ cont'[s].pc = "cas"
    <3>1. cont[s].pc = "peek" /\ cont'[s].old = cont[s].old /\ handOff' = handOff
      BY <1>t, <2>3 DEF ContPeek, TypeOK, NoCont
    <3> QED BY <1>1, <2>1, <3>1 DEF EarlierVersion
  <2>4. CASE cont'[s].pc \notin {"peek", "cas"}
    BY <1>1, <2>1, <2>4 DEF EarlierVersion
  <2>5. \/ ContLoad(s) /\ cont'[s].pc = "peek"
        \/ ContPeek(s) /\ cont'[s].pc = "cas"
        \/ cont'[s].pc \notin {"peek", "cas"}
    BY <1>t, <1>4 DEF ContStep, ContPush, ContLoad, ContPeek, ContCas, ContPop, TypeOK, NoCont
  <2> QED BY <2>2, <2>3, <2>4, <2>5
<1>5. ASSUME UNCHANGED cont
      PROVE  EarlierVersion'
  BY <1>1, <1>5 DEF EarlierVersion
<1>6. EarlierVersion'
  BY <1>3, <1>4, <1>5 DEF Next, ThreadStep, Terminated, Dispatch, Block, vars
<1> QED BY <1>2, <1>6

\* As long as the version has not wrapped around, it keeps hand-offs apart.
THEOREM VersionGuards == Spec /\ NoWrap => NoReuse
<1>1. Init => IInv /\ EarlierVersion
  BY InitIInv DEF Init, EarlierVersion, NoCont
<1>2. IInv /\ [Next]_vars => IInv' BY NextIInv
<1> QED BY <1>1, <1>2, NextEarlierVersion, PTL DEF Spec, NoWrap, NoReuse

\* A continuation that takes a hand-off finds a task to execute, as long as no
\* hand-off comes back while a continuation is about to compare it: without
\* that, TLC finds a continuation that executes null.
THEOREM NullNotExecuted == Spec /\ NoReuse => []NoNullExecute
<1>1. Init => IInv /\ Placed /\ Found
  BY InitIInv, InitPlaced DEF Init, Found, NoCont
<1>2. IInv /\ Placed /\ [Next]_vars => (IInv /\ Placed)' BY NextIInv, NextPlaced
<1>3. Found => NoNullExecute BY DEF Found, NoNullExecute
<1> QED BY <1>1, <1>2, <1>3, NextFound, PTL DEF Spec, NoReuse

\* ... and the mutex is not left unowned while callers are counted inside it.
THEOREM TokenKept == Spec /\ NoReuse => []TokenNotLost
<1>1. Init => IInv /\ Placed /\ Found /\ TokenNotLost
  BY InitIInv, InitPlaced DEF Init, Found, NoCont, TokenNotLost
<1>2. IInv /\ Placed /\ [Next]_vars => (IInv /\ Placed)' BY NextIInv, NextPlaced
<1> QED BY <1>1, <1>2, NextFound, NextToken, PTL DEF Spec, NoReuse

=============================================================================
