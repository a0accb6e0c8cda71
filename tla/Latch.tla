------------------------------- MODULE Latch -------------------------------
(***************************************************************************)
(* Game/Concurrency/Latch: a counter and the Event its last countDown       *)
(* signals. The steps of the event are those of Event.                      *)
(***************************************************************************)
EXTENDS Integers, Sequences, FiniteSets

CONSTANTS Tasks, Threads, NoTask, MaxCalls,
          Counts    \* the counts a latch may be constructed with

VARIABLES counter, signaled, waiting, pc, left, on, cont, ready

isZero == <<signaled, waiting, pc, left, on, cont, ready>>
vars == <<counter, isZero>>

E == INSTANCE Event WITH AfterWait <- "out"

\* A latch of count 0 is signaled by its constructor.
Init == counter \in Counts /\ E!InitWith(counter = 0)

\* Bugs: the last but one signals, or the new value is compared.
CountDownAt(s, t, signals) ==
  /\ E!At(s, t, "out") /\ E!Call(t) /\ counter > 0
  /\ counter' = counter - 1
  /\ E!Goto(t, IF counter = signals THEN "set" ELSE "out")
  /\ UNCHANGED <<signaled, waiting, on, cont, ready>>
CountDownEarly(s, t) == CountDownAt(s, t, 2)
CountDownNever(s, t) == CountDownAt(s, t, 0)

\* countDown: counter.fetch_sub(1), the last one going on to isZero.signal().
\* Its callers count down at most as often as the latch was constructed for.
CountDown(s, t) ==
  /\ E!At(s, t, "out") /\ E!Call(t) /\ counter > 0
  /\ counter' = counter - 1
  /\ E!Goto(t, IF counter = 1 THEN "set" ELSE "out")
  /\ UNCHANGED <<signaled, waiting, on, cont, ready>>

\* countDown: the store of isZero.signal()
SignalZero(s, t) ==
  E!At(s, t, "set") /\ E!Store(s, t) /\ UNCHANGED <<counter, left>>

\* wait: isZero.wait()
WaitStep(s) == E!CommonStep(s) /\ UNCHANGED counter

ThreadStep(s) == WaitStep(s) \/ \E t \in Tasks : CountDown(s, t) \/ SignalZero(s, t)

\* Nobody is left to count down, and the waits go on waiting.
Terminated == /\ E!Quiet /\ (counter = 0 => \A t \in Tasks : pc[t] = "done")
              /\ UNCHANGED vars

Next == (\E s \in Threads : ThreadStep(s)) \/ Terminated

Spec == Init /\ [][Next]_vars /\ \A s \in Threads : WF_vars(ThreadStep(s))

-----------------------------------------------------------------------------
\* A wait() that had to block returns only when every countDown has happened,
\* even when the task that takes the count to 0 is overtaken by the others
\* before its signal.
OpensAtZero ==
  [][\A t \in Tasks : pc[t] = "parked" /\ pc'[t] # "parked" => counter = 0]_vars
=============================================================================
