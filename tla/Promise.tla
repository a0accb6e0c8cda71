------------------------------ MODULE Promise ------------------------------
(***************************************************************************)
(* Game/Concurrency/Promise: a value and the Event that its fulfilment      *)
(* signals. The steps of the event are those of Event; a wait() that        *)
(* returns goes on to read the value.                                       *)
(***************************************************************************)
EXTENDS Integers, Sequences, FiniteSets

CONSTANTS Tasks, Threads, NoTask, MaxCalls,
          Values,   \* what a promise may be fulfilled with
          Unset     \* the value before it is fulfilled

VARIABLES value, got, signaled, waiting, pc, left, on, cont, ready

fulfilled == <<signaled, waiting, pc, left, on, cont, ready>>
vars == <<value, got, fulfilled>>

E == INSTANCE Event WITH AfterWait <- "read"

Init == value = Unset /\ got = [t \in Tasks |-> {}] /\ E!Init

\* Bug: the event is signaled and the value is not stored.
FulfillForgets(s, t) ==
  /\ E!At(s, t, "out") /\ E!Call(t) /\ value = Unset
  /\ value' = value
  /\ E!Goto(t, "set")
  /\ UNCHANGED <<got, signaled, waiting, on, cont, ready>>

\* fulfill: value = result. Its caller is the only one to fulfil the promise.
Fulfill(s, t) ==
  /\ E!At(s, t, "out") /\ E!Call(t) /\ value = Unset
  /\ value' \in Values
  /\ E!Goto(t, "set")
  /\ UNCHANGED <<got, signaled, waiting, on, cont, ready>>

\* fulfill: the store of fulfilled.signal()
SignalFulfilled(s, t) ==
  E!At(s, t, "set") /\ E!Store(s, t) /\ UNCHANGED <<value, got, left>>

\* wait: fulfilled.wait()
WaitStep(s) == E!CommonStep(s) /\ UNCHANGED <<value, got>>

\* wait: return value
Read(s, t) ==
  /\ E!At(s, t, "read")
  /\ got' = [got EXCEPT ![t] = @ \cup {value}]
  /\ E!Goto(t, "out")
  /\ UNCHANGED <<value, signaled, waiting, left, on, cont, ready>>

ThreadStep(s) ==
  \/ WaitStep(s)
  \/ \E t \in Tasks : Fulfill(s, t) \/ SignalFulfilled(s, t) \/ Read(s, t)

\* Nobody is left to fulfil the promise, and the waits go on waiting.
Terminated == /\ E!Quiet /\ (value # Unset => \A t \in Tasks : pc[t] = "done")
              /\ UNCHANGED vars

Next == (\E s \in Threads : ThreadStep(s)) \/ Terminated

Spec == Init /\ [][Next]_vars /\ \A s \in Threads : WF_vars(ThreadStep(s))

-----------------------------------------------------------------------------
\* Every wait(), of every task, returns the one value the promise was
\* fulfilled with, never the one before it.
OneValue == \A t \in Tasks : got[t] \subseteq {value} \ {Unset}
=============================================================================
