----------------------------- MODULE MCOneShot -----------------------------
(***************************************************************************)
(* An event used by itself, as the isZero of a latch, or as the fulfilled   *)
(* of a promise: which of the three is chosen in the initial state, and the *)
(* properties of the event hold in each.                                    *)
(***************************************************************************)
EXTENDS Event

CONSTANTS Counts, Values, Unset

ASSUME OneShotAssumption == Counts \subseteq Nat /\ Unset \notin Values

VARIABLES kind, counter, value, got

L == INSTANCE Latch
P == INSTANCE Promise

oneShot == <<kind, counter, value, got, vars>>

NoLatch == counter = 0
NoPromise == value = Unset /\ got = [t \in Tasks |-> {}]

MCInit ==
  \/ kind = "event" /\ Init /\ NoLatch /\ NoPromise
  \/ kind = "latch" /\ L!Init /\ NoPromise
  \/ kind = "promise" /\ P!Init /\ NoLatch

MCNext ==
  /\ \/ kind = "event" /\ Next /\ UNCHANGED <<counter, value, got>>
     \/ kind = "latch" /\ L!Next /\ UNCHANGED <<value, got>>
     \/ kind = "promise" /\ P!Next /\ UNCHANGED counter
  /\ UNCHANGED kind

MCThreadStep(s) ==
  /\ \/ kind = "event" /\ ThreadStep(s) /\ UNCHANGED <<counter, value, got>>
     \/ kind = "latch" /\ L!ThreadStep(s) /\ UNCHANGED <<value, got>>
     \/ kind = "promise" /\ P!ThreadStep(s) /\ UNCHANGED counter
  /\ UNCHANGED kind

MCSpec == MCInit /\ [][MCNext]_oneShot /\ \A s \in Threads : WF_oneShot(MCThreadStep(s))

\* A wait() on a latch that had to block returns only at count 0 (Latch.cpp:18-22).
OpensAtZero == L!OpensAtZero

\* Every wait() on a promise returns the value it was fulfilled with (Promise.h:7-15).
OneValue == P!OneValue

\* Once the count is 0, or the value is there, every wait() returns, although
\* the task that got so far may be overtaken before it signals the event.
Due == \/ kind = "latch" /\ counter = 0
       \/ kind = "promise" /\ value # Unset
Released == \A t \in Tasks : Due ~> (pc[t] \notin {"yield", "parked", "read"})
=============================================================================
