----------------------------- MODULE TaskStack -----------------------------
(***************************************************************************)
(* Game/Concurrency/ConcurrentTaskStack: a lock-free stack of tasks linked  *)
(* through Task::right, whose top carries a tag of a few bits that every    *)
(* successful compare-and-swap increments. A popped task may be pushed      *)
(* again at once, so a stalled operation can find the pointer it read back  *)
(* on top: only the tag tells. One action per atomic access.                *)
(***************************************************************************)
EXTENDS TaggedPointer, Sequences

CONSTANT Procs  \* the threads that push and pop

VARIABLES top,      \* [ptr, tag]
          right,    \* of each task: the one under it
          pc,       \* of each process: its next step
          current,  \* of each process: the top it has loaded
          arg,      \* of each process: the right it read (pop), its task (push)
          loose,    \* tasks that are in no stack and in no operation
          got,      \* of each process: what its last pop returned
          age       \* of each process: updates of top since it loaded it

vars == <<top, right, pc, current, arg, loose, got, age>>

Init == /\ top = NoTag
        /\ right = [n \in Nodes |-> Null]
        /\ pc = [p \in Procs |-> "idle"]
        /\ current = [p \in Procs |-> NoTag]
        /\ arg = [p \in Procs |-> Null]
        /\ loose = Nodes
        /\ got = [p \in Procs |-> Null]
        /\ age = [p \in Procs |-> 0]

Goto(p, label) == pc' = [pc EXCEPT ![p] = label]

\* current = top.load(), or the reload of a compare-and-swap that failed
Load(p) == /\ current' = [current EXCEPT ![p] = top]
           /\ age' = [age EXCEPT ![p] = 0]

\* Bugs: the tag is not masked, or not incremented.
SwapTo(p, ptr, tag) ==
  /\ top = current[p]
  /\ top' = [ptr |-> ptr, tag |-> tag]
  /\ \A q \in Procs \ {p} : pc[q] # "idle" => age[q] < MaxStale
  /\ age' = [q \in Procs |-> IF q # p /\ pc[q] # "idle" THEN age[q] + 1 ELSE 0]
SwapUntagged(p, ptr) == SwapTo(p, ptr, current[p].tag)

\* top.compare_exchange_strong(current, { ptr, current.tag() + 1 }), successful
Swap(p, ptr) ==
  /\ top = current[p]
  /\ top' = [ptr |-> ptr, tag |-> (current[p].tag + 1) % TagMod]
  /\ \A q \in Procs \ {p} : pc[q] # "idle" => age[q] < MaxStale
  /\ age' = [q \in Procs |-> IF q # p /\ pc[q] # "idle" THEN age[q] + 1 ELSE 0]

\* An operation returns; its registers are dead.
Return(p) == /\ Goto(p, "idle")
             /\ arg' = [arg EXCEPT ![p] = Null]

-----------------------------------------------------------------------------
\* pop: current = top.load()
PopLoad(p) == /\ pc[p] = "idle" /\ Load(p) /\ Goto(p, "popRead")
              /\ UNCHANGED <<top, right, arg, loose, got>>

\* pop: if (!current.get()) return nullptr; else read current.get()->right
PopRead(p) ==
  /\ pc[p] = "popRead"
  /\ \/ /\ current[p].ptr = Null
        /\ Return(p) /\ got' = [got EXCEPT ![p] = Null]
        /\ current' = [current EXCEPT ![p] = NoTag]
        /\ age' = [age EXCEPT ![p] = 0]
     \/ /\ current[p].ptr # Null
        /\ arg' = [arg EXCEPT ![p] = right[current[p].ptr]]
        /\ Goto(p, "popCas") /\ UNCHANGED <<current, got, age>>
  /\ UNCHANGED <<top, right, loose>>

\* Bug: a failed swap does not reload current.
PopCasNoReload(p) ==
  /\ pc[p] = "popCas"
  /\ \/ /\ Swap(p, arg[p])
        /\ Return(p) /\ got' = [got EXCEPT ![p] = current[p].ptr]
        /\ loose' = loose \cup {current[p].ptr}
        /\ current' = [current EXCEPT ![p] = NoTag]
     \/ /\ top # current[p] /\ Goto(p, "popRead")
        /\ UNCHANGED <<top, current, arg, loose, got, age>>
  /\ UNCHANGED right

\* pop: the compare-and-swap; a failure reloads current
PopCas(p) ==
  /\ pc[p] = "popCas"
  /\ \/ /\ Swap(p, arg[p])
        /\ Return(p) /\ got' = [got EXCEPT ![p] = current[p].ptr]
        /\ loose' = loose \cup {current[p].ptr}
        /\ current' = [current EXCEPT ![p] = NoTag]
     \/ /\ top # current[p]
        /\ Load(p) /\ arg' = [arg EXCEPT ![p] = Null]
        /\ Goto(p, "popRead") /\ UNCHANGED <<top, loose, got>>
  /\ UNCHANGED right

\* push: current = top.load(), for a task that is in no stack
PushLoad(p) == /\ pc[p] = "idle"
               /\ \E n \in loose : /\ arg' = [arg EXCEPT ![p] = n]
                                   /\ loose' = loose \ {n}
               /\ Load(p) /\ Goto(p, "pushLink")
               /\ UNCHANGED <<top, right, got>>

\* push: task->right = current.get()
PushLink(p) == /\ pc[p] = "pushLink"
               /\ right' = [right EXCEPT ![arg[p]] = current[p].ptr]
               /\ Goto(p, "pushCas")
               /\ UNCHANGED <<top, current, arg, loose, got, age>>

\* Bug: a failed swap is tried again without relinking the task.
PushCasNoRelink(p) ==
  /\ pc[p] = "pushCas"
  /\ \/ Swap(p, arg[p]) /\ Return(p) /\ current' = [current EXCEPT ![p] = NoTag]
     \/ /\ top # current[p]
        /\ Load(p) /\ UNCHANGED <<pc, top, arg>>
  /\ UNCHANGED <<right, loose, got>>

\* push: the compare-and-swap; a failure reloads current
PushCas(p) ==
  /\ pc[p] = "pushCas"
  /\ \/ Swap(p, arg[p]) /\ Return(p) /\ current' = [current EXCEPT ![p] = NoTag]
     \/ /\ top # current[p]
        /\ Load(p) /\ Goto(p, "pushLink") /\ UNCHANGED <<top, arg>>
  /\ UNCHANGED <<right, loose, got>>

Step(p) == \/ PopLoad(p) \/ PopRead(p) \/ PopCas(p)
           \/ PushLoad(p) \/ PushLink(p) \/ PushCas(p)

Next == \E p \in Procs : Step(p)

Spec == Init /\ [][Next]_vars

FairSpec == Spec /\ \A p \in Procs : WF_vars(Step(p))

-----------------------------------------------------------------------------
(* Properties.                                                              *)

TypeOK ==
  /\ top \in Tagged
  /\ right \in [Nodes -> Nodes \cup {Null}]
  /\ pc \in [Procs -> {"idle", "popRead", "popCas", "pushLink", "pushCas"}]
  /\ current \in [Procs -> Tagged]
  /\ arg \in [Procs -> Nodes \cup {Null}]
  /\ loose \in SUBSET Nodes
  /\ got \in [Procs -> Nodes \cup {Null}]
  /\ age \in [Procs -> 0 .. MaxStale]

\* The tag does its work: an operation whose compare-and-swap would succeed has
\* seen every update of top, and what it read of the list still holds, however
\* often its task has been popped and pushed again meanwhile.
SwapIsFresh ==
  \A p \in Procs : pc[p] # "idle" /\ top = current[p] =>
    /\ age[p] = 0
    /\ pc[p] = "popCas" => arg[p] = right[top.ptr]
    /\ pc[p] = "pushCas" => right[arg[p]] = top.ptr

\* The list that starts at top, and what is under the i-th task of a list.
Under(list, i) == IF i < Len(list) THEN list[i + 1] ELSE Null
IsList(list) == /\ top.ptr = Under(list, 0)
                /\ \A i \in DOMAIN list : right[list[i]] = Under(list, i)
List == CHOOSE list \in UNION {[1 .. k -> Nodes] : k \in 0 .. Cardinality(Nodes)} : IsList(list)

\* What the last operation of a process returned; a pop whose load saw null has
\* returned it.
Returned == [p \in Procs |-> IF pc[p] = "popRead" /\ current[p].ptr = Null
                               THEN Null ELSE got[p]]

\* The stack behaves as StackSpec: a pop returns the task pushed last and null
\* only when the stack is empty; no task is lost, duplicated or returned twice.
Abstract == INSTANCE StackSpec WITH stack <- List, got <- Returned
StackImplemented == Abstract!Spec

\* Lock-freedom: operations keep completing, however their swaps interfere.
Completes == \E p \in Procs : pc[p] # "idle" /\ pc'[p] = "idle"
LockFree == []<><<Completes>>_vars
=============================================================================
