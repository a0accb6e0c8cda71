-------------------------- MODULE TaskStackProofs --------------------------
(***************************************************************************)
(* ConcurrentTaskStack implements an atomic stack, for every number of      *)
(* tasks, threads and tags, as long as fewer updates of top than there are  *)
(* tags happen while an operation is stalled.                               *)
(***************************************************************************)
EXTENDS TaskStack, FiniteSetTheorems, FunctionTheorems, WellFoundedInduction, TLAPS

USE TagAssumption

(* Counting modulo the number of tags.                                      *)

\* A number below the modulus is its own remainder, whatever multiple of the
\* modulus is added to it.
LEMMA ModOfSum ==
  ASSUME NEW m \in Nat \ {0}, NEW q \in Nat, NEW r \in 0 .. m - 1
  PROVE  (m * q + r) % m = r
OBVIOUS

\* The remainder of a successor is the successor of the remainder, wrapped.
LEMMA ModSucc ==
  ASSUME NEW m \in Nat \ {0}, NEW x \in Nat
  PROVE  ((x % m) + 1) % m = (x + 1) % m
<1> DEFINE q == x \div m
           r == x % m
<1>1. x = m * q + r
  OBVIOUS
<1>2. q \in Nat /\ r \in 0 .. m - 1
  OBVIOUS
<1> HIDE DEF q, r
<1>3. CASE r + 1 < m
  <2>1. (m * q + (r + 1)) % m = r + 1
    BY <1>2, <1>3, ModOfSum
  <2>2. (m * 0 + (r + 1)) % m = r + 1
    BY <1>2, <1>3, ModOfSum
  <2> QED BY <1>1, <1>2, <2>1, <2>2 DEF r
<1>4. CASE r + 1 = m
  <2>1. (m * (q + 1) + 0) % m = 0
    BY <1>2, ModOfSum
  <2>2. (m * 1 + 0) % m = 0
    BY ModOfSum
  <2>3. m * (q + 1) = m * q + m
    BY <1>2
  <2> QED BY <1>1, <1>2, <1>4, <2>1, <2>2, <2>3 DEF r
<1> QED BY <1>2, <1>3, <1>4

\* A tag that fewer than TagMod increments bring back was not incremented.
LEMMA ModFresh ==
  ASSUME NEW m \in Nat \ {0}, NEW x \in 0 .. m - 1, NEW a \in 0 .. m - 1, (x + a) % m = x
  PROVE  a = 0
OBVIOUS

\* A nonempty set of naturals has a smallest element.
LEMMA Smallest ==
  ASSUME NEW S \in SUBSET Nat, S # {}
  PROVE  \E m \in S : \A n \in S : m <= n
<1> DEFINE R == OpToRel(<, Nat)
<1>1. IsWellFoundedOn(R, Nat)
  BY NatLessThanWellFounded
<1>2. \A x, y \in Nat : <<x, y>> \in R <=> x < y
  BY DEF OpToRel
<1> HIDE DEF R
<1>3. PICK m \in S : \A n \in S : ~ (<<n, m>> \in R)
  BY <1>1, WFMin
<1>4. \A n \in S : ~ (n < m)
  BY <1>2, <1>3
<1> QED BY <1>4

-----------------------------------------------------------------------------
(* The inductive invariant.                                                 *)

\* The processes that hold a task they are pushing.
Pushing == {p \in Procs : pc[p] \in {"pushLink", "pushCas"}}

\* A task being pushed is in the hands of one process only.
Owned == /\ \A p \in Pushing : arg[p] \in Nodes \ loose
         /\ \A p, q \in Pushing : arg[p] = arg[q] => p = q

\* The tag of top is the one an operation has loaded, advanced by every update
\* it has missed; with none missed it holds top itself.
Tagging == \A p \in Procs : pc[p] # "idle" =>
             /\ top.tag = (current[p].tag + age[p]) % TagMod
             /\ age[p] = 0 => top = current[p]

\* Before its compare-and-swap a pop has loaded a task, and what it read under
\* it holds while top has not been updated; a push has linked its task.
Linking == \A p \in Procs :
             /\ pc[p] = "popCas" => /\ current[p].ptr \in Nodes
                                    /\ age[p] = 0 => arg[p] = right[current[p].ptr]
             /\ pc[p] = "pushCas" => right[arg[p]] = current[p].ptr

\* list is what the stack holds: linked from top, each task once, none of them
\* outside the stack or in the hands of a push.
Holds(list) ==
  /\ IsList(list)
  /\ \A i, j \in DOMAIN list : list[i] = list[j] => i = j
  /\ \A i \in DOMAIN list : list[i] \notin loose /\ \A p \in Pushing : arg[p] # list[i]

IInv == TypeOK /\ Owned /\ Tagging /\ Linking /\ \E list \in Seq(Nodes) : Holds(list)

\* What is under the places of the tail of a list, and under those of a list
\* with one task more on top.
LEMMA UnderTail ==
  ASSUME NEW list \in Seq(Nodes), list # <<>>
  PROVE  /\ Tail(list) \in Seq(Nodes) /\ Head(list) = list[1] /\ 1 \in DOMAIN list
         /\ DOMAIN Tail(list) = 1 .. Len(list) - 1
         /\ \A i \in DOMAIN Tail(list) : i + 1 \in DOMAIN list /\ Tail(list)[i] = list[i + 1]
         /\ \A i \in 0 .. Len(list) - 1 : Under(Tail(list), i) = Under(list, i + 1)
<1>1. list \in Seq(Nodes) /\ Len(list) \in Nat /\ Len(list) > 0
  OBVIOUS
<1>2. Tail(list) \in Seq(Nodes) /\ Len(Tail(list)) = Len(list) - 1
  BY <1>1
<1>3. \A i \in 1 .. Len(list) - 1 : i + 1 \in DOMAIN list /\ Tail(list)[i] = list[i + 1]
  BY <1>1
<1>4. DOMAIN Tail(list) = 1 .. Len(list) - 1
  BY <1>1, <1>2
<1>5. ASSUME NEW i \in 0 .. Len(list) - 1 PROVE Under(Tail(list), i) = Under(list, i + 1)
  <2>1. CASE i < Len(list) - 1
    BY <1>1, <1>2, <1>3, <2>1 DEF Under
  <2>2. CASE i = Len(list) - 1
    BY <1>1, <1>2, <2>2 DEF Under
  <2> QED BY <1>1, <2>1, <2>2
<1> QED BY <1>1, <1>2, <1>3, <1>4, <1>5

LEMMA UnderPush ==
  ASSUME NEW list \in Seq(Nodes), NEW n \in Nodes
  PROVE  LET more == <<n>> \o list IN
         /\ more \in Seq(Nodes) /\ more # <<>> /\ more[1] = n /\ Tail(more) = list
         /\ DOMAIN more = 1 .. Len(list) + 1
         /\ \A i \in DOMAIN more : i # 1 => i - 1 \in DOMAIN list /\ more[i] = list[i - 1]
         /\ Under(more, 0) = n
         /\ \A i \in 0 .. Len(list) : Under(more, i + 1) = Under(list, i)
<1> DEFINE more == <<n>> \o list
<1>1. more \in Seq(Nodes) /\ Len(more) = Len(list) + 1 /\ Len(list) \in Nat
  OBVIOUS
<1>2. more[1] = n /\ \A i \in DOMAIN list : more[i + 1] = list[i]
  OBVIOUS
<1>3. DOMAIN more = 1 .. Len(list) + 1 /\ DOMAIN list = 1 .. Len(list)
  BY <1>1
<1>4. more # <<>> /\ Tail(more) = list
  OBVIOUS
<1> HIDE DEF more
<1>5. \A i \in DOMAIN more : i # 1 => i - 1 \in DOMAIN list /\ more[i] = list[i - 1]
  <2> SUFFICES ASSUME NEW i \in DOMAIN more, i # 1
               PROVE  i - 1 \in DOMAIN list /\ more[i] = list[i - 1]
    OBVIOUS
  <2>1. i - 1 \in DOMAIN list /\ (i - 1) + 1 = i
    BY <1>1, <1>3
  <2> QED BY <1>2, <2>1
<1>6. Under(more, 0) = n
  BY <1>1, <1>2 DEF Under
<1>7. ASSUME NEW i \in 0 .. Len(list) PROVE Under(more, i + 1) = Under(list, i)
  <2>1. i < Len(list) => i + 1 \in DOMAIN list
    BY <1>1, <1>3
  <2> QED BY <1>1, <1>2, <2>1 DEF Under
<1> QED BY <1>1, <1>2, <1>3, <1>4, <1>5, <1>6, <1>7 DEF more

\* Two lists linked from top are the same: they could first differ only under a
\* task they share.
LEMMA OneList ==
  ASSUME NEW k \in Seq(Nodes), NEW l \in Seq(Nodes), IsList(k), IsList(l)
  PROVE  k = l
<1> DEFINE D == {i \in Nat : Under(k, i) # Under(l, i)}
<1>0. Len(k) \in Nat /\ Len(l) \in Nat /\ DOMAIN k = 1 .. Len(k) /\ DOMAIN l = 1 .. Len(l)
  OBVIOUS
<1>1. \A i \in DOMAIN k : k[i] \in Nodes
  OBVIOUS
<1>2. \A i \in DOMAIN l : l[i] \in Nodes
  OBVIOUS
<1>3. D = {}
  <2> SUFFICES ASSUME D # {} PROVE FALSE
    OBVIOUS
  <2>1. PICK m \in D : \A n \in D : m <= n
    BY Smallest
  <2>2. m # 0
    BY <2>1 DEF IsList
  <2>3. m - 1 \in Nat /\ m - 1 \notin D
    BY <2>1, <2>2
  <2>4. Under(k, m - 1) = Under(l, m - 1)
    BY <2>3
  <2>5. m \in DOMAIN k => Under(k, m - 1) = k[m]
    BY <1>0 DEF Under
  <2>6. m \in DOMAIN l => Under(l, m - 1) = l[m]
    BY <1>0 DEF Under
  <2>7. m \notin DOMAIN k => Under(k, m - 1) = Null /\ Under(k, m) = Null
    BY <1>0, <2>1, <2>2 DEF Under
  <2>8. m \notin DOMAIN l => Under(l, m - 1) = Null /\ Under(l, m) = Null
    BY <1>0, <2>1, <2>2 DEF Under
  <2>9. m \in DOMAIN k <=> m \in DOMAIN l
    BY <1>1, <1>2, <2>4, <2>5, <2>6, <2>7, <2>8
  <2>10. CASE m \in DOMAIN k
    BY <2>1, <2>4, <2>5, <2>6, <2>9, <2>10 DEF IsList
  <2>11. CASE m \notin DOMAIN k
    BY <2>1, <2>7, <2>8, <2>9, <2>11
  <2> QED BY <2>10, <2>11
<1>4. \A i \in Nat : Under(k, i) = Under(l, i)
  BY <1>3
<1> HIDE DEF D
<1>5. ~ (Len(k) < Len(l))
  <2> SUFFICES ASSUME Len(k) < Len(l) PROVE FALSE
    OBVIOUS
  <2>1. Under(k, Len(k)) = Null /\ Under(l, Len(k)) = l[Len(k) + 1] /\ Len(k) + 1 \in DOMAIN l
    BY <1>0 DEF Under
  <2> QED BY <1>0, <1>2, <1>4, <2>1
<1>6. ~ (Len(l) < Len(k))
  <2> SUFFICES ASSUME Len(l) < Len(k) PROVE FALSE
    OBVIOUS
  <2>1. Under(l, Len(l)) = Null /\ Under(k, Len(l)) = k[Len(l) + 1] /\ Len(l) + 1 \in DOMAIN k
    BY <1>0 DEF Under
  <2> QED BY <1>0, <1>1, <1>4, <2>1
<1>7. Len(k) = Len(l) /\ DOMAIN k = DOMAIN l
  <2> DEFINE a == Len(k)
             b == Len(l)
  <2>1. a \in Nat /\ b \in Nat /\ ~ (a < b) /\ ~ (b < a)
    BY <1>0, <1>5, <1>6
  <2> HIDE DEF a, b
  <2>2. a = b
    BY <2>1
  <2> QED BY <1>0, <2>2 DEF a, b
<1>8. ASSUME NEW i \in 1 .. Len(k) PROVE k[i] = l[i]
  <2>1. i - 1 \in Nat /\ i - 1 < Len(k) /\ (i - 1) + 1 = i
    BY <1>0
  <2> QED BY <1>4, <1>7, <2>1 DEF Under
<1> QED BY <1>7, <1>8

\* The list of the abstract stack is the one the stack holds.
LEMMA HoldsList == \A list \in Seq(Nodes) : Holds(list) => List = list
<1> SUFFICES ASSUME NEW list \in Seq(Nodes), Holds(list) PROVE List = list
  OBVIOUS
<1> DEFINE Bounded == UNION {[1 .. k -> Nodes] : k \in 0 .. Cardinality(Nodes)}
<1>1. Len(list) \in Nat /\ list \in [1 .. Len(list) -> Nodes]
  OBVIOUS
<1>2. Len(list) <= Cardinality(Nodes)
  <2>1. list \in Injection(1 .. Len(list), Nodes)
    BY <1>1 DEF Holds, Injection, IsInjective
  <2>2. Cardinality(1 .. Len(list)) = Len(list)
    BY <1>1, FS_Interval
  <2> QED BY <2>1, <2>2, FS_Injection
<1>3. Cardinality(Nodes) \in Nat
  BY FS_CardinalityType
<1>4. list \in Bounded /\ IsList(list)
  BY <1>1, <1>2, <1>3 DEF Holds
<1>5. \A k \in Bounded : k \in Seq(Nodes)
  BY <1>3
<1>6. List \in Bounded /\ IsList(List)
  BY <1>4 DEF List
<1> QED BY <1>4, <1>5, <1>6, OneList

LEMMA HoldsListNext == (\A list \in Seq(Nodes) : Holds(list) => List = list)'
  BY HoldsList, PTL

-----------------------------------------------------------------------------
(* What the steps do to the list.                                           *)

\* A step that leaves top, the links of the list and the tasks outside it alone
\* leaves the stack as it is; a push may take a task from outside.
LEMMA HoldsKept ==
  ASSUME NEW list \in Seq(Nodes), Holds(list),
         top' = top,
         \A i \in DOMAIN list : right'[list[i]] = right[list[i]],
         loose' \subseteq loose,
         \A q \in Pushing' : arg'[q] \in loose \/ (q \in Pushing /\ arg'[q] = arg[q])
  PROVE  Holds(list)'
<1>1. IsList(list)'
  BY DEF Holds, IsList, Under
<1>2. (\A i, j \in DOMAIN list : list[i] = list[j] => i = j)'
  BY DEF Holds
<1>3. \A i \in DOMAIN list : list[i] \notin loose' /\ \A q \in Pushing' : arg'[q] # list[i]
  BY DEF Holds
<1> QED BY <1>1, <1>2, <1>3 DEF Holds

\* A compare-and-swap that succeeds has missed no update of top.
LEMMA Fresh ==
  ASSUME TypeOK, Tagging, NEW p \in Procs, pc[p] # "idle", top = current[p]
  PROVE  age[p] = 0
<1>1. top.tag \in 0 .. TagMod - 1 /\ age[p] \in 0 .. TagMod - 1
  BY DEF TypeOK, Tagged
<1>2. (top.tag + age[p]) % TagMod = top.tag
  BY DEF Tagging
<1> QED BY <1>1, <1>2, ModFresh

\* A pop that succeeds takes the first task of the list and leaves the rest.
LEMMA PopHolds ==
  ASSUME TypeOK, Owned, Tagging, Linking, NEW list \in Seq(Nodes), Holds(list),
         NEW p \in Procs, PopCas(p), top = current[p]
  PROVE  /\ list # <<>> /\ Head(list) = current[p].ptr
         /\ Holds(Tail(list))'
<1>1. /\ pc[p] = "popCas" /\ Swap(p, arg[p]) /\ pc' = [pc EXCEPT ![p] = "idle"]
      /\ arg' = [arg EXCEPT ![p] = Null] /\ right' = right
      /\ loose' = loose \cup {current[p].ptr}
  BY DEF PopCas, Return, Goto
<1>2. top.ptr \in Nodes /\ arg[p] = right[top.ptr]
  BY <1>1, Fresh DEF Linking
<1>3. list # <<>> /\ Head(list) = top.ptr /\ list[1] = top.ptr
  BY <1>2 DEF Holds, IsList, Under
<1> DEFINE rest == Tail(list)
<1>4. /\ rest \in Seq(Nodes) /\ 1 \in DOMAIN list /\ DOMAIN rest = 1 .. Len(list) - 1
      /\ \A i \in DOMAIN rest : i + 1 \in DOMAIN list /\ rest[i] = list[i + 1]
      /\ \A i \in 0 .. Len(list) - 1 : Under(rest, i) = Under(list, i + 1)
  BY <1>3, UnderTail
<1>5. \A i \in DOMAIN list : right[list[i]] = Under(list, i)
  BY DEF Holds, IsList
<1>6. Len(list) \in Nat /\ Len(list) >= 1
  BY <1>4
<1> HIDE DEF rest
<1>7. top'.ptr = Under(rest, 0)
  <2>1. top'.ptr = arg[p]
    BY <1>1 DEF Swap
  <2>2. Under(rest, 0) = Under(list, 1)
    BY <1>4, <1>6
  <2> QED BY <1>2, <1>3, <1>4, <1>5, <2>1, <2>2
<1>8. \A i \in DOMAIN rest : right'[rest[i]] = Under(rest, i)
  <2> SUFFICES ASSUME NEW i \in DOMAIN rest PROVE right'[rest[i]] = Under(rest, i)
    OBVIOUS
  <2>1. i \in 0 .. Len(list) - 1
    BY <1>4, <1>6
  <2> QED BY <1>1, <1>4, <1>5, <2>1
<1>9. IsList(rest)'
  BY <1>7, <1>8 DEF IsList, Under
<1>10. (\A i, j \in DOMAIN rest : rest[i] = rest[j] => i = j)'
  <2> SUFFICES ASSUME NEW i \in DOMAIN rest, NEW j \in DOMAIN rest, rest[i] = rest[j]
               PROVE  i = j
    OBVIOUS
  <2>1. i + 1 = j + 1
    BY <1>4 DEF Holds
  <2> QED BY <1>4, <1>6, <2>1
<1>11. ASSUME NEW i \in DOMAIN rest
       PROVE  rest[i] \notin loose' /\ \A q \in Pushing' : arg'[q] # rest[i]
  <2>1. i + 1 \in DOMAIN list /\ i + 1 # 1 /\ rest[i] = list[i + 1]
    BY <1>4, <1>6
  <2>2. rest[i] # list[1] /\ rest[i] \notin loose /\ \A q \in Pushing : arg[q] # rest[i]
    BY <1>4, <2>1 DEF Holds
  <2>3. \A q \in Pushing' : q \in Pushing /\ arg'[q] = arg[q]
    BY <1>1 DEF Pushing, TypeOK
  <2> QED BY <1>1, <1>3, <2>2, <2>3
<1>12. Holds(rest)'
  BY <1>9, <1>10, <1>11 DEF Holds
<1> QED BY <1>3, <1>12 DEF rest

\* A push that succeeds puts its task on top of the list.
LEMMA PushHolds ==
  ASSUME TypeOK, Owned, Tagging, Linking, NEW list \in Seq(Nodes), Holds(list),
         NEW p \in Procs, PushCas(p), top = current[p], NEW n, n = arg[p]
  PROVE  /\ n \in Nodes /\ \A i \in DOMAIN list : list[i] # n
         /\ Holds(<<n>> \o list)'
<1>1. /\ pc[p] = "pushCas" /\ Swap(p, arg[p]) /\ pc' = [pc EXCEPT ![p] = "idle"]
      /\ arg' = [arg EXCEPT ![p] = Null] /\ right' = right /\ loose' = loose
  BY DEF PushCas, Return, Goto
<1>2. p \in Pushing /\ arg[p] \in Nodes /\ arg[p] \notin loose /\ right[arg[p]] = top.ptr
  BY <1>1 DEF Owned, Linking, Pushing
<1>3. n = arg[p] /\ n \in Nodes
  BY <1>2
<1> DEFINE more == <<n>> \o list
<1>4. /\ more \in Seq(Nodes) /\ more[1] = n /\ DOMAIN more = 1 .. Len(list) + 1
      /\ \A i \in DOMAIN more : i # 1 => i - 1 \in DOMAIN list /\ more[i] = list[i - 1]
      /\ Under(more, 0) = n
      /\ \A i \in 0 .. Len(list) : Under(more, i + 1) = Under(list, i)
  BY <1>3, UnderPush
<1>5. Len(list) \in Nat /\ DOMAIN list = 1 .. Len(list)
  OBVIOUS
<1> HIDE DEF more
<1>6. \A i \in DOMAIN list : list[i] # n
  BY <1>2, <1>3 DEF Holds
<1>7. top'.ptr = Under(more, 0)
  BY <1>1, <1>3, <1>4 DEF Swap
<1>8. \A i \in DOMAIN more : right'[more[i]] = Under(more, i)
  <2> SUFFICES ASSUME NEW i \in DOMAIN more PROVE right'[more[i]] = Under(more, i)
    OBVIOUS
  <2>1. i - 1 \in 0 .. Len(list) /\ (i - 1) + 1 = i
    BY <1>4, <1>5
  <2>2. Under(more, i) = Under(list, i - 1)
    BY <1>4, <2>1
  <2>3. CASE i = 1
    BY <1>1, <1>2, <1>3, <1>4, <2>2, <2>3 DEF Holds, IsList
  <2>4. CASE i # 1
    BY <1>1, <1>4, <2>2, <2>4 DEF Holds, IsList
  <2> QED BY <2>3, <2>4
<1>9. IsList(more)'
  BY <1>7, <1>8 DEF IsList, Under
<1>10. (\A i, j \in DOMAIN more : more[i] = more[j] => i = j)'
  <2> SUFFICES ASSUME NEW i \in DOMAIN more, NEW j \in DOMAIN more, more[i] = more[j]
               PROVE  i = j
    OBVIOUS
  <2>1. CASE i = 1 \/ j = 1
    BY <1>4, <1>6, <2>1
  <2>2. CASE i # 1 /\ j # 1
    <3>1. i - 1 = j - 1
      BY <1>4, <2>2 DEF Holds
    <3> QED BY <1>4, <1>5, <3>1
  <2> QED BY <2>1, <2>2
<1>11. ASSUME NEW i \in DOMAIN more
       PROVE  more[i] \notin loose' /\ \A q \in Pushing' : arg'[q] # more[i]
  <2>1. \A q \in Pushing' : q # p /\ q \in Pushing /\ arg'[q] = arg[q]
    BY <1>1 DEF Pushing, TypeOK
  <2>2. CASE i = 1
    BY <1>1, <1>2, <1>3, <1>4, <2>1, <2>2 DEF Owned
  <2>3. CASE i # 1
    BY <1>1, <1>4, <2>1, <2>3 DEF Holds
  <2> QED BY <2>2, <2>3
<1>12. Holds(more)'
  BY <1>9, <1>10, <1>11 DEF Holds
<1> QED BY <1>3, <1>6, <1>12 DEF more

-----------------------------------------------------------------------------
(* Every step preserves the inductive invariant.                            *)

\* An update of top ages the operations under way and keeps their tags right.
LEMMA SwapTagging ==
  ASSUME TypeOK, Tagging, NEW p \in Procs, NEW ptr \in Nodes \cup {Null}, Swap(p, ptr),
         pc' = [pc EXCEPT ![p] = "idle"], current' = [current EXCEPT ![p] = NoTag]
  PROVE  /\ top' \in Tagged
         /\ age' \in [Procs -> 0 .. MaxStale]
         /\ \A q \in Procs : pc'[q] # "idle" =>
              /\ q # p /\ pc'[q] = pc[q] /\ current'[q] = current[q]
              /\ age'[q] > 0
         /\ Tagging'
<1>1. top = current[p] /\ top' = [ptr |-> ptr, tag |-> (top.tag + 1) % TagMod]
  BY DEF Swap
<1>2. top.tag \in 0 .. TagMod - 1 /\ (top.tag + 1) % TagMod \in 0 .. TagMod - 1
  BY DEF TypeOK, Tagged
<1>3. top' \in Tagged
  BY <1>1, <1>2 DEF Tagged
<1>4. \A q \in Procs : age[q] \in 0 .. MaxStale
  BY DEF TypeOK
<1>5. \A q \in Procs : age'[q] = IF q # p /\ pc[q] # "idle" THEN age[q] + 1 ELSE 0
  BY DEF Swap
<1>6. \A q \in Procs : q # p /\ pc[q] # "idle" => age[q] < MaxStale
  BY DEF Swap
<1>7. \A q \in Procs : age'[q] \in 0 .. MaxStale
  BY <1>4, <1>5, <1>6
<1>8. age' \in [Procs -> 0 .. MaxStale]
  BY <1>7 DEF Swap
<1>9. ASSUME NEW q \in Procs, pc'[q] # "idle"
      PROVE  q # p /\ pc'[q] = pc[q] /\ current'[q] = current[q] /\ age'[q] = age[q] + 1
  BY <1>5, <1>9 DEF TypeOK
<1>10. ASSUME NEW q \in Procs, pc'[q] # "idle"
       PROVE  top'.tag = (current'[q].tag + age'[q]) % TagMod
  <2>1. top.tag = (current[q].tag + age[q]) % TagMod
    BY <1>9, <1>10 DEF Tagging
  <2>2. current[q].tag + age[q] \in Nat
    BY <1>4 DEF TypeOK, Tagged
  <2>3. top'.tag = (current[q].tag + age[q] + 1) % TagMod
    BY <1>1, <2>1, <2>2, ModSucc
  <2>4. (current[q].tag + age[q]) + 1 = current[q].tag + (age[q] + 1)
    BY <1>4 DEF TypeOK, Tagged
  <2> QED BY <1>9, <1>10, <2>3, <2>4
<1>11. \A q \in Procs : pc'[q] # "idle" => age'[q] > 0
  BY <1>4, <1>9
<1>12. Tagging'
  BY <1>10, <1>11 DEF Tagging
<1> QED BY <1>3, <1>8, <1>9, <1>11, <1>12

\* A tag that was not incremented is itself, also modulo TagMod.
LEMMA TagNow == TypeOK => top.tag = (top.tag + 0) % TagMod
<1> SUFFICES ASSUME TypeOK PROVE top.tag = (top.tag + 0) % TagMod
  OBVIOUS
<1>1. PICK x \in 0 .. TagMod - 1 : x = top.tag
  BY DEF TypeOK, Tagged
<1>2. x % TagMod = x /\ x + 0 = x
  OBVIOUS
<1> QED BY <1>1, <1>2

LEMMA NoTagTyped == NoTag \in Tagged
  BY DEF NoTag, Tagged

LEMMA InitIInv == Init => IInv
<1> SUFFICES ASSUME Init PROVE IInv
  OBVIOUS
<1>1. TypeOK
  BY DEF Init, TypeOK, NoTag, Tagged
<1>2. Owned /\ Tagging /\ Linking
  BY DEF Init, Owned, Tagging, Linking, Pushing
<1>3. << >> \in Seq(Nodes) /\ Holds(<< >>)
  BY DEF Init, NoTag, Holds, IsList, Under
<1> QED BY <1>1, <1>2, <1>3 DEF IInv

LEMMA PopLoadIInv == ASSUME IInv, NEW p \in Procs, PopLoad(p) PROVE IInv'
<1> USE DEF PopLoad, Load, Goto
<1>1. TypeOK'
  BY DEF IInv, TypeOK
<1>2. \A q \in Procs : q # p => pc'[q] = pc[q] /\ current'[q] = current[q] /\ age'[q] = age[q]
  BY DEF IInv, TypeOK
<1>3. pc'[p] = "popRead" /\ current'[p] = top /\ age'[p] = 0
  BY DEF IInv, TypeOK
<1>4. Pushing' = Pushing
  BY <1>2, <1>3 DEF Pushing
<1>5. Owned'
  BY <1>4 DEF IInv, Owned
<1>6. top.tag = (top.tag + 0) % TagMod
  BY TagNow DEF IInv
<1>7. Tagging'
  BY <1>2, <1>3, <1>6 DEF IInv, Tagging
<1>8. Linking'
  BY <1>2, <1>3 DEF IInv, Linking
<1>9. PICK list \in Seq(Nodes) : Holds(list)
  BY DEF IInv
<1>10. Holds(list)'
  BY <1>4, <1>9, HoldsKept
<1> QED BY <1>1, <1>5, <1>7, <1>8, <1>10 DEF IInv

LEMMA PopReadIInv == ASSUME IInv, NEW p \in Procs, PopRead(p) PROVE IInv'
<1> USE DEF PopRead, Return, Goto
<1>1. TypeOK'
  <2>1. top' \in Tagged /\ right' \in [Nodes -> Nodes \cup {Null}] /\ loose' \in SUBSET Nodes
    BY NoTagTyped DEF IInv, TypeOK
  <2>2. pc' \in [Procs -> {"idle", "popRead", "popCas", "pushLink", "pushCas"}]
    BY NoTagTyped DEF IInv, TypeOK
  <2>3. current' \in [Procs -> Tagged]
    BY NoTagTyped DEF IInv, TypeOK
  <2>4. arg' \in [Procs -> Nodes \cup {Null}]
    <3>1. current[p].ptr \in Nodes \cup {Null}
      BY DEF IInv, TypeOK, Tagged
    <3>2. current[p].ptr # Null => right[current[p].ptr] \in Nodes \cup {Null}
      BY <3>1 DEF IInv, TypeOK
    <3> QED BY <3>2 DEF IInv, TypeOK
  <2>5. got' \in [Procs -> Nodes \cup {Null}]
    BY NoTagTyped DEF IInv, TypeOK
  <2>6. age' \in [Procs -> 0 .. MaxStale]
    <3>1. 0 \in 0 .. MaxStale /\ age \in [Procs -> 0 .. MaxStale]
      BY DEF IInv, TypeOK
    <3> QED BY <3>1
  <2> QED BY <2>1, <2>2, <2>3, <2>4, <2>5, <2>6 DEF TypeOK
<1>2. \A q \in Procs : q # p => /\ pc'[q] = pc[q] /\ current'[q] = current[q]
                                /\ arg'[q] = arg[q] /\ age'[q] = age[q]
  BY DEF IInv, TypeOK
<1>3. \/ pc'[p] = "idle"
      \/ /\ pc'[p] = "popCas" /\ current'[p] = current[p] /\ age'[p] = age[p]
         /\ current[p].ptr # Null /\ arg'[p] = right[current[p].ptr]
  BY DEF IInv, TypeOK
<1>4. pc[p] = "popRead" /\ current[p].ptr \in Nodes \cup {Null}
  BY DEF IInv, TypeOK, Tagged
<1>5. Pushing' = Pushing /\ p \notin Pushing
  BY <1>2, <1>3, <1>4 DEF Pushing
<1>6. Owned'
  BY <1>2, <1>5 DEF IInv, Owned, Pushing
<1>7. Tagging'
  BY <1>2, <1>3, <1>4 DEF IInv, Tagging
<1>8. Linking'
  BY <1>2, <1>3, <1>4 DEF IInv, Linking
<1>9. PICK list \in Seq(Nodes) : Holds(list)
  BY DEF IInv
<1>10. Holds(list)'
  BY <1>2, <1>5, <1>9, HoldsKept DEF Pushing
<1> QED BY <1>1, <1>6, <1>7, <1>8, <1>10 DEF IInv

LEMMA PopCasIInv == ASSUME IInv, NEW p \in Procs, PopCas(p) PROVE IInv'
<1> USE DEF PopCas, Return, Goto
<1>0. PICK list \in Seq(Nodes) : Holds(list)
  BY DEF IInv
<1>a. pc[p] = "popCas" /\ current[p].ptr \in Nodes
  BY DEF IInv, Linking
<1>1. CASE top = current[p]
  <2> USE <1>1
  <2>1. Swap(p, arg[p]) /\ arg[p] \in Nodes \cup {Null}
    BY DEF IInv, TypeOK
  <2>2. /\ top' \in Tagged /\ age' \in [Procs -> 0 .. MaxStale] /\ Tagging'
        /\ \A q \in Procs : pc'[q] # "idle" =>
             q # p /\ pc'[q] = pc[q] /\ current'[q] = current[q] /\ age'[q] > 0
    BY <2>1, SwapTagging DEF IInv
  <2>3. TypeOK'
    <3>1. top' \in Tagged /\ right' \in [Nodes -> Nodes \cup {Null}] /\ loose' \in SUBSET Nodes
      BY <2>2, <1>a, NoTagTyped DEF IInv, TypeOK
    <3>2. pc' \in [Procs -> {"idle", "popRead", "popCas", "pushLink", "pushCas"}]
      BY <2>2, <1>a, NoTagTyped DEF IInv, TypeOK
    <3>3. current' \in [Procs -> Tagged]
      BY <2>2, <1>a, NoTagTyped DEF IInv, TypeOK
    <3>4. arg' \in [Procs -> Nodes \cup {Null}]
      BY <2>2, <1>a, NoTagTyped DEF IInv, TypeOK
    <3>5. got' \in [Procs -> Nodes \cup {Null}]
      BY <2>2, <1>a, NoTagTyped DEF IInv, TypeOK
    <3>6. age' \in [Procs -> 0 .. MaxStale]
      BY <2>2, <1>a, NoTagTyped DEF IInv, TypeOK
    <3> QED BY <3>1, <3>2, <3>3, <3>4, <3>5, <3>6 DEF TypeOK
  <2>4. \A q \in Pushing' : q # p /\ q \in Pushing /\ arg'[q] = arg[q]
    BY <2>2 DEF Pushing, IInv, TypeOK
  <2>5. current[p].ptr = list[1] /\ 1 \in DOMAIN list
    BY <1>0, <1>a DEF Holds, IsList, Under
  <2>6. Owned'
    BY <1>0, <2>4, <2>5 DEF IInv, Owned, Holds
  <2>7. Linking'
    <3>1. \A q \in Procs : age'[q] > 0 => age'[q] # 0
      BY <2>2
    <3>2. \A q \in Procs : pc'[q] = "pushCas" => arg'[q] = arg[q]
      BY <2>4 DEF Pushing
    <3> QED BY <2>2, <3>1, <3>2 DEF IInv, Linking
  <2>8. Tail(list) \in Seq(Nodes) /\ Holds(Tail(list))'
    <3>1. list # << >> /\ Holds(Tail(list))'
      BY <1>0, PopHolds DEF IInv
    <3> QED BY <3>1
  <2> QED BY <2>2, <2>3, <2>6, <2>7, <2>8 DEF IInv
<1>2. CASE top # current[p]
  <2> USE <1>2 DEF Load, Swap
  <2>1. TypeOK'
    <3>1. top' \in Tagged /\ right' \in [Nodes -> Nodes \cup {Null}] /\ loose' \in SUBSET Nodes
      BY DEF IInv, TypeOK
    <3>2. pc' \in [Procs -> {"idle", "popRead", "popCas", "pushLink", "pushCas"}]
      BY DEF IInv, TypeOK
    <3>3. current' \in [Procs -> Tagged]
      BY DEF IInv, TypeOK
    <3>4. arg' \in [Procs -> Nodes \cup {Null}]
      BY DEF IInv, TypeOK
    <3>5. got' \in [Procs -> Nodes \cup {Null}]
      BY DEF IInv, TypeOK
    <3>6. age' \in [Procs -> 0 .. MaxStale]
      <4>1. 0 \in 0 .. MaxStale /\ age \in [Procs -> 0 .. MaxStale]
        BY DEF IInv, TypeOK
      <4> QED BY <4>1
    <3> QED BY <3>1, <3>2, <3>3, <3>4, <3>5, <3>6 DEF TypeOK
  <2>2. \A q \in Procs : q # p => /\ pc'[q] = pc[q] /\ current'[q] = current[q]
                                  /\ arg'[q] = arg[q] /\ age'[q] = age[q]
    BY DEF IInv, TypeOK
  <2>3. pc'[p] = "popRead" /\ current'[p] = top /\ age'[p] = 0
    BY DEF IInv, TypeOK
  <2>4. Pushing' = Pushing /\ p \notin Pushing
    BY <1>a, <2>2, <2>3 DEF Pushing
  <2>5. Owned'
    BY <2>2, <2>4 DEF IInv, Owned, Pushing
  <2>6. top.tag = (top.tag + 0) % TagMod
    BY TagNow DEF IInv
  <2>7. Tagging'
    BY <2>2, <2>3, <2>6 DEF IInv, Tagging
  <2>8. Linking'
    BY <2>2, <2>3 DEF IInv, Linking
  <2>9. Holds(list)'
    BY <1>0, <2>2, <2>4, HoldsKept DEF Pushing
  <2> QED BY <2>1, <2>5, <2>7, <2>8, <2>9 DEF IInv
<1> QED BY <1>1, <1>2

LEMMA PushLoadIInv == ASSUME IInv, NEW p \in Procs, PushLoad(p) PROVE IInv'
<1> USE DEF PushLoad, Load, Goto
<1>0. PICK list \in Seq(Nodes) : Holds(list)
  BY DEF IInv
<1>1. PICK n \in loose : arg' = [arg EXCEPT ![p] = n] /\ loose' = loose \ {n}
  OBVIOUS
<1>2. TypeOK'
  BY <1>1 DEF IInv, TypeOK
<1>3. \A q \in Procs : q # p => /\ pc'[q] = pc[q] /\ current'[q] = current[q]
                                /\ arg'[q] = arg[q] /\ age'[q] = age[q]
  BY <1>1 DEF IInv, TypeOK
<1>4. pc'[p] = "pushLink" /\ current'[p] = top /\ age'[p] = 0 /\ arg'[p] = n
  BY <1>1 DEF IInv, TypeOK
<1>5. \A q \in Pushing' : q = p \/ (q # p /\ q \in Pushing /\ arg'[q] = arg[q])
  BY <1>3 DEF Pushing
<1>6. n \in Nodes /\ \A q \in Pushing : arg[q] # n
  BY <1>1 DEF IInv, TypeOK, Owned
<1>7. Owned'
  BY <1>1, <1>4, <1>5, <1>6 DEF IInv, Owned
<1>8. top.tag = (top.tag + 0) % TagMod
  BY TagNow DEF IInv
<1>9. Tagging'
  BY <1>3, <1>4, <1>8 DEF IInv, Tagging
<1>10. Linking'
  BY <1>3, <1>4 DEF IInv, Linking
<1>11. Holds(list)'
  BY <1>0, <1>1, <1>4, <1>5, HoldsKept
<1> QED BY <1>2, <1>7, <1>9, <1>10, <1>11 DEF IInv

LEMMA PushLinkIInv == ASSUME IInv, NEW p \in Procs, PushLink(p) PROVE IInv'
<1> USE DEF PushLink, Goto
<1>0. PICK list \in Seq(Nodes) : Holds(list)
  BY DEF IInv
<1>1. p \in Pushing /\ arg[p] \in Nodes
  BY DEF Pushing, IInv, Owned
<1>2. TypeOK'
  BY <1>1 DEF IInv, TypeOK, Tagged
<1>3. pc'[p] = "pushCas" /\ \A q \in Procs : q # p => pc'[q] = pc[q]
  BY DEF IInv, TypeOK
<1>4. /\ right'[arg[p]] = current[p].ptr
      /\ \A n \in Nodes : n # arg[p] => right'[n] = right[n]
  BY <1>1 DEF IInv, TypeOK
<1>5. Pushing' = Pushing
  BY <1>1, <1>3 DEF Pushing
<1>6. Owned'
  BY <1>5 DEF IInv, Owned
<1>7. Tagging'
  BY <1>3 DEF IInv, Tagging
<1>8. Linking'
  <2>1. ASSUME NEW q \in Procs, pc'[q] = "popCas"
        PROVE  current[q].ptr \in Nodes /\ (age[q] = 0 => arg[q] = right'[current[q].ptr])
    <3>1. q # p /\ pc[q] = "popCas"
      BY <1>3, <2>1
    <3>2. current[q].ptr \in Nodes /\ (age[q] = 0 => arg[q] = right[current[q].ptr])
      BY <3>1 DEF IInv, Linking
    <3>3. age[q] = 0 => current[q].ptr = list[1] /\ 1 \in DOMAIN list
      BY <1>0, <3>1, <3>2 DEF IInv, Tagging, Holds, IsList, Under
    <3>4. age[q] = 0 => current[q].ptr # arg[p]
      BY <1>0, <1>1, <3>3 DEF Holds
    <3> QED BY <1>4, <3>2, <3>4
  <2>2. ASSUME NEW q \in Procs, pc'[q] = "pushCas"
        PROVE  right'[arg[q]] = current[q].ptr
    <3>1. CASE q = p
      BY <1>4, <3>1
    <3>2. CASE q # p
      <4>1. pc[q] = "pushCas" /\ q \in Pushing
        BY <1>3, <2>2, <3>2 DEF Pushing
      <4>2. arg[q] \in Nodes /\ arg[q] # arg[p]
        BY <1>1, <3>2, <4>1 DEF IInv, Owned
      <4> QED BY <1>4, <4>1, <4>2 DEF IInv, Linking
    <3> QED BY <3>1, <3>2
  <2> QED BY <2>1, <2>2 DEF Linking
<1>9. Holds(list)'
  <2>1. \A i \in DOMAIN list : list[i] \in Nodes /\ list[i] # arg[p]
    BY <1>0, <1>1 DEF Holds
  <2> QED BY <1>0, <1>4, <1>5, <2>1, HoldsKept
<1> QED BY <1>2, <1>6, <1>7, <1>8, <1>9 DEF IInv

LEMMA PushCasIInv == ASSUME IInv, NEW p \in Procs, PushCas(p) PROVE IInv'
<1> USE DEF PushCas, Return, Goto
<1>0. PICK list \in Seq(Nodes) : Holds(list)
  BY DEF IInv
<1>a. pc[p] = "pushCas" /\ p \in Pushing /\ arg[p] \in Nodes
  BY DEF IInv, Pushing, Owned
<1>1. CASE top = current[p]
  <2> USE <1>1
  <2>1. Swap(p, arg[p]) /\ arg[p] \in Nodes \cup {Null}
    BY DEF IInv, TypeOK
  <2>2. /\ top' \in Tagged /\ age' \in [Procs -> 0 .. MaxStale] /\ Tagging'
        /\ \A q \in Procs : pc'[q] # "idle" =>
             q # p /\ pc'[q] = pc[q] /\ current'[q] = current[q] /\ age'[q] > 0
    BY <2>1, SwapTagging DEF IInv
  <2>3. TypeOK'
    <3>1. top' \in Tagged /\ right' \in [Nodes -> Nodes \cup {Null}] /\ loose' \in SUBSET Nodes
      BY <2>2, <1>a, NoTagTyped DEF IInv, TypeOK
    <3>2. pc' \in [Procs -> {"idle", "popRead", "popCas", "pushLink", "pushCas"}]
      BY <2>2, <1>a, NoTagTyped DEF IInv, TypeOK
    <3>3. current' \in [Procs -> Tagged]
      BY <2>2, <1>a, NoTagTyped DEF IInv, TypeOK
    <3>4. arg' \in [Procs -> Nodes \cup {Null}]
      BY <2>2, <1>a, NoTagTyped DEF IInv, TypeOK
    <3>5. got' \in [Procs -> Nodes \cup {Null}]
      BY <2>2, <1>a, NoTagTyped DEF IInv, TypeOK
    <3>6. age' \in [Procs -> 0 .. MaxStale]
      BY <2>2, <1>a, NoTagTyped DEF IInv, TypeOK
    <3> QED BY <3>1, <3>2, <3>3, <3>4, <3>5, <3>6 DEF TypeOK
  <2>4. \A q \in Pushing' : q # p /\ q \in Pushing /\ arg'[q] = arg[q]
    BY <2>2 DEF Pushing, IInv, TypeOK
  <2>6. Owned'
    BY <2>4 DEF IInv, Owned
  <2>7. Linking'
    <3>1. \A q \in Procs : age'[q] > 0 => age'[q] # 0
      BY <2>2
    <3>2. \A q \in Procs : pc'[q] = "pushCas" => arg'[q] = arg[q]
      BY <2>4 DEF Pushing
    <3> QED BY <2>2, <3>1, <3>2 DEF IInv, Linking
  <2>8. PICK n : n = arg[p] /\ n \in Nodes
    BY <1>a
  <2>9. <<n>> \o list \in Seq(Nodes) /\ Holds(<<n>> \o list)'
    <3>1. Holds(<<n>> \o list)'
      BY <1>0, <2>8, PushHolds DEF IInv
    <3> QED BY <2>8, <3>1
  <2> QED BY <2>2, <2>3, <2>6, <2>7, <2>9 DEF IInv
<1>2. CASE top # current[p]
  <2> USE <1>2 DEF Load, Swap
  <2>1. TypeOK'
    <3>1. top' \in Tagged /\ right' \in [Nodes -> Nodes \cup {Null}] /\ loose' \in SUBSET Nodes
      BY DEF IInv, TypeOK
    <3>2. pc' \in [Procs -> {"idle", "popRead", "popCas", "pushLink", "pushCas"}]
      BY DEF IInv, TypeOK
    <3>3. current' \in [Procs -> Tagged]
      BY DEF IInv, TypeOK
    <3>4. arg' \in [Procs -> Nodes \cup {Null}]
      BY DEF IInv, TypeOK
    <3>5. got' \in [Procs -> Nodes \cup {Null}]
      BY DEF IInv, TypeOK
    <3>6. age' \in [Procs -> 0 .. MaxStale]
      <4>1. 0 \in 0 .. MaxStale /\ age \in [Procs -> 0 .. MaxStale]
        BY DEF IInv, TypeOK
      <4> QED BY <4>1
    <3> QED BY <3>1, <3>2, <3>3, <3>4, <3>5, <3>6 DEF TypeOK
  <2>2. \A q \in Procs : q # p => pc'[q] = pc[q] /\ current'[q] = current[q] /\ age'[q] = age[q]
    BY DEF IInv, TypeOK
  <2>3. pc'[p] = "pushLink" /\ current'[p] = top /\ age'[p] = 0
    BY DEF IInv, TypeOK
  <2>4. Pushing' = Pushing
    BY <1>a, <2>2, <2>3 DEF Pushing
  <2>5. Owned'
    BY <2>4 DEF IInv, Owned
  <2>6. top.tag = (top.tag + 0) % TagMod
    BY TagNow DEF IInv
  <2>7. Tagging'
    BY <2>2, <2>3, <2>6 DEF IInv, Tagging
  <2>8. Linking'
    BY <2>2, <2>3 DEF IInv, Linking
  <2>9. Holds(list)'
    BY <1>0, <2>4, HoldsKept
  <2> QED BY <2>1, <2>5, <2>7, <2>8, <2>9 DEF IInv
<1> QED BY <1>1, <1>2

LEMMA NextIInv == IInv /\ [Next]_vars => IInv'
<1> SUFFICES ASSUME IInv, [Next]_vars PROVE IInv'
  OBVIOUS
<1>1. CASE UNCHANGED vars
  <2> USE <1>1 DEF vars
  <2>1. TypeOK'
    <3>1. top' \in Tagged /\ right' \in [Nodes -> Nodes \cup {Null}] /\ loose' \in SUBSET Nodes
      BY DEF IInv, TypeOK
    <3>2. pc' \in [Procs -> {"idle", "popRead", "popCas", "pushLink", "pushCas"}]
      BY DEF IInv, TypeOK
    <3>3. current' \in [Procs -> Tagged]
      BY DEF IInv, TypeOK
    <3>4. arg' \in [Procs -> Nodes \cup {Null}]
      BY DEF IInv, TypeOK
    <3>5. got' \in [Procs -> Nodes \cup {Null}]
      BY DEF IInv, TypeOK
    <3>6. age' \in [Procs -> 0 .. MaxStale]
      <4>1. 0 \in 0 .. MaxStale /\ age \in [Procs -> 0 .. MaxStale]
        BY DEF IInv, TypeOK
      <4> QED BY <4>1
    <3> QED BY <3>1, <3>2, <3>3, <3>4, <3>5, <3>6 DEF TypeOK
  <2>2. Owned' /\ Tagging' /\ Linking'
    BY DEF IInv, Owned, Pushing, Tagging, Linking
  <2>3. PICK list \in Seq(Nodes) : Holds(list)
    BY DEF IInv
  <2>4. Pushing' = Pushing
    BY DEF Pushing
  <2>5. Holds(list)'
    BY <2>3, <2>4, HoldsKept
  <2> QED BY <2>1, <2>2, <2>5 DEF IInv
<1>2. ASSUME NEW p \in Procs, Step(p) PROVE IInv'
  BY <1>2, PopLoadIInv, PopReadIInv, PopCasIInv, PushLoadIInv, PushLinkIInv, PushCasIInv DEF Step
<1> QED BY <1>1, <1>2 DEF Next

LEMMA SpecIInv == Spec => []IInv
  BY InitIInv, NextIInv, PTL DEF Spec

-----------------------------------------------------------------------------
(* The theorems.                                                            *)

\* A compare-and-swap that succeeds has seen every update of top, and what its
\* operation read of the list still holds, however often the tasks it has seen
\* were popped and pushed again: the tags of ConcurrentTaskStack do their work
\* while fewer updates than tags fall into one operation.
THEOREM TagsGuardSwaps == Spec => []SwapIsFresh
<1>1. IInv => SwapIsFresh
  <2> SUFFICES ASSUME IInv, NEW p \in Procs, pc[p] # "idle", top = current[p]
               PROVE  /\ age[p] = 0
                      /\ pc[p] = "popCas" => arg[p] = right[top.ptr]
                      /\ pc[p] = "pushCas" => right[arg[p]] = top.ptr
    BY DEF SwapIsFresh
  <2>1. age[p] = 0
    BY Fresh DEF IInv
  <2> QED BY <2>1 DEF IInv, Linking
<1> QED BY <1>1, SpecIInv, PTL

\* A step that leaves the list and what the operations returned.
LEMMA Stutter ==
  ASSUME IInv, NEW list \in Seq(Nodes), Holds(list), Holds(list)', Returned' = Returned
  PROVE  UNCHANGED Abstract!vars
<1>1. (\A l \in Seq(Nodes) : Holds(l) => List = l)'
  BY HoldsListNext
<1>2. List = list /\ List' = list
  BY <1>1, HoldsList
<1> QED BY <1>2 DEF Abstract!vars

\* A load that finds null is a pop of the empty stack.
LEMMA LoadEmpty ==
  ASSUME IInv, NEW p \in Procs, UNCHANGED <<top, right, loose, got>>,
         pc' = [pc EXCEPT ![p] = "popRead"], current' = [current EXCEPT ![p] = top],
         pc[p] # "popRead", p \notin Pushing,
         \A q \in Pushing : arg'[q] = arg[q]
  PROVE  [Abstract!Next]_(Abstract!vars)
<1>0. PICK list \in Seq(Nodes) : Holds(list)
  BY DEF IInv
<1>1. \A q \in Procs : q # p => pc'[q] = pc[q] /\ current'[q] = current[q]
  BY DEF IInv, TypeOK
<1>2. pc'[p] = "popRead" /\ current'[p] = top
  BY DEF IInv, TypeOK
<1>3. Pushing' = Pushing
  BY <1>1, <1>2 DEF Pushing
<1>4. Holds(list)'
  BY <1>0, <1>3, HoldsKept
<1>5. (\A l \in Seq(Nodes) : Holds(l) => List = l)'
  BY HoldsListNext
<1>6. List = list /\ List' = list
  BY <1>0, <1>4, <1>5, HoldsList
<1>7. CASE top.ptr = Null
  <2>1. list = << >>
    BY <1>0, <1>7 DEF Holds, IsList, Under
  <2>2. Returned' = [Returned EXCEPT ![p] = Null]
    BY <1>1, <1>2, <1>7 DEF Returned
  <2>3. Abstract!PopEmpty(p)
    BY <1>6, <2>1, <2>2 DEF Abstract!PopEmpty
  <2> QED BY <2>3 DEF Abstract!Next
<1>8. CASE top.ptr # Null
  <2>1. Returned' = Returned
    BY <1>1, <1>2, <1>8 DEF Returned
  <2> QED BY <1>0, <1>4, <2>1, Stutter
<1> QED BY <1>7, <1>8

\* The lock-free stack of ConcurrentTaskStack implements a stack with atomic
\* operations: a pop returns the task pushed last, null only when the stack is
\* empty at an instant of the pop; no task is lost, duplicated or returned twice.
THEOREM AtomicStack == Spec => StackImplemented
<1>1. Init => Abstract!Init
  <2> SUFFICES ASSUME Init PROVE Abstract!Init
    OBVIOUS
  <2>1. << >> \in Seq(Nodes) /\ Holds(<< >>)
    BY DEF Init, NoTag, Holds, IsList, Under
  <2>2. List = << >>
    BY <2>1, HoldsList
  <2>3. Returned = [p \in Procs |-> Null]
    BY DEF Init, Returned
  <2> QED BY <2>2, <2>3 DEF Abstract!Init
<1>2. IInv /\ [Next]_vars => [Abstract!Next]_(Abstract!vars)
  <2> SUFFICES ASSUME IInv, [Next]_vars PROVE [Abstract!Next]_(Abstract!vars)
    OBVIOUS
  <2>0. PICK list \in Seq(Nodes) : Holds(list)
    BY DEF IInv
  <2>1. CASE UNCHANGED vars
    BY <2>1 DEF vars, Abstract!vars, List, Returned, IsList, Under
  <2>2. (\A l \in Seq(Nodes) : Holds(l) => List = l)'
    BY HoldsListNext
  <2>3. List = list
    BY <2>0, HoldsList
  <2>4. ASSUME NEW p \in Procs, PopLoad(p) PROVE [Abstract!Next]_(Abstract!vars)
    BY <2>4, LoadEmpty DEF PopLoad, Load, Goto, Pushing
  <2>5. ASSUME NEW p \in Procs, PopRead(p) PROVE [Abstract!Next]_(Abstract!vars)
    <3>1. \A q \in Procs : q # p =>
            pc'[q] = pc[q] /\ current'[q] = current[q] /\ arg'[q] = arg[q] /\ got'[q] = got[q]
      BY <2>5 DEF PopRead, Return, Goto, IInv, TypeOK
    <3>2. \/ pc'[p] = "idle" /\ current[p].ptr = Null /\ got'[p] = Null
          \/ pc'[p] = "popCas" /\ current[p].ptr # Null /\ got'[p] = got[p]
      BY <2>5 DEF PopRead, Return, Goto, IInv, TypeOK
    <3>3. pc[p] = "popRead"
      BY <2>5 DEF PopRead
    <3>4. Returned' = Returned
      BY <3>1, <3>2, <3>3 DEF Returned
    <3>5. Pushing' = Pushing /\ p \notin Pushing
      BY <3>1, <3>2, <3>3 DEF Pushing
    <3>6. Holds(list)'
      BY <2>0, <2>5, <3>1, <3>5, HoldsKept DEF PopRead, Pushing
    <3> QED BY <2>0, <3>4, <3>6, Stutter
  <2>6. ASSUME NEW p \in Procs, PopCas(p) PROVE [Abstract!Next]_(Abstract!vars)
    <3>1. CASE top = current[p]
      <4>1. list # << >> /\ Head(list) = current[p].ptr /\ Holds(Tail(list))'
        BY <2>0, <2>6, <3>1, PopHolds DEF IInv
      <4>2. Tail(list) \in Seq(Nodes)
        BY <4>1
      <4>3. List' = Tail(list)
        BY <2>2, <4>1, <4>2
      <4>4. \A q \in Procs : q # p =>
              pc'[q] = pc[q] /\ current'[q] = current[q] /\ got'[q] = got[q]
        BY <2>6, <3>1 DEF PopCas, Return, Goto, IInv, TypeOK
      <4>5. pc'[p] = "idle" /\ got'[p] = current[p].ptr
        BY <2>6, <3>1 DEF PopCas, Return, Goto, IInv, TypeOK
      <4>6. Returned' = [Returned EXCEPT ![p] = Head(List)]
        BY <2>3, <4>1, <4>4, <4>5 DEF Returned
      <4>7. Abstract!Pop(p)
        BY <2>3, <4>1, <4>3, <4>6 DEF Abstract!Pop
      <4> QED BY <4>7 DEF Abstract!Next
    <3>2. CASE top # current[p]
      <4>1. \A q \in Pushing : q # p
        BY <2>6 DEF PopCas, Pushing
      <4> QED BY <2>6, <3>2, <4>1, LoadEmpty DEF PopCas, Load, Goto, Swap, IInv, TypeOK, Pushing
    <3> QED BY <3>1, <3>2
  <2>7. ASSUME NEW p \in Procs, PushLoad(p) PROVE [Abstract!Next]_(Abstract!vars)
    <3>1. PICK n \in loose : arg' = [arg EXCEPT ![p] = n] /\ loose' = loose \ {n}
      BY <2>7 DEF PushLoad
    <3>2. \A q \in Procs : q # p =>
            pc'[q] = pc[q] /\ current'[q] = current[q] /\ arg'[q] = arg[q]
      BY <2>7, <3>1 DEF PushLoad, Load, Goto, IInv, TypeOK
    <3>3. pc[p] = "idle" /\ pc'[p] = "pushLink" /\ arg'[p] = n
      BY <2>7, <3>1 DEF PushLoad, Goto, IInv, TypeOK
    <3>4. Returned' = Returned
      BY <2>7, <3>2, <3>3 DEF Returned, PushLoad
    <3>5. \A q \in Pushing' : arg'[q] \in loose \/ (q \in Pushing /\ arg'[q] = arg[q])
      BY <3>2, <3>3 DEF Pushing
    <3>6. Holds(list)'
      BY <2>0, <2>7, <3>1, <3>5, HoldsKept DEF PushLoad, Load
    <3> QED BY <2>0, <3>4, <3>6, Stutter
  <2>8. ASSUME NEW p \in Procs, PushLink(p) PROVE [Abstract!Next]_(Abstract!vars)
    <3>1. pc[p] = "pushLink" /\ pc'[p] = "pushCas" /\ \A q \in Procs : q # p => pc'[q] = pc[q]
      BY <2>8 DEF PushLink, Goto, IInv, TypeOK
    <3>2. Returned' = Returned
      BY <2>8, <3>1 DEF Returned, PushLink
    <3>3. Pushing' = Pushing /\ p \in Pushing
      BY <3>1 DEF Pushing
    <3>4. \A i \in DOMAIN list : list[i] \in Nodes /\ list[i] # arg[p]
      BY <2>0, <3>3 DEF Holds
    <3>5. \A i \in DOMAIN list : right'[list[i]] = right[list[i]]
      BY <2>8, <3>4 DEF PushLink, IInv, TypeOK
    <3>6. Holds(list)'
      BY <2>0, <2>8, <3>3, <3>5, HoldsKept DEF PushLink
    <3> QED BY <2>0, <3>2, <3>6, Stutter
  <2>9. ASSUME NEW p \in Procs, PushCas(p) PROVE [Abstract!Next]_(Abstract!vars)
    <3>0. pc[p] = "pushCas" /\ pc'[p] \in {"idle", "pushLink"}
          /\ \A q \in Procs : q # p => pc'[q] = pc[q] /\ current'[q] = current[q]
      BY <2>9 DEF PushCas, Return, Goto, Load, IInv, TypeOK
    <3>1. Returned' = Returned
      BY <2>9, <3>0 DEF Returned, PushCas
    <3>2. CASE top = current[p]
      <4>1. PICK n : n = arg[p]
        OBVIOUS
      <4>2. n \in Nodes /\ (\A i \in DOMAIN list : list[i] # n) /\ Holds(<<n>> \o list)'
        BY <2>0, <2>9, <3>2, <4>1, PushHolds DEF IInv
      <4>3. <<n>> \o list \in Seq(Nodes)
        BY <4>2
      <4>4. List' = <<n>> \o list
        BY <2>2, <4>2, <4>3
      <4>5. Abstract!Push(n)
        BY <2>3, <3>1, <4>2, <4>4 DEF Abstract!Push
      <4> QED BY <4>2, <4>5 DEF Abstract!Next
    <3>3. CASE top # current[p]
      <4>1. UNCHANGED <<top, right, loose, arg>> /\ pc'[p] = "pushLink"
        BY <2>9, <3>3 DEF PushCas, Swap, Goto, IInv, TypeOK
      <4>2. Pushing' = Pushing
        BY <3>0, <4>1 DEF Pushing
      <4>3. Holds(list)'
        BY <2>0, <4>1, <4>2, HoldsKept
      <4> QED BY <2>0, <3>1, <4>3, Stutter
    <3> QED BY <3>2, <3>3
  <2> QED BY <2>1, <2>4, <2>5, <2>6, <2>7, <2>8, <2>9 DEF Next, Step
<1> QED BY <1>1, <1>2, SpecIInv, PTL DEF Spec, StackImplemented, Abstract!Spec
=============================================================================
