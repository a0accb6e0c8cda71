-------------------------- MODULE SchedulerProofs --------------------------
(***************************************************************************)
(* Every worker of Scheduler is in one place, for every number of tasks and *)
(* of kernel blocks.                                                        *)
(***************************************************************************)
EXTENDS Scheduler, FiniteSetTheorems, WellFoundedInduction, TLAPS

USE SchedulerAssumption

-----------------------------------------------------------------------------
(* Sequences without duplicates, by their sets of elements.                 *)

\* A sequence over X that has no element twice.
Lists(X) == {l \in Seq(X) : IsInjective(l)}

LEMMA AppendList ==
  ASSUME NEW X, NEW l \in Lists(X), NEW x \in X, x \notin ToSet(l)
  PROVE  Append(l, x) \in Lists(X) /\ ToSet(Append(l, x)) = ToSet(l) \cup {x}
<1> DEFINE m == Append(l, x)
<1>1. l \in Seq(X) /\ Len(l) \in Nat /\ DOMAIN l = 1 .. Len(l)
  BY DEF Lists
<1>2. /\ m \in Seq(X) /\ DOMAIN m = 1 .. Len(l) + 1 /\ m[Len(l) + 1] = x
      /\ \A i \in DOMAIN l : m[i] = l[i] /\ l[i] \in ToSet(l)
  BY <1>1 DEF ToSet
<1> HIDE DEF m
<1>3. \A i \in DOMAIN m : i \in DOMAIN l \/ i = Len(l) + 1
  BY <1>1, <1>2
<1>4. IsInjective(m)
  <2> SUFFICES ASSUME NEW i \in DOMAIN m, NEW j \in DOMAIN m, m[i] = m[j] PROVE i = j
    BY DEF IsInjective
  <2>1. \A a, b \in DOMAIN l : l[a] = l[b] => a = b BY DEF Lists, IsInjective
  <2> QED BY <1>2, <1>3, <2>1
<1>5. ToSet(m) = ToSet(l) \cup {x}
  <2>1. Len(l) + 1 \in DOMAIN m /\ DOMAIN l \subseteq DOMAIN m BY <1>1, <1>2
  <2> QED BY <1>2, <1>3, <2>1 DEF ToSet
<1> QED BY <1>2, <1>4, <1>5 DEF m, Lists

LEMMA FrontList ==
  ASSUME NEW X, NEW l \in Lists(X), l # <<>>
  PROVE  /\ Last(l) \in ToSet(l) /\ Last(l) \in X
         /\ Front(l) \in Lists(X) /\ ToSet(Front(l)) = ToSet(l) \ {Last(l)}
<1> DEFINE m == Front(l)
<1>1. l \in Seq(X) /\ Len(l) \in Nat /\ DOMAIN l = 1 .. Len(l) /\ Len(l) # 0
  BY DEF Lists
<1>2. m \in Seq(X) /\ DOMAIN m = 1 .. Len(l) - 1 /\ \A i \in DOMAIN m : m[i] = l[i]
  BY <1>1 DEF Front
<1> HIDE DEF m
<1>3. \A a, b \in DOMAIN l : l[a] = l[b] => a = b BY DEF Lists, IsInjective
<1>4. DOMAIN m \subseteq DOMAIN l /\ Len(l) \in DOMAIN l /\ Len(l) \notin DOMAIN m
  BY <1>1, <1>2
<1>5. \A i \in DOMAIN l : i \in DOMAIN m \/ i = Len(l) BY <1>1, <1>2
<1>6. IsInjective(m) BY <1>2, <1>3, <1>4 DEF IsInjective
<1>7. ToSet(m) = ToSet(l) \ {l[Len(l)]} BY <1>2, <1>3, <1>4, <1>5 DEF ToSet
<1>8. l[Len(l)] \in ToSet(l) /\ l[Len(l)] \in X BY <1>1, <1>4 DEF ToSet
<1> QED BY <1>2, <1>6, <1>7, <1>8 DEF m, Lists, Last

LEMMA TailList ==
  ASSUME NEW X, NEW l \in Lists(X), l # <<>>
  PROVE  /\ Head(l) \in ToSet(l) /\ Head(l) \in X
         /\ Tail(l) \in Lists(X) /\ ToSet(Tail(l)) = ToSet(l) \ {Head(l)}
<1> DEFINE m == Tail(l)
<1>1. l \in Seq(X) /\ Len(l) \in Nat /\ DOMAIN l = 1 .. Len(l) /\ Len(l) # 0
  BY DEF Lists
<1>2. /\ m \in Seq(X) /\ DOMAIN m = 1 .. Len(l) - 1
      /\ \A i \in DOMAIN m : i + 1 \in DOMAIN l /\ i \in Nat /\ m[i] = l[i + 1]
  BY <1>1
<1> HIDE DEF m
<1>3. \A a, b \in DOMAIN l : l[a] = l[b] => a = b BY DEF Lists, IsInjective
<1>4. 1 \in DOMAIN l /\ \A i \in DOMAIN m : i + 1 # 1 BY <1>1, <1>2
<1>5. \A i \in DOMAIN l : i = 1 \/ (i - 1 \in DOMAIN m /\ m[i - 1] = l[i])
  <2>1. \A i \in DOMAIN l : i = 1 \/ i - 1 \in DOMAIN m BY <1>1, <1>2
  <2>2. \A i \in DOMAIN l : (i - 1) + 1 = i BY <1>1
  <2> QED BY <1>2, <2>1, <2>2
<1>6. IsInjective(m)
  <2> SUFFICES ASSUME NEW i \in DOMAIN m, NEW j \in DOMAIN m, m[i] = m[j] PROVE i = j
    BY DEF IsInjective
  <2>1. i + 1 = j + 1 BY <1>2, <1>3
  <2> QED BY <1>2, <2>1
<1>7. ToSet(m) = ToSet(l) \ {l[1]} BY <1>2, <1>3, <1>4, <1>5 DEF ToSet
<1>8. Head(l) = l[1] /\ l[1] \in ToSet(l) /\ l[1] \in X BY <1>1, <1>4 DEF ToSet
<1> QED BY <1>2, <1>6, <1>7, <1>8 DEF m, Lists

LEMMA ConcatList ==
  ASSUME NEW X, NEW l \in Lists(X), NEW m \in Lists(X), ToSet(l) \cap ToSet(m) = {}
  PROVE  l \o m \in Lists(X) /\ ToSet(l \o m) = ToSet(l) \cup ToSet(m)
<1> DEFINE c == l \o m
           a == Len(l)
           b == Len(m)
<1>1. /\ l \in Seq(X) /\ a \in Nat /\ DOMAIN l = 1 .. a
      /\ m \in Seq(X) /\ b \in Nat /\ DOMAIN m = 1 .. b
  BY DEF Lists
<1>2. /\ c \in Seq(X) /\ DOMAIN c = 1 .. a + b
      /\ \A i \in 1 .. a + b : c[i] = IF i <= a THEN l[i] ELSE m[i - a]
  BY <1>1
<1> HIDE DEF c, a, b
<1>3. \A i \in DOMAIN c : \/ i \in DOMAIN l /\ c[i] = l[i] /\ c[i] \in ToSet(l)
                          \/ /\ i - a \in DOMAIN m /\ i \notin DOMAIN l
                             /\ c[i] = m[i - a] /\ c[i] \in ToSet(m)
  <2> TAKE i \in DOMAIN c
  <2>1. CASE i <= a
    <3>1. i \in DOMAIN l BY <1>1, <1>2, <2>1
    <3> QED BY <1>2, <2>1, <3>1 DEF ToSet
  <2>2. CASE ~ (i <= a)
    <3>1. i - a \in DOMAIN m /\ i \notin DOMAIN l BY <1>1, <1>2, <2>2
    <3> QED BY <1>2, <2>2, <3>1 DEF ToSet
  <2> QED BY <2>1, <2>2
<1>4. /\ \A i \in DOMAIN l : i \in DOMAIN c /\ c[i] = l[i]
      /\ \A i \in DOMAIN m : i + a \in DOMAIN c /\ c[i + a] = m[i]
  <2>1. \A i \in DOMAIN l : i \in DOMAIN c /\ i <= a BY <1>1, <1>2
  <2>2. \A i \in DOMAIN m : i + a \in DOMAIN c /\ ~ (i + a <= a) /\ (i + a) - a = i
    BY <1>1, <1>2
  <2> QED BY <1>2, <2>1, <2>2
<1>5. IsInjective(c)
  <2> SUFFICES ASSUME NEW i \in DOMAIN c, NEW j \in DOMAIN c, c[i] = c[j] PROVE i = j
    BY DEF IsInjective
  <2>1. /\ \A x, y \in DOMAIN l : l[x] = l[y] => x = y
        /\ \A x, y \in DOMAIN m : m[x] = m[y] => x = y
    BY DEF Lists, IsInjective
  <2>2. i \in Nat /\ j \in Nat BY <1>1, <1>2
  <2>3. i - a = j - a => i = j BY <1>1, <2>2
  <2> QED BY <1>3, <2>1, <2>3
<1>6. ToSet(c) = ToSet(l) \cup ToSet(m)
  <2>1. ToSet(c) \subseteq ToSet(l) \cup ToSet(m) BY <1>3 DEF ToSet
  <2>2. ToSet(l) \subseteq ToSet(c) /\ ToSet(m) \subseteq ToSet(c) BY <1>4 DEF ToSet
  <2> QED BY <2>1, <2>2
<1> QED BY <1>2, <1>5, <1>6 DEF c, Lists

\* SetToSeq enumerates a finite set.
LEMMA SetToSeqList ==
  ASSUME NEW X, NEW S \in SUBSET X, IsFiniteSet(S)
  PROVE  SetToSeq(S) \in Lists(X) /\ ToSet(SetToSeq(S)) = S
<1> DEFINE n == Cardinality(S)
           f == SetToSeq(S)
<1>1. n \in Nat /\ ExistsBijection(1 .. n, S) BY FS_CardinalityType
<1>2. \E g \in [1 .. n -> S] : IsInjective(g)
  BY <1>1 DEF ExistsBijection, Bijection, Injection
<1>3. f \in [1 .. n -> S] /\ IsInjective(f) BY <1>2 DEF SetToSeq
<1> HIDE DEF f, n
<1>4. f \in Injection(1 .. n, S) BY <1>3 DEF Injection
<1>5. IsFiniteSet(1 .. n) /\ Cardinality(1 .. n) = n
  <2>1. n \in Int /\ 1 \in Int BY <1>1
  <2>2. IsFiniteSet(1 .. n) /\ Cardinality(1 .. n) = IF 1 > n THEN 0 ELSE n - 1 + 1
    BY <2>1, FS_Interval
  <2> QED BY <1>1, <2>2
<1>6. f \in Surjection(1 .. n, S) BY <1>4, <1>5, FS_Injection DEF n
<1>7. ToSet(f) = S BY <1>3, <1>6 DEF ToSet, Surjection
<1>8. f \in Seq(X) BY <1>1, <1>3
<1> QED BY <1>3, <1>7, <1>8 DEF f, Lists

\* A nonempty set of naturals has a smallest element.
LEMMA Smallest ==
  ASSUME NEW S \in SUBSET Nat, S # {}
  PROVE  \E m \in S : \A n \in S : m <= n
<1> DEFINE R == OpToRel(<, Nat)
<1>1. IsWellFoundedOn(R, Nat)
  BY NatLessThanWellFounded
<1>2. \A x, y \in Nat : <<x, y>> \in R <=> x < y
  BY DEF OpToRel
<1> HIDE DEF R
<1>3. PICK m \in S : \A n \in S : ~ (<<n, m>> \in R)
  BY <1>1, WFMin
<1>4. \A n \in S : ~ (n < m)
  BY <1>2, <1>3
<1> QED BY <1>4

\* A set of the first n positive numbers can be enumerated in its order.
Increasing(f) == \A i, j \in DOMAIN f : i < j => f[i] < f[j]
Enumerated(K) == \E f \in [1 .. Cardinality(K) -> K] : Increasing(f)

LEMMA OrderExists == \A n \in Nat : \A K \in SUBSET (1 .. n) : IsFiniteSet(K) /\ Enumerated(K)
<1>1. \A n \in Nat : \A K \in SUBSET (1 .. n) : IsFiniteSet(K) /\ Cardinality(K) \in Nat
  <2> TAKE n \in Nat
  <2> TAKE K \in SUBSET (1 .. n)
  <2>1. n \in Int /\ 1 \in Int OBVIOUS
  <2>2. IsFiniteSet(1 .. n) BY <2>1, FS_Interval
  <2> QED BY <2>2, FS_Subset, FS_CardinalityType
<1> DEFINE B == {n \in Nat : \E K \in SUBSET (1 .. n) : ~Enumerated(K)}
<1>2. CASE B = {} BY <1>1, <1>2
<1>3. CASE B # {}
  <2>0. B \in SUBSET Nat OBVIOUS
  <2> HIDE DEF B
  <2>1. PICK n \in B : \A m \in B : n <= m BY <1>3, <2>0, Smallest
  <2> USE DEF B
  <2>2. PICK K \in SUBSET (1 .. n) : ~Enumerated(K) BY <2>1
  <2>3. n \in Nat /\ IsFiniteSet(K) /\ Cardinality(K) \in Nat BY <1>1, <2>1
  <2>4. CASE K = {}
    <3>1. Cardinality(K) = 0 BY <2>4, FS_EmptySet
    <3>2. <<>> \in [1 .. Cardinality(K) -> K] /\ Increasing(<<>>)
      BY <2>4, <3>1 DEF Increasing
    <3> QED BY <2>2, <3>2 DEF Enumerated
  <2>5. CASE K # {}
    <3>1. n # 0
      <4>1. 1 .. 0 = {} OBVIOUS
      <4> QED BY <2>2, <2>5, <4>1
    <3>2. n - 1 \in Nat /\ ~ (n <= n - 1) BY <2>3, <3>1
    <3>3. n - 1 \notin B BY <2>1, <3>2
    <3>4. \A x \in 1 .. n : x = n \/ x \in 1 .. n - 1 BY <2>3
    <3>5. CASE n \notin K
      <4>1. K \in SUBSET (1 .. n - 1) BY <3>4, <3>5
      <4> QED BY <2>2, <3>2, <3>3, <4>1
    <3>6. CASE n \in K
      <4> DEFINE rest == K \ {n}
                 k == Cardinality(rest)
      <4>1. rest \in SUBSET (1 .. n - 1) BY <3>4
      <4>2. PICK g \in [1 .. k -> rest] : Increasing(g)
        BY <3>2, <3>3, <4>1 DEF Enumerated
      <4>3. k \in Nat /\ Cardinality(K) = k + 1
        <5>1. k \in Nat BY <1>1, <3>2, <4>1
        <5>2. k = Cardinality(K) - 1 BY <2>3, <3>6, FS_RemoveElement
        <5> HIDE DEF k
        <5> QED BY <2>3, <5>1, <5>2
      <4> HIDE DEF k
      <4> DEFINE f == [i \in 1 .. k + 1 |-> IF i <= k THEN g[i] ELSE n]
      <4>4. \A i \in 1 .. k + 1 : i <= k => i \in 1 .. k /\ g[i] \in 1 .. n - 1 /\ g[i] \in K
        <5>1. \A i \in 1 .. k + 1 : i <= k => i \in 1 .. k BY <4>3
        <5>2. \A i \in 1 .. k : g[i] \in rest BY <4>2
        <5> QED BY <4>1, <5>1, <5>2
      <4>5. f \in [1 .. Cardinality(K) -> K] BY <3>6, <4>3, <4>4
      <4>6. Increasing(f)
        <5> SUFFICES ASSUME NEW i \in 1 .. k + 1, NEW j \in 1 .. k + 1, i < j
                     PROVE  f[i] < f[j]
          BY DEF Increasing
        <5>1. i <= k /\ g[i] \in 1 .. n - 1 /\ f[i] = g[i] BY <4>3, <4>4
        <5>2. CASE j <= k BY <4>2, <4>4, <5>1, <5>2 DEF Increasing
        <5>3. CASE ~ (j <= k) BY <2>3, <5>1, <5>3
        <5> QED BY <5>2, <5>3
      <4> QED BY <2>2, <4>5, <4>6 DEF Enumerated
    <3> QED BY <3>5, <3>6
  <2> QED BY <2>4, <2>5
<1> QED BY <1>2, <1>3
\* The unterminated workers of a completion list, each once.
LEMMA UnblockedList ==
  ASSUME completed \in Lists(Workers)
  PROVE  /\ Unblocked \in Lists(Workers)
         /\ ToSet(Unblocked) = {w \in ToSet(completed) : at[w] # "terminated"}
<1> DEFINE K == Unterminated
           l == completed
           n == Cardinality(K)
           order == CHOOSE f \in [1 .. n -> K] : \A i, j \in DOMAIN f : i < j => f[i] < f[j]
           u == [i \in DOMAIN order |-> l[order[i]]]
<1>1. l \in Seq(Workers) /\ Len(l) \in Nat /\ DOMAIN l = 1 .. Len(l) BY DEF Lists
<1>2. K \in SUBSET (1 .. Len(l)) BY <1>1 DEF Unterminated
<1>3. IsFiniteSet(K) /\ Enumerated(K) BY <1>1, <1>2, OrderExists
<1>4. n \in Nat BY <1>3, FS_CardinalityType
<1>5. order \in [1 .. n -> K] /\ Increasing(order) BY <1>3 DEF Enumerated, Increasing
<1>6. Unblocked = u BY DEF Unblocked
<1> HIDE DEF order, K, n
<1>7. order \in Injection(1 .. n, K)
  <2> SUFFICES ASSUME NEW i \in 1 .. n, NEW j \in 1 .. n, order[i] = order[j] PROVE i = j
    BY <1>5 DEF Injection, IsInjective
  <2>0. order[i] \in K /\ order[j] \in K BY <1>5
  <2>a. \A m \in Nat : 1 .. m \subseteq Nat OBVIOUS
  <2>b. K \subseteq Nat BY <1>1, <1>2, <2>a
  <2>1. order[i] \in Nat /\ order[j] \in Nat BY <2>0, <2>b
  <2>2. i < j => order[i] < order[j] BY <1>5 DEF Increasing
  <2>3. j < i => order[j] < order[i] BY <1>5 DEF Increasing
  <2> QED BY <1>4, <2>1, <2>2, <2>3
<1>8. IsFiniteSet(1 .. n) /\ Cardinality(1 .. n) = n
  <2>1. n \in Int /\ 1 \in Int BY <1>4
  <2>2. IsFiniteSet(1 .. n) /\ Cardinality(1 .. n) = IF 1 > n THEN 0 ELSE n - 1 + 1
    BY <2>1, FS_Interval
  <2> QED BY <1>4, <2>2
<1>9. order \in Surjection(1 .. n, K) BY <1>3, <1>7, <1>8, FS_Injection DEF n
<1>10. DOMAIN order = 1 .. n /\ DOMAIN u = 1 .. n BY <1>5
<1>11. \A i \in 1 .. n : order[i] \in DOMAIN l /\ order[i] \in K /\ u[i] = l[order[i]] /\ u[i] \in Workers
  <2>1. \A i \in 1 .. n : order[i] \in K BY <1>5
  <2>2. \A k \in K : k \in DOMAIN l BY <1>1, <1>2
  <2>3. \A k \in DOMAIN l : l[k] \in Workers BY <1>1
  <2> HIDE DEF l
  <2> QED BY <1>10, <2>1, <2>2, <2>3
<1>12. u \in Seq(Workers) BY <1>4, <1>10, <1>11
<1>13. IsInjective(u)
  <2>1. \A i, j \in 1 .. n : order[i] = order[j] => i = j BY <1>7 DEF Injection, IsInjective
  <2>2. \A a, b \in DOMAIN l : l[a] = l[b] => a = b BY DEF Lists, IsInjective
  <2> HIDE DEF u, l
  <2> QED BY <1>10, <1>11, <2>1, <2>2 DEF IsInjective
<1>14. ToSet(u) = {w \in ToSet(l) : at[w] # "terminated"}
  <2>1. ToSet(u) = {l[k] : k \in K}
    BY <1>5, <1>9, <1>10, <1>11 DEF ToSet, Surjection
  <2>2. K = {k \in DOMAIN l : at[l[k]] # "terminated"} BY DEF Unterminated, K
  <2> QED BY <2>1, <2>2 DEF ToSet
<1> QED BY <1>6, <1>12, <1>13, <1>14 DEF Lists

\* The tasks of different workers in a list.
LEMMA TasksList ==
  ASSUME NEW l \in Lists(Workers), \A v \in ToSet(l) : task[v] \in Tasks,
         \A u, v \in ToSet(l) : task[u] = task[v] => u = v
  PROVE  TasksOf(l) \in Lists(Tasks) /\ ToSet(TasksOf(l)) = {task[v] : v \in ToSet(l)}
<1> DEFINE m == TasksOf(l)
<1>1. Len(l) \in Nat /\ DOMAIN l = 1 .. Len(l) BY DEF Lists
<1>2. DOMAIN m = DOMAIN l /\ \A i \in DOMAIN l : m[i] = task[l[i]] /\ l[i] \in ToSet(l)
  BY DEF TasksOf, ToSet
<1>3. \A i \in DOMAIN l : m[i] \in Tasks BY <1>2
<1>4. m = [i \in 1 .. Len(l) |-> m[i]] BY <1>1 DEF TasksOf
<1> HIDE DEF m
<1>5. m \in Seq(Tasks) BY <1>1, <1>3, <1>4
<1>6. IsInjective(m)
  <2>1. \A i, j \in DOMAIN l : l[i] = l[j] => i = j BY DEF Lists, IsInjective
  <2> QED BY <1>2, <2>1 DEF IsInjective
<1>7. ToSet(m) = {task[v] : v \in ToSet(l)} BY <1>2 DEF ToSet
<1> QED BY <1>5, <1>6, <1>7 DEF m, Lists

-----------------------------------------------------------------------------
(* The invariant. It says of every worker in what kind of place it is, and  *)
(* that it is found there and nowhere else: kind is a function, so that     *)
(* there is one place for a worker.                                         *)

Kinds == {"none", "run", "ready", "pooled", "completed", "blocked", "waits", "gone"}

\* Null is neither a task nor a worker.
LEMMA Constants == None \notin Tasks /\ None \notin Workers /\ Workers = Tasks
BY DEF None, Tasks, Workers

\* No list has anything twice.
NoDuplicates ==
  /\ ready \in Lists(Tasks) /\ pooled \in Lists(Tasks) /\ new \in Lists(Tasks)
  /\ completed \in Lists(Workers)

\* The thread executes a worker exactly when it is not in schedulerFunction.
Phases == running # None <=> pc = "run"

\* A worker and its task belong to each other.
Belongs ==
  /\ \A w \in Workers : at[w] # "none" => task[w] \in Tasks /\ context[task[w]] = w
  /\ \A t \in Tasks : context[t] # None => at[context[t]] # "none" /\ task[context[t]] = t

\* The tasks without a worker that have not begun are in the deque of new tasks.
Fresh ==
  /\ \A t \in Tasks : t \in ToSet(new) <=> status[t] = "new" /\ context[t] = None
  /\ \A t \in Tasks : status[t] = "unborn" => context[t] = None

\* A pooled worker, and one that looks for a task, has one that has ended.
Ended(kind) ==
  \A w \in Workers : kind[w] = "pooled" \/ at[w] = "fetch" => status[task[w]] = "done"

Alive(kind) ==
  \A w \in Workers : /\ at[w] = "none" <=> kind[w] = "none"
                     /\ at[w] = "terminated" => kind[w] \in {"blocked", "completed", "gone"}
                     /\ kind[w] = "gone" => at[w] = "terminated"
                     /\ at[w] = "fetch" => kind[w] = "run"

Executed(kind) == \A w \in Workers : running = w <=> kind[w] = "run"
Completed(kind) == \A w \in Workers : w \in ToSet(completed) <=> kind[w] = "completed"
Blocked(kind) == \A w \in Workers : w \in blocked <=> kind[w] = "blocked"

\* The workers in a place are those of the tasks that are found there.
Listed(kind, place, S) ==
  /\ \A w \in Workers : kind[w] = place => task[w] \in S
  /\ \A t \in Tasks : t \in S => context[t] # None /\ kind[context[t]] = place

Waiting == {t \in Tasks : awaited[t] # None}

Located(kind) ==
  /\ Alive(kind) /\ Ended(kind)
  /\ Executed(kind) /\ Completed(kind) /\ Blocked(kind)
  /\ Listed(kind, "ready", ToSet(ready)) /\ Listed(kind, "pooled", ToSet(pooled))
  /\ Listed(kind, "waits", Waiting)

State == TypeOK /\ NoDuplicates /\ Phases /\ Belongs /\ Fresh

IInv == State /\ \E kind \in [Workers -> Kinds] : Located(kind)

-----------------------------------------------------------------------------
(* The steps. In each of them kind is moved along with the workers.         *)

\* What the invariant says of tasks and of workers in terms of each other.
Related ==
  /\ \A t \in Tasks : context[t] # None =>
       context[t] \in Workers /\ at[context[t]] # "none" /\ task[context[t]] = t
  /\ \A w \in Workers : at[w] # "none" => task[w] \in Tasks /\ context[task[w]] = w /\ w # None
  /\ running # None => running \in Workers
  /\ ToSet(ready) \subseteq Tasks /\ ToSet(pooled) \subseteq Tasks
  /\ ToSet(new) \subseteq Tasks /\ ToSet(completed) \subseteq Workers

LEMMA ListSet == ASSUME NEW X, NEW l \in Lists(X) PROVE ToSet(l) \subseteq X /\ l \in Seq(X)
BY DEF ToSet, Lists

LEMMA RelatedHolds == State => Related
<1> SUFFICES ASSUME State PROVE Related OBVIOUS
<1>1. TypeOK /\ NoDuplicates /\ Belongs BY DEF State
<1>2. /\ ToSet(ready) \subseteq Tasks /\ ToSet(pooled) \subseteq Tasks
      /\ ToSet(new) \subseteq Tasks /\ ToSet(completed) \subseteq Workers
  BY <1>1, ListSet DEF NoDuplicates
<1>3. /\ \A t \in Tasks : context[t] # None => context[t] \in Workers
      /\ running # None => running \in Workers
  BY <1>1 DEF TypeOK
<1> QED BY <1>1, <1>2, <1>3, Constants DEF Related, Belongs

\* A worker that is in a place of tasks is there with its task, and a task that is
\* in another place has another worker.
LEMMA Elsewhere ==
  ASSUME State, NEW kind \in [Workers -> Kinds], Located(kind), NEW place, NEW S,
         Listed(kind, place, S), place \in {"ready", "pooled", "waits"},
         NEW w \in Workers, at[w] # "none", kind[w] # place
  PROVE  task[w] \notin S
BY RelatedHolds DEF Related, Listed

\* A place of tasks stays as it is if no worker comes or goes there.
LEMMA ListedKept ==
  ASSUME State, NEW kind \in [Workers -> Kinds], NEW kind2 \in [Workers -> Kinds],
         NEW place, NEW S, Listed(kind, place, S),
         \A w \in Workers : kind2[w] = place <=> kind[w] = place,
         \A w \in Workers : kind[w] = place => task'[w] = task[w],
         \A t \in Tasks : context[t] # None /\ kind[context[t]] = place => context'[t] = context[t]
  PROVE  /\ \A w \in Workers : kind2[w] = place => task'[w] \in S
         /\ \A t \in Tasks : t \in S => context'[t] # None /\ kind2[context'[t]] = place
<1>1. Related BY RelatedHolds
<1> QED BY <1>1 DEF Listed, Related

\* A place after a worker, or its task, x has moved between two places.
After(S, x, here, from, to) ==
  IF here = to THEN S \cup {x} ELSE IF here = from THEN S \ {x} ELSE S

\* A worker moves to another place, and everything else stays where it is.
LEMMA Moved ==
  ASSUME State, NEW kind \in [Workers -> Kinds], Located(kind), NEW w \in Workers,
         at[w] # "none", NEW from, from = kind[w],
         NEW to \in {"run", "ready", "pooled", "completed", "blocked", "waits"}, to # from,
         NEW t \in Tasks, t = task[w],
         UNCHANGED <<context, task, status>>,
         to = "pooled" => status[t] = "done",
         \A v \in Workers : v # w => at'[v] = at[v],
         at'[w] \notin {"none", "fetch"}, at'[w] = "terminated" => to \in {"blocked", "completed"},
         running' = IF to = "run" THEN w ELSE IF from = "run" THEN None ELSE running,
         to = "run" => running = None,
         ToSet(ready') = After(ToSet(ready), t, "ready", from, to),
         ToSet(pooled') = After(ToSet(pooled), t, "pooled", from, to),
         ToSet(completed') = After(ToSet(completed), w, "completed", from, to),
         blocked' = After(blocked, w, "blocked", from, to),
         Waiting' = After(Waiting, t, "waits", from, to)
  PROVE  \E k \in [Workers -> Kinds] : Located(k)'
<1> DEFINE kind2 == [kind EXCEPT ![w] = to]
<1>1. /\ kind2 \in [Workers -> Kinds] /\ kind2[w] = to
      /\ \A v \in Workers : v # w => kind2[v] = kind[v]
  BY DEF Kinds
<1> HIDE DEF kind2
<1>2. Related /\ context[t] = w BY RelatedHolds DEF Related
<1>3. Alive(kind2)' BY <1>1 DEF Located, Alive
<1>4. Ended(kind2)' BY <1>1 DEF Located, Ended
<1>5. Executed(kind2)' BY <1>1, Constants DEF Located, Executed
<1>6. Completed(kind2)' BY <1>1 DEF Located, Completed, After
<1>7. Blocked(kind2)' BY <1>1 DEF Located, Blocked, After
<1>8. ASSUME NEW place \in {"ready", "pooled", "waits"}, NEW S, NEW S2, Listed(kind, place, S),
             S2 = After(S, t, place, from, to)
      PROVE  /\ \A v \in Workers : kind2[v] = place => task[v] \in S2
             /\ \A u \in Tasks : u \in S2 => context[u] # None /\ kind2[context[u]] = place
  <2>1. \A v \in Workers : kind2[v] = place => task[v] \in S2
    <3> SUFFICES ASSUME NEW v \in Workers, kind2[v] = place PROVE task[v] \in S2 OBVIOUS
    <3>1. CASE v = w BY <1>1, <1>8, <3>1 DEF After
    <3>2. CASE v # w
      <4>1. kind[v] = place /\ task[v] \in S BY <1>1, <1>8, <3>2 DEF Listed
      <4>2. at[v] # "none" BY <4>1 DEF Located, Alive
      <4>3. task[v] # t BY <1>2, <3>2, <4>2 DEF Related
      <4> QED BY <1>8, <4>1, <4>3 DEF After
    <3> QED BY <3>1, <3>2
  <2>2. \A u \in Tasks : u \in S2 => context[u] # None /\ kind2[context[u]] = place
    <3> SUFFICES ASSUME NEW u \in Tasks, u \in S2
                 PROVE  context[u] # None /\ kind2[context[u]] = place
      OBVIOUS
    <3>1. CASE u = t
      <4>1. place # from \/ place = to BY <1>8, <3>1 DEF After
      <4>2. place # to => u \in S BY <1>8, <4>1 DEF After
      <4>3. place # to => kind[w] = place BY <1>2, <1>8, <3>1, <4>2 DEF Listed
      <4> QED BY <1>1, <1>2, <3>1, <4>1, <4>3, Constants
    <3>2. CASE u # t
      <4>1. u \in S BY <1>8, <3>2 DEF After
      <4>2. context[u] # None /\ kind[context[u]] = place BY <1>8, <4>1 DEF Listed
      <4>3. context[u] \in Workers /\ context[u] # w BY <1>2, <3>2, <4>2 DEF Related
      <4> QED BY <1>1, <4>2, <4>3
    <3> QED BY <3>1, <3>2
  <2> QED BY <2>1, <2>2
<1>9. Listed(kind, "ready", ToSet(ready)) /\ Listed(kind, "pooled", ToSet(pooled))
      /\ Listed(kind, "waits", Waiting)
  BY DEF Located
<1>10. Listed(kind2, "ready", ToSet(ready))' BY <1>8, <1>9 DEF Listed
<1>11. Listed(kind2, "pooled", ToSet(pooled))' BY <1>8, <1>9 DEF Listed
<1>12. Listed(kind2, "waits", Waiting)' BY <1>8, <1>9 DEF Listed
<1> QED BY <1>1, <1>3, <1>4, <1>5, <1>6, <1>7, <1>10, <1>11, <1>12 DEF Located

\* The moves of one worker leave these parts of the state alone.
LEMMA StateKept ==
  ASSUME State, UNCHANGED <<context, task, status, new>>,
         TypeOK', ready' \in Lists(Tasks), pooled' \in Lists(Tasks), completed' \in Lists(Workers),
         running' # None <=> pc' = "run",
         \A v \in Workers : at'[v] = "none" <=> at[v] = "none"
  PROVE  State'
<1>1. NoDuplicates /\ Belongs /\ Fresh BY DEF State
<1>2. NoDuplicates' BY <1>1 DEF NoDuplicates
<1>3. Belongs'
  <2>1. TypeOK BY DEF State
  <2>2. \A t \in Tasks : context[t] # None => context[t] \in Workers BY <2>1 DEF TypeOK
  <2> QED BY <1>1, <2>2 DEF Belongs
<1>4. Fresh' BY <1>1 DEF Fresh
<1> QED BY <1>2, <1>3, <1>4 DEF State, Phases

\* Nothing is found: the thread goes to the next phase.
LEMMA SkipIInv ==
  ASSUME IInv, NEW label \in {"schedule", "wait", "await"}, pc # "run", Skip(label)
  PROVE  IInv'
<1>1. PICK kind \in [Workers -> Kinds] : Located(kind) BY DEF IInv
<1>2. pc' = label /\ UNCHANGED <<running, locals, deques, kernel, context, task, at, client>>
  BY DEF Skip
<1>3. State /\ TypeOK /\ Phases BY DEF IInv, State
<1>4. TypeOK' BY <1>2, <1>3 DEF TypeOK, locals, deques, kernel, client
<1>5. State'
  BY <1>2, <1>3, <1>4 DEF State, NoDuplicates, Belongs, Fresh, Phases, deques, kernel, client
<1>6. Located(kind)'
  BY <1>1, <1>2 DEF Located, Alive, Ended, Executed, Completed, Blocked, Listed, Waiting,
     deques, kernel, client
<1> QED BY <1>5, <1>6 DEF IInv

\* The last ready task is taken, and its worker executed.
LEMMA TakeLocalIInv ==
  ASSUME IInv, NEW label \in {"local", "interrupted"}, NEW next \in {"schedule", "await"},
         TakeLocal(label, next)
  PROVE  IInv'
<1>1. pc # "run" BY DEF TakeLocal
<1>2. CASE ready = <<>> BY <1>1, <1>2, SkipIInv DEF TakeLocal
<1>3. CASE ready # <<>>
  <2>1. PICK kind \in [Workers -> Kinds] : Located(kind) BY DEF IInv
  <2>2. State /\ TypeOK /\ NoDuplicates /\ Phases /\ Related BY RelatedHolds DEF IInv, State
  <2>3. PICK t \in Tasks : /\ t = Last(ready) /\ t \in ToSet(ready)
                           /\ Front(ready) \in Lists(Tasks)
                           /\ ToSet(Front(ready)) = ToSet(ready) \ {t}
    BY <1>3, <2>2, FrontList DEF NoDuplicates
  <2>4. /\ ready' = Front(ready) /\ running' = context[t] /\ pc' = "run"
        /\ workerStarted' = FALSE /\ unblockFailed' = FALSE
        /\ UNCHANGED <<pooled, new, kernel, context, task, at, client>>
    BY <1>3, <2>3 DEF TakeLocal, Execute
  <2>5. PICK w \in Workers : w = context[t] /\ at[w] # "none" /\ task[w] = t /\ kind[w] = "ready"
    BY <2>1, <2>2, <2>3 DEF Located, Listed, Related
  <2>6. running = None BY <1>1, <2>2 DEF Phases
  <2>7. at[w] \notin {"terminated", "fetch"} BY <2>1, <2>5 DEF Located, Alive
  <2>8. \E k \in [Workers -> Kinds] : Located(k)'
    <3>1. /\ ToSet(ready') = After(ToSet(ready), t, "ready", "ready", "run")
          /\ ToSet(pooled') = After(ToSet(pooled), t, "pooled", "ready", "run")
          /\ ToSet(completed') = After(ToSet(completed), w, "completed", "ready", "run")
          /\ blocked' = After(blocked, w, "blocked", "ready", "run")
          /\ Waiting' = After(Waiting, t, "waits", "ready", "run")
      BY <2>3, <2>4 DEF After, kernel, client, Waiting
    <3>2. running' = IF "run" = "run" THEN w ELSE IF "ready" = "run" THEN None ELSE running
      BY <2>4, <2>5
    <3>3. UNCHANGED <<context, task, status, at>> BY <2>4 DEF client
    <3> QED BY <2>1, <2>2, <2>5, <2>6, <2>7, <3>1, <3>2, <3>3, Moved
  <2>9. TypeOK'
    <3>1. ready' \in Seq(Tasks) BY <2>3, <2>4 DEF Lists
    <3> QED BY <2>2, <2>4, <2>5, <3>1 DEF TypeOK, kernel, client
  <2>10. State'
    BY <2>2, <2>3, <2>4, <2>5, <2>9, Constants, StateKept DEF NoDuplicates, kernel, client
  <2> QED BY <2>8, <2>10 DEF IInv
<1> QED BY <1>2, <1>3

\* The worker that is executed ends, or is blocked in the kernel.
LEMMA BlockedIInv ==
  ASSUME IInv, NEW w \in Workers, NEW label \in {"activated", "interrupted"},
         NEW step \in {"run", "terminated"}, at[w] \in {"check", "run"},
         running = w, Activate(label), blocked' = blocked \cup {w},
         at' = [at EXCEPT ![w] = step], blocks' \in 0 .. MaxBlocks,
         UNCHANGED <<locals, deques, completed, context, task, client>>
  PROVE  IInv'
<1>1. PICK kind \in [Workers -> Kinds] : Located(kind) BY DEF IInv
<1>2. State /\ TypeOK /\ NoDuplicates /\ Phases /\ Related BY RelatedHolds DEF IInv, State
<1>3. running' = None /\ pc' = label BY DEF Activate
<1>4. kind[w] = "run" BY <1>1 DEF Located, Executed
<1>5. PICK t \in Tasks : t = task[w] BY <1>2 DEF Related
<1>6. at'[w] = step /\ \A v \in Workers : v # w => at'[v] = at[v] BY <1>2 DEF TypeOK
<1>7. \E k \in [Workers -> Kinds] : Located(k)'
  <2>1. /\ ToSet(ready') = After(ToSet(ready), t, "ready", "run", "blocked")
        /\ ToSet(pooled') = After(ToSet(pooled), t, "pooled", "run", "blocked")
        /\ ToSet(completed') = After(ToSet(completed), w, "completed", "run", "blocked")
        /\ blocked' = After(blocked, w, "blocked", "run", "blocked")
        /\ Waiting' = After(Waiting, t, "waits", "run", "blocked")
    BY DEF After, deques, client, Waiting
  <2>2. running' = IF "blocked" = "run" THEN w ELSE IF "run" = "run" THEN None ELSE running
    BY <1>3
  <2>3. UNCHANGED <<context, task, status>> BY DEF client
  <2> QED BY <1>1, <1>2, <1>4, <1>5, <1>6, <2>1, <2>2, <2>3, Moved
<1>8. TypeOK' BY <1>2, <1>3 DEF TypeOK, locals, deques, client
<1>9. State'
  BY <1>2, <1>3, <1>6, <1>8, StateKept DEF NoDuplicates, deques, client
<1> QED BY <1>7, <1>9 DEF IInv

\* A task waits for the end of another one.
LEMMA WaitForIInv ==
  ASSUME IInv, NEW w \in Workers, NEW t \in Tasks, WaitFor(w, t)
  PROVE  IInv'
<1>1. PICK kind \in [Workers -> Kinds] : Located(kind) BY DEF IInv
<1>2. State /\ TypeOK /\ NoDuplicates /\ Phases /\ Related BY RelatedHolds DEF IInv, State
<1>3. /\ at[w] = "run" /\ running = w /\ running' = None /\ pc' = "activated"
      /\ awaited' = [awaited EXCEPT ![task[w]] = t]
      /\ UNCHANGED <<locals, deques, kernel, context, task, at, status, keepRunning>>
  BY DEF WaitFor, Runs, Activate
<1>4. PICK u \in Tasks : u = task[w] BY <1>2, <1>3 DEF Related
<1>5. kind[w] = "run" BY <1>1, <1>3 DEF Located, Executed
<1>6. Waiting' = Waiting \cup {u}
  <2>1. awaited'[u] = t /\ \A x \in Tasks : x # u => awaited'[x] = awaited[x]
    BY <1>2, <1>3, <1>4 DEF TypeOK
  <2> QED BY <2>1, Constants DEF Waiting
<1>7. \E k \in [Workers -> Kinds] : Located(k)'
  <2>1. /\ ToSet(ready') = After(ToSet(ready), u, "ready", "run", "waits")
        /\ ToSet(pooled') = After(ToSet(pooled), u, "pooled", "run", "waits")
        /\ ToSet(completed') = After(ToSet(completed), w, "completed", "run", "waits")
        /\ blocked' = After(blocked, w, "blocked", "run", "waits")
        /\ Waiting' = After(Waiting, u, "waits", "run", "waits")
    BY <1>3, <1>6 DEF After, deques, kernel
  <2>2. running' = IF "waits" = "run" THEN w ELSE IF "run" = "run" THEN None ELSE running
    BY <1>3
  <2>3. UNCHANGED <<context, task, status, at>> BY <1>3
  <2> QED BY <1>1, <1>2, <1>3, <1>4, <1>5, <2>1, <2>2, <2>3, Moved
<1>8. TypeOK' BY <1>2, <1>3 DEF TypeOK, locals, deques, kernel
<1>9. State' BY <1>2, <1>3, <1>8, StateKept DEF NoDuplicates, deques, kernel
<1> QED BY <1>7, <1>9 DEF IInv

\* The kernel puts a worker into the completion list.
LEMMA UnblockIInv ==
  ASSUME IInv, NEW w \in Workers, Unblock(w)
  PROVE  IInv'
<1>1. PICK kind \in [Workers -> Kinds] : Located(kind) BY DEF IInv
<1>2. State /\ TypeOK /\ NoDuplicates /\ Phases /\ Related BY RelatedHolds DEF IInv, State
<1>3. /\ w \in blocked /\ blocked' = blocked \ {w} /\ completed' = Append(completed, w)
      /\ UNCHANGED <<pc, running, locals, deques, blocks, context, task, at, client>>
  BY DEF Unblock
<1>4. kind[w] = "blocked" /\ at[w] # "none" /\ at[w] # "fetch"
  BY <1>1, <1>3 DEF Located, Blocked, Alive
<1>5. w \notin ToSet(completed) BY <1>1, <1>4 DEF Located, Completed
<1>6. completed' \in Lists(Workers) /\ ToSet(completed') = ToSet(completed) \cup {w}
  BY <1>2, <1>3, <1>5, AppendList DEF NoDuplicates
<1>7. PICK t \in Tasks : t = task[w] BY <1>2, <1>4 DEF Related
<1>8. \E k \in [Workers -> Kinds] : Located(k)'
  <2>1. /\ ToSet(ready') = After(ToSet(ready), t, "ready", "blocked", "completed")
        /\ ToSet(pooled') = After(ToSet(pooled), t, "pooled", "blocked", "completed")
        /\ ToSet(completed') = After(ToSet(completed), w, "completed", "blocked", "completed")
        /\ blocked' = After(blocked, w, "blocked", "blocked", "completed")
        /\ Waiting' = After(Waiting, t, "waits", "blocked", "completed")
    BY <1>3, <1>6 DEF After, deques, client, Waiting
  <2>2. running' = IF "completed" = "run" THEN w ELSE IF "blocked" = "run" THEN None ELSE running
    BY <1>3
  <2>3. UNCHANGED <<context, task, status, at>> BY <1>3 DEF client
  <2> QED BY <1>1, <1>2, <1>4, <1>7, <2>1, <2>2, <2>3, Moved
<1>9. TypeOK'
  <2>1. completed' \in Seq(Workers) BY <1>6 DEF Lists
  <2> QED BY <1>2, <1>3, <2>1 DEF TypeOK, locals, deques, client
<1>10. State'
  BY <1>2, <1>3, <1>6, <1>9, StateKept DEF NoDuplicates, Phases, deques, client
<1> QED BY <1>8, <1>10 DEF IInv

\* A worker without a new task is pooled.
LEMMA PoolIInv ==
  ASSUME IInv, NEW w \in Workers, Fetch(w), new = <<>>
  PROVE  IInv'
<1>1. PICK kind \in [Workers -> Kinds] : Located(kind) BY DEF IInv
<1>2. State /\ TypeOK /\ NoDuplicates /\ Phases /\ Related BY RelatedHolds DEF IInv, State
<1>3. /\ at[w] = "fetch" /\ running = w /\ running' = None /\ pc' = "activated"
      /\ pooled' = Append(pooled, task[w]) /\ at' = [at EXCEPT ![w] = "check"]
      /\ UNCHANGED <<locals, ready, new, kernel, context, task, client>>
  BY DEF Fetch, Runs, Activate
<1>4. kind[w] = "run" BY <1>1, <1>3 DEF Located, Executed
<1>5. PICK t \in Tasks : t = task[w] /\ status[t] = "done" /\ t \notin ToSet(pooled)
  <2>1. task[w] \in Tasks BY <1>2, <1>3 DEF Related
  <2>2. status[task[w]] = "done" BY <1>1, <1>3 DEF Located, Ended
  <2>3. task[w] \notin ToSet(pooled) BY <1>1, <1>2, <1>3, <1>4, Elsewhere DEF Located
  <2> QED BY <2>1, <2>2, <2>3
<1>6. pooled' \in Lists(Tasks) /\ ToSet(pooled') = ToSet(pooled) \cup {t}
  BY <1>2, <1>3, <1>5, AppendList DEF NoDuplicates
<1>7. at'[w] = "check" /\ \A v \in Workers : v # w => at'[v] = at[v] BY <1>2, <1>3 DEF TypeOK
<1>8. \E k \in [Workers -> Kinds] : Located(k)'
  <2>1. /\ ToSet(ready') = After(ToSet(ready), t, "ready", "run", "pooled")
        /\ ToSet(pooled') = After(ToSet(pooled), t, "pooled", "run", "pooled")
        /\ ToSet(completed') = After(ToSet(completed), w, "completed", "run", "pooled")
        /\ blocked' = After(blocked, w, "blocked", "run", "pooled")
        /\ Waiting' = After(Waiting, t, "waits", "run", "pooled")
    BY <1>3, <1>6 DEF After, kernel, client, Waiting
  <2>2. running' = IF "pooled" = "run" THEN w ELSE IF "run" = "run" THEN None ELSE running
    BY <1>3
  <2>3. UNCHANGED <<context, task, status>> BY <1>3 DEF client
  <2> QED BY <1>1, <1>2, <1>3, <1>4, <1>5, <1>7, <2>1, <2>2, <2>3, Moved
<1>9. TypeOK'
  <2>1. pooled' \in Seq(Tasks) BY <1>6 DEF Lists
  <2> QED BY <1>2, <1>3, <2>1 DEF TypeOK, locals, kernel, client
<1>10. State'
  BY <1>2, <1>3, <1>6, <1>7, <1>9, StateKept DEF NoDuplicates, kernel, client
<1> QED BY <1>8, <1>10 DEF IInv

\* The function of a task is called.
LEMMA CalledIInv ==
  ASSUME IInv, NEW w \in Workers, Check(w), keepRunning
  PROVE  IInv'
<1>1. PICK kind \in [Workers -> Kinds] : Located(kind) BY DEF IInv
<1>2. State /\ TypeOK /\ NoDuplicates /\ Phases /\ Belongs /\ Fresh /\ Related
  BY RelatedHolds DEF IInv, State
<1>3. /\ at[w] = "check" /\ running = w
      /\ at' = [at EXCEPT ![w] = "run"] /\ status' = [status EXCEPT ![task[w]] = "active"]
      /\ UNCHANGED <<pc, running, blocked, locals, deques, completed, blocks, context, task,
                     awaited, keepRunning>>
  BY DEF Check, Runs
<1>4. kind[w] = "run" /\ task[w] \in Tasks /\ context[task[w]] = w
  BY <1>1, <1>2, <1>3 DEF Located, Executed, Related
<1>5. /\ at'[w] = "run" /\ \A v \in Workers : v # w => at'[v] = at[v]
      /\ status'[task[w]] = "active" /\ \A t \in Tasks : t # task[w] => status'[t] = status[t]
  BY <1>2, <1>3, <1>4 DEF TypeOK
<1>6. TypeOK' BY <1>2, <1>3 DEF TypeOK, locals, deques
<1>7. NoDuplicates' BY <1>2, <1>3 DEF NoDuplicates, deques
<1>8. Phases' BY <1>2, <1>3 DEF Phases
<1>9. Belongs' BY <1>2, <1>3, <1>5 DEF Belongs, Related
<1>10. Fresh' BY <1>2, <1>3, <1>4, <1>5, Constants DEF Fresh, deques
<1>11. Located(kind)'
  <2>1. Alive(kind)' BY <1>1, <1>3, <1>4, <1>5 DEF Located, Alive
  <2>2. Ended(kind)' BY <1>1, <1>2, <1>3, <1>4, <1>5 DEF Located, Ended, Alive, Related
  <2>3. Executed(kind)' /\ Completed(kind)' /\ Blocked(kind)'
    BY <1>1, <1>3 DEF Located, Executed, Completed, Blocked
  <2>4. Listed(kind, "ready", ToSet(ready))' /\ Listed(kind, "pooled", ToSet(pooled))'
    BY <1>1, <1>3 DEF Located, Listed, deques
  <2>5. Listed(kind, "waits", Waiting)' BY <1>1, <1>3 DEF Located, Listed, Waiting
  <2> QED BY <2>1, <2>2, <2>3, <2>4, <2>5 DEF Located
<1> QED BY <1>6, <1>7, <1>8, <1>9, <1>10, <1>11 DEF IInv, State

\* A task is created, in the deque of new ones.
LEMMA SpawnIInv ==
  ASSUME IInv, NEW w \in Workers, NEW t \in Tasks, Spawn(w, t)
  PROVE  IInv'
<1>1. PICK kind \in [Workers -> Kinds] : Located(kind) BY DEF IInv
<1>2. State /\ TypeOK /\ NoDuplicates /\ Phases /\ Belongs /\ Fresh /\ Related
  BY RelatedHolds DEF IInv, State
<1>3. /\ status[t] = "unborn" /\ status' = [status EXCEPT ![t] = "new"] /\ new' = Append(new, t)
      /\ UNCHANGED <<pc, running, locals, ready, pooled, kernel, context, task, at, awaited, keepRunning>>
  BY DEF Spawn
<1>4. context[t] = None /\ t \notin ToSet(new) BY <1>2, <1>3 DEF Fresh
<1>5. new' \in Lists(Tasks) /\ ToSet(new') = ToSet(new) \cup {t}
  BY <1>2, <1>3, <1>4, AppendList DEF NoDuplicates
<1>6. status'[t] = "new" /\ \A u \in Tasks : u # t => status'[u] = status[u]
  BY <1>2, <1>3 DEF TypeOK
<1>7. TypeOK'
  <2>1. new' \in Seq(Tasks) BY <1>5 DEF Lists
  <2> QED BY <1>2, <1>3, <2>1 DEF TypeOK, locals, kernel
<1>8. NoDuplicates' BY <1>2, <1>3, <1>5 DEF NoDuplicates, kernel
<1>9. Phases' BY <1>2, <1>3 DEF Phases
<1>10. Belongs' BY <1>2, <1>3 DEF Belongs
<1>11. Fresh' BY <1>2, <1>3, <1>4, <1>5, <1>6 DEF Fresh
<1>12. Located(kind)'
  <2>1. Alive(kind)' BY <1>1, <1>3 DEF Located, Alive
  <2>2. Ended(kind)'
    <3>1. \A v \in Workers : at[v] # "none" => task[v] \in Tasks /\ task[v] # t
      BY <1>2, <1>4 DEF Related
    <3>2. \A v \in Workers : kind[v] = "pooled" \/ at[v] = "fetch" => at[v] # "none"
      BY <1>1 DEF Located, Alive
    <3> QED BY <1>1, <1>3, <1>6, <3>1, <3>2 DEF Located, Ended
  <2>3. Executed(kind)' /\ Completed(kind)' /\ Blocked(kind)'
    BY <1>1, <1>3 DEF Located, Executed, Completed, Blocked, kernel
  <2>4. Listed(kind, "ready", ToSet(ready))' /\ Listed(kind, "pooled", ToSet(pooled))'
    BY <1>1, <1>3 DEF Located, Listed
  <2>5. Listed(kind, "waits", Waiting)' BY <1>1, <1>3 DEF Located, Listed, Waiting
  <2> QED BY <2>1, <2>2, <2>3, <2>4, <2>5 DEF Located
<1> QED BY <1>7, <1>8, <1>9, <1>10, <1>11, <1>12 DEF IInv, State

\* The first unblocked worker is executed, and the others are ready.
LEMMA DequeueIInv ==
  ASSUME IInv, pc # "run", Dequeue
  PROVE  IInv'
<1>1. PICK kind \in [Workers -> Kinds] : Located(kind) BY DEF IInv
<1>2. State /\ TypeOK /\ NoDuplicates /\ Phases /\ Related BY RelatedHolds DEF IInv, State
<1>3. PICK l \in Lists(Workers) :
        l = Unblocked /\ ToSet(l) = {w \in ToSet(completed) : at[w] # "terminated"} /\ l # <<>>
  BY <1>2, UnblockedList DEF NoDuplicates, Dequeue
<1>4. PICK C \in SUBSET Workers : C = ToSet(completed) BY <1>2 DEF Related
<1>5. PICK w \in C, rest \in Lists(Workers) :
        /\ w = Head(l) /\ at[w] # "terminated"
        /\ rest = Tail(l) /\ ToSet(rest) = {v \in C : at[v] # "terminated"} \ {w}
  BY <1>3, <1>4, TailList
<1>6. PICK more : more = TasksOf(rest) OBVIOUS
<1>7. /\ pc' = "run" /\ running' = w /\ workerStarted' = FALSE /\ unblockFailed' = FALSE
      /\ ready' = ready \o more /\ completed' = <<>>
      /\ UNCHANGED <<pooled, new, blocked, blocks, context, task, at, client>>
  BY <1>3, <1>5, <1>6 DEF Dequeue, Execute
<1>8. \A v \in C : /\ kind[v] = "completed" /\ at[v] \notin {"none", "fetch"}
                   /\ task[v] \in Tasks /\ context[task[v]] = v
  BY <1>1, <1>2, <1>4 DEF Located, Completed, Alive, Related
<1>9. more \in Lists(Tasks) /\ ToSet(more) = {task[v] : v \in ToSet(rest)}
  <2>1. \A v \in ToSet(rest) : task[v] \in Tasks BY <1>5, <1>8
  <2>2. \A u, v \in ToSet(rest) : task[u] = task[v] => u = v BY <1>5, <1>8
  <2> QED BY <1>6, <2>1, <2>2, TasksList
<1>10. /\ ready' \in Lists(Tasks)
       /\ ToSet(ready') = ToSet(ready) \cup {task[v] : v \in ToSet(rest)}
  <2>1. ToSet(ready) \cap ToSet(more) = {}
    BY <1>1, <1>2, <1>5, <1>8, <1>9, Elsewhere DEF Located
  <2> QED BY <1>2, <1>7, <1>9, <2>1, ConcatList DEF NoDuplicates
<1>11. completed' \in Lists(Workers) /\ ToSet(completed') = {}
  BY <1>7 DEF Lists, IsInjective, ToSet
<1>12. running = None BY <1>2 DEF Phases
<1> DEFINE kind2 == [v \in Workers |-> IF v \notin C THEN kind[v] ELSE IF v = w THEN "run"
                                       ELSE IF v \in ToSet(rest) THEN "ready" ELSE "gone"]
<1>13. /\ kind2 \in [Workers -> Kinds] /\ kind2[w] = "run"
       /\ \A v \in Workers : v \notin C => kind2[v] = kind[v]
       /\ \A v \in C : v # w => kind2[v] = IF v \in ToSet(rest) THEN "ready" ELSE "gone"
       /\ \A v \in C : v # w => (v \in ToSet(rest) <=> at[v] # "terminated")
  BY <1>4, <1>5 DEF Kinds
<1> HIDE DEF kind2
<1>14. State'
  <2>1. TypeOK'
    <3>1. ready' \in Seq(Tasks) /\ completed' \in Seq(Workers) BY <1>10, <1>11 DEF Lists
    <3> QED BY <1>2, <1>7, <3>1 DEF TypeOK, client
  <2> QED BY <1>2, <1>7, <1>10, <1>11, <2>1, Constants, StateKept DEF NoDuplicates, client
<1>15. Located(kind2)'
  <2>1. Alive(kind2)' BY <1>1, <1>5, <1>7, <1>8, <1>13 DEF Located, Alive
  <2>2. Ended(kind2)' BY <1>1, <1>7, <1>8, <1>13 DEF Located, Ended, client
  <2>3. Executed(kind2)' BY <1>1, <1>7, <1>12, <1>13, Constants DEF Located, Executed
  <2>4. Completed(kind2)' BY <1>1, <1>4, <1>11, <1>13 DEF Located, Completed
  <2>5. Blocked(kind2)' BY <1>1, <1>7, <1>8, <1>13 DEF Located, Blocked
  <2>6. Listed(kind2, "ready", ToSet(ready))'
    <3>1. \A v \in Workers : kind2[v] = "ready" => task[v] \in ToSet(ready')
      <4> SUFFICES ASSUME NEW v \in Workers, kind2[v] = "ready" PROVE task[v] \in ToSet(ready')
        OBVIOUS
      <4>1. CASE v \in C BY <1>10, <1>13, <4>1
      <4>2. CASE v \notin C BY <1>1, <1>10, <1>13, <4>2 DEF Located, Listed
      <4> QED BY <4>1, <4>2
    <3>2. \A u \in Tasks : u \in ToSet(ready') => context[u] # None /\ kind2[context[u]] = "ready"
      <4> SUFFICES ASSUME NEW u \in Tasks, u \in ToSet(ready')
                   PROVE  context[u] # None /\ kind2[context[u]] = "ready"
        OBVIOUS
      <4>1. CASE u \in ToSet(ready) BY <1>1, <1>2, <1>8, <1>13, <4>1 DEF Located, Listed, Related
      <4>2. CASE u \notin ToSet(ready)
        <5>1. PICK v \in ToSet(rest) : u = task[v] BY <1>10, <4>2
        <5>2. v \in C /\ v # w BY <1>5, <5>1
        <5> QED BY <1>2, <1>8, <1>13, <5>1, <5>2 DEF Related
      <4> QED BY <4>1, <4>2
    <3> QED BY <1>7, <3>1, <3>2 DEF Listed
  <2>7. Listed(kind2, "pooled", ToSet(pooled))'
    BY <1>1, <1>2, <1>7, <1>8, <1>13 DEF Located, Listed, Related
  <2>8. Listed(kind2, "waits", Waiting)'
    BY <1>1, <1>2, <1>7, <1>8, <1>13 DEF Located, Listed, Related, Waiting, client
  <2> QED BY <2>1, <2>2, <2>3, <2>4, <2>5, <2>6, <2>7, <2>8 DEF Located
<1> QED BY <1>13, <1>14, <1>15 DEF IInv

\* All workers of the completion list have terminated: they are gone.
LEMMA DequeueTerminatedIInv ==
  ASSUME IInv, NEW label \in {"local", "schedule", "interrupted"}, pc # "run",
         DequeueTerminated, pc' = label, workerStarted' \in BOOLEAN, unblockFailed' \in BOOLEAN
  PROVE  IInv'
<1>1. PICK kind \in [Workers -> Kinds] : Located(kind) BY DEF IInv
<1>2. State /\ TypeOK /\ NoDuplicates /\ Phases /\ Related BY RelatedHolds DEF IInv, State
<1>3. /\ completed' = <<>>
      /\ UNCHANGED <<running, ready, pooled, new, blocked, blocks, context, task, at, client>>
  BY DEF DequeueTerminated, deques
<1>4. PICK C \in SUBSET Workers : C = ToSet(completed) BY <1>2 DEF Related
<1>5. \A v \in C : kind[v] = "completed" /\ at[v] = "terminated"
  <2>1. ToSet(Unblocked) = {v \in C : at[v] # "terminated"}
    BY <1>2, <1>4, UnblockedList DEF NoDuplicates
  <2>2. ToSet(Unblocked) = {} BY DEF DequeueTerminated, ToSet
  <2> QED BY <1>1, <1>4, <2>1, <2>2 DEF Located, Completed
<1>6. completed' \in Lists(Workers) /\ ToSet(completed') = {}
  BY <1>3 DEF Lists, IsInjective, ToSet
<1> DEFINE kind2 == [v \in Workers |-> IF v \in C THEN "gone" ELSE kind[v]]
<1>7. /\ kind2 \in [Workers -> Kinds]
      /\ \A v \in Workers : v \notin C => kind2[v] = kind[v]
      /\ \A v \in C : kind2[v] = "gone"
  BY <1>4 DEF Kinds
<1> HIDE DEF kind2
<1>8. State'
  <2>1. TypeOK'
    <3>1. completed' \in Seq(Workers) BY <1>6 DEF Lists
    <3> QED BY <1>2, <1>3, <3>1 DEF TypeOK, client
  <2> QED BY <1>2, <1>3, <1>6, <2>1, StateKept DEF NoDuplicates, Phases, client
<1>9. Located(kind2)'
  <2>1. Alive(kind2)' BY <1>1, <1>3, <1>5, <1>7 DEF Located, Alive
  <2>2. Ended(kind2)' BY <1>1, <1>3, <1>5, <1>7 DEF Located, Ended, client
  <2>3. Executed(kind2)' BY <1>1, <1>3, <1>5, <1>7 DEF Located, Executed
  <2>4. Completed(kind2)' BY <1>1, <1>4, <1>6, <1>7 DEF Located, Completed
  <2>5. Blocked(kind2)' BY <1>1, <1>3, <1>5, <1>7 DEF Located, Blocked
  <2>6. Listed(kind2, "ready", ToSet(ready))'
    BY <1>1, <1>2, <1>3, <1>5, <1>7 DEF Located, Listed, Related
  <2>7. Listed(kind2, "pooled", ToSet(pooled))'
    BY <1>1, <1>2, <1>3, <1>5, <1>7 DEF Located, Listed, Related
  <2>8. Listed(kind2, "waits", Waiting)'
    BY <1>1, <1>2, <1>3, <1>5, <1>7 DEF Located, Listed, Related, Waiting, client
  <2> QED BY <2>1, <2>2, <2>3, <2>4, <2>5, <2>6, <2>7, <2>8 DEF Located
<1> QED BY <1>7, <1>8, <1>9 DEF IInv

\* A task ends: the tasks that wait for it are ready.
LEMMA FinishIInv ==
  ASSUME IInv, NEW w \in Workers, Finish(w)
  PROVE  IInv'
<1>1. PICK kind \in [Workers -> Kinds] : Located(kind) BY DEF IInv
<1>2. State /\ TypeOK /\ NoDuplicates /\ Phases /\ Belongs /\ Fresh /\ Related
  BY RelatedHolds DEF IInv, State
<1>3. at[w] = "run" /\ running = w BY DEF Finish, Runs
<1>4. PICK d \in Tasks : d = task[w] /\ context[d] = w BY <1>2, <1>3 DEF Related
<1>5. PICK waiting \in SUBSET Tasks : waiting = {t \in Tasks : awaited[t] = d} OBVIOUS
<1>6. PICK l : l = SetToSeq(waiting) OBVIOUS
<1>7. /\ at' = [at EXCEPT ![w] = "fetch"] /\ status' = [status EXCEPT ![d] = "done"]
      /\ awaited' = [t \in Tasks |-> IF t \in waiting THEN None ELSE awaited[t]]
      /\ ready' = ready \o l
      /\ keepRunning' \in BOOLEAN
      /\ UNCHANGED <<pc, running, locals, pooled, new, kernel, context, task>>
  BY <1>4, <1>5, <1>6 DEF Finish
<1>8. kind[w] = "run" BY <1>1, <1>3 DEF Located, Executed
<1>9. l \in Lists(Tasks) /\ ToSet(l) = waiting
  <2>1. NumTasks \in Int /\ 1 \in Int OBVIOUS
  <2>2. IsFiniteSet(Tasks) BY <2>1, FS_Interval DEF Tasks
  <2>3. IsFiniteSet(waiting) BY <2>2, FS_Subset
  <2> QED BY <1>6, <2>3, SetToSeqList
<1>10. \A t \in waiting : /\ t \in Tasks /\ t \in Waiting /\ context[t] \in Workers
                          /\ context[t] # None /\ task[context[t]] = t
                          /\ kind[context[t]] = "waits" /\ t \notin ToSet(ready)
  BY <1>1, <1>2, <1>4, <1>5, Constants DEF Located, Listed, Related, Waiting
<1>11. ready' \in Lists(Tasks) /\ ToSet(ready') = ToSet(ready) \cup waiting
  <2>1. ToSet(ready) \cap ToSet(l) = {} BY <1>9, <1>10
  <2> QED BY <1>2, <1>7, <1>9, <2>1, ConcatList DEF NoDuplicates
<1>12. /\ at'[w] = "fetch" /\ \A v \in Workers : v # w => at'[v] = at[v]
       /\ status'[d] = "done" /\ \A t \in Tasks : t # d => status'[t] = status[t]
       /\ Waiting' = Waiting \ waiting
  BY <1>2, <1>7, Constants DEF TypeOK, Waiting
<1> DEFINE freed == {v \in Workers : kind[v] = "waits" /\ task[v] \in waiting}
<1>13. PICK F \in SUBSET Workers : F = freed OBVIOUS
<1> DEFINE kind2 == [v \in Workers |-> IF v \in F THEN "ready" ELSE kind[v]]
<1>14. /\ kind2 \in [Workers -> Kinds]
       /\ \A v \in Workers : kind[v] = "waits" /\ task[v] \in waiting => kind2[v] = "ready"
       /\ \A v \in Workers : ~ (kind[v] = "waits" /\ task[v] \in waiting) => kind2[v] = kind[v]
  BY <1>13 DEF Kinds
<1> HIDE DEF kind2
<1>15. TypeOK'
  <2>1. ready' \in Seq(Tasks) BY <1>11 DEF Lists
  <2>2. awaited' \in [Tasks -> Tasks \cup {None}] BY <1>2, <1>7 DEF TypeOK
  <2> QED BY <1>2, <1>7, <2>1, <2>2 DEF TypeOK, locals, kernel
<1>16. NoDuplicates' BY <1>2, <1>7, <1>11 DEF NoDuplicates, kernel
<1>17. Phases' BY <1>2, <1>7 DEF Phases
<1>18. Belongs' BY <1>2, <1>3, <1>7, <1>12 DEF Belongs, Related
<1>19. Fresh'
  <2>1. context[d] # None BY <1>4, Constants
  <2> QED BY <1>2, <1>7, <1>12, <2>1 DEF Fresh
<1>20. Located(kind2)'
  <2>1. Alive(kind2)'
    <3>1. kind2[w] = "run" BY <1>8, <1>14
    <3>2. \A v \in Workers : /\ at'[v] = "none" <=> at[v] = "none"
                             /\ at'[v] = "terminated" <=> at[v] = "terminated"
                             /\ at'[v] = "fetch" <=> v = w \/ at[v] = "fetch"
      BY <1>3, <1>12
    <3> QED BY <1>1, <1>14, <3>1, <3>2 DEF Located, Alive
  <2>2. Ended(kind2)'
    <3>1. \A v \in Workers : status[task[v]] = "done" /\ at[v] # "none" => status'[task[v]] = "done"
      BY <1>2, <1>12 DEF Related
    <3>2. \A v \in Workers : kind2[v] = "pooled" => kind[v] = "pooled" /\ at[v] # "none"
      BY <1>1, <1>14 DEF Located, Alive
    <3> QED BY <1>1, <1>4, <1>7, <1>12, <3>1, <3>2 DEF Located, Ended
  <2>3. Executed(kind2)' BY <1>1, <1>7, <1>14 DEF Located, Executed
  <2>4. Completed(kind2)' BY <1>1, <1>7, <1>14 DEF Located, Completed, kernel
  <2>5. Blocked(kind2)' BY <1>1, <1>7, <1>14 DEF Located, Blocked, kernel
  <2>6. Listed(kind2, "ready", ToSet(ready))'
    <3>1. \A v \in Workers : kind2[v] = "ready" => task[v] \in ToSet(ready')
      BY <1>1, <1>11, <1>14 DEF Located, Listed
    <3>2. \A u \in Tasks : u \in ToSet(ready') => context[u] # None /\ kind2[context[u]] = "ready"
      <4> SUFFICES ASSUME NEW u \in Tasks, u \in ToSet(ready')
                   PROVE  context[u] # None /\ kind2[context[u]] = "ready"
        OBVIOUS
      <4>1. CASE u \in ToSet(ready)
        <5>1. context[u] \in Workers /\ context[u] # None /\ kind[context[u]] = "ready"
          BY <1>1, <1>2, <4>1 DEF Located, Listed, Related
        <5> QED BY <1>14, <5>1
      <4>2. CASE u \in waiting BY <1>10, <1>14, <4>2
      <4> QED BY <1>11, <4>1, <4>2
    <3> QED BY <1>7, <3>1, <3>2 DEF Listed
  <2>7. Listed(kind2, "pooled", ToSet(pooled))'
    BY <1>1, <1>2, <1>7, <1>14 DEF Located, Listed, Related
  <2>8. Listed(kind2, "waits", Waiting)'
    <3>1. \A v \in Workers : kind2[v] = "waits" => kind[v] = "waits" /\ task[v] \notin waiting
      BY <1>14
    <3>2. \A v \in Workers : kind2[v] = "waits" => task[v] \in Waiting'
      BY <1>1, <1>12, <3>1 DEF Located, Listed
    <3>3. \A u \in Tasks : u \in Waiting' =>
            /\ u \notin waiting /\ context[u] \in Workers /\ kind[context[u]] = "waits"
            /\ task[context[u]] = u /\ context[u] # None
      BY <1>1, <1>2, <1>12 DEF Located, Listed, Related
    <3>4. \A u \in Tasks : u \in Waiting' => context[u] # None /\ kind2[context[u]] = "waits"
      BY <1>14, <3>3
    <3> QED BY <1>7, <3>2, <3>4 DEF Listed
  <2> QED BY <2>1, <2>2, <2>3, <2>4, <2>5, <2>6, <2>7, <2>8 DEF Located
<1> QED BY <1>14, <1>15, <1>16, <1>17, <1>18, <1>19, <1>20 DEF IInv, State

\* The last new task takes over the worker of a task that has ended: how the
\* relation of tasks and workers changes.
LEMMA TakeOverRelation ==
  ASSUME State, NEW w \in Workers, NEW old \in Tasks, NEW t, new # <<>>, t = Last(new),
         at[w] # "none", task[w] = old, status[old] = "done",
         TakeOver(t, old), new' = Front(new), status' = status,
         \A v \in Workers : at'[v] = "none" <=> at[v] = "none"
  PROVE  /\ t \in Tasks /\ t # old /\ context[t] = None /\ context[old] = w
         /\ context' \in [Tasks -> Workers \cup {None}] /\ task' \in [Workers -> Tasks \cup {None}]
         /\ context'[t] = w /\ context'[old] = None /\ task'[w] = t
         /\ \A u \in Tasks : u # t /\ u # old => context'[u] = context[u]
         /\ \A v \in Workers : v # w => task'[v] = task[v]
         /\ new' \in Lists(Tasks) /\ new' \in Seq(Tasks) /\ Belongs' /\ Fresh'
<1>1. TypeOK /\ NoDuplicates /\ Belongs /\ Fresh /\ Related BY RelatedHolds DEF State
<1>2. /\ t \in Tasks /\ t \in ToSet(new)
      /\ new' \in Lists(Tasks) /\ ToSet(new') = ToSet(new) \ {t}
  BY <1>1, FrontList DEF NoDuplicates
<1>3. context[old] = w BY <1>1 DEF Related
<1>4. status[t] = "new" /\ context[t] = None /\ t # old BY <1>1, <1>2 DEF Fresh
<1>5. context' = [context EXCEPT ![t] = w, ![old] = None] /\ task' = [task EXCEPT ![w] = t]
  BY <1>3 DEF TakeOver
<1>6. /\ context' \in [Tasks -> Workers \cup {None}] /\ task' \in [Workers -> Tasks \cup {None}]
      /\ context'[t] = w /\ context'[old] = None /\ task'[w] = t
      /\ \A u \in Tasks : u # t /\ u # old => context'[u] = context[u]
      /\ \A v \in Workers : v # w => task'[v] = task[v]
  BY <1>1, <1>2, <1>4, <1>5 DEF TypeOK
<1>7. Belongs'
  <2>1. \A v \in Workers : at'[v] # "none" => task'[v] \in Tasks /\ context'[task'[v]] = v
    <3> SUFFICES ASSUME NEW v \in Workers, at[v] # "none"
                 PROVE  task'[v] \in Tasks /\ context'[task'[v]] = v
      OBVIOUS
    <3>1. task[v] \in Tasks /\ context[task[v]] = v BY <1>1 DEF Related
    <3>2. CASE v = w BY <1>2, <1>6, <3>2
    <3>3. CASE v # w
      <4>1. task[v] # t /\ task[v] # old BY <1>3, <1>4, <3>1, <3>3, Constants
      <4> QED BY <1>6, <3>1, <3>3, <4>1
    <3> QED BY <3>2, <3>3
  <2>2. \A u \in Tasks : context'[u] # None => at'[context'[u]] # "none" /\ task'[context'[u]] = u
    <3> SUFFICES ASSUME NEW u \in Tasks, context'[u] # None
                 PROVE  at'[context'[u]] # "none" /\ task'[context'[u]] = u
      OBVIOUS
    <3>1. CASE u = t BY <1>6, <3>1
    <3>2. CASE u # t
      <4>1. u # old /\ context'[u] = context[u] BY <1>6, <3>2
      <4>2. context[u] \in Workers /\ at[context[u]] # "none" /\ task[context[u]] = u /\ context[u] # w
        BY <1>1, <4>1 DEF Related
      <4> QED BY <1>6, <4>1, <4>2
    <3> QED BY <3>1, <3>2
  <2> QED BY <2>1, <2>2 DEF Belongs
<1>8. Fresh'
  <2>1. \A u \in Tasks : u \in ToSet(new') <=> status[u] = "new" /\ context'[u] = None
    BY <1>1, <1>2, <1>4, <1>6, Constants DEF Fresh
  <2>2. \A u \in Tasks : status[u] = "unborn" => context'[u] = None
    BY <1>1, <1>4, <1>6 DEF Fresh
  <2> QED BY <2>1, <2>2 DEF Fresh
<1> QED BY <1>2, <1>3, <1>4, <1>6, <1>7, <1>8, ListSet

\* A pooled worker is given a new task, and executed.
LEMMA UsePooledIInv ==
  ASSUME IInv, UsePooled
  PROVE  IInv'
<1>1. PICK kind \in [Workers -> Kinds] : Located(kind) BY DEF IInv
<1>2. State /\ TypeOK /\ NoDuplicates /\ Phases /\ Related BY RelatedHolds DEF IInv, State
<1>3. PICK t : t = Last(new) OBVIOUS
<1>4. PICK old \in Tasks : /\ old = Last(pooled) /\ old \in ToSet(pooled)
                           /\ Front(pooled) \in Lists(Tasks)
                           /\ ToSet(Front(pooled)) = ToSet(pooled) \ {old}
  BY <1>2, FrontList DEF NoDuplicates, UsePooled
<1>5. PICK w \in Workers : w = context[old] /\ at[w] # "none" /\ task[w] = old /\ kind[w] = "pooled"
  BY <1>1, <1>2, <1>4 DEF Located, Listed, Related
<1>6. /\ pc = "schedule" /\ pooled' = Front(pooled) /\ new # <<>> /\ new' = Front(new)
      /\ TakeOver(t, old)
      /\ running' = w /\ pc' = "run" /\ workerStarted' = FALSE /\ unblockFailed' = FALSE
      /\ UNCHANGED <<ready, kernel, at, client>>
  BY <1>3, <1>4, <1>5 DEF UsePooled, Execute
<1>7. status[old] = "done" /\ at[w] \notin {"none", "terminated", "fetch"} /\ running = None
  BY <1>1, <1>2, <1>5, <1>6 DEF Located, Ended, Alive, Phases
<1>8. /\ t \in Tasks /\ t # old /\ context[t] = None /\ context[old] = w
      /\ context' \in [Tasks -> Workers \cup {None}] /\ task' \in [Workers -> Tasks \cup {None}]
      /\ context'[t] = w /\ context'[old] = None /\ task'[w] = t
      /\ \A u \in Tasks : u # t /\ u # old => context'[u] = context[u]
      /\ \A v \in Workers : v # w => task'[v] = task[v]
      /\ new' \in Lists(Tasks) /\ new' \in Seq(Tasks) /\ Belongs' /\ Fresh'
  <2>1. status' = status /\ at' = at BY <1>6 DEF client
  <2> QED BY <1>2, <1>3, <1>5, <1>6, <1>7, <2>1, TakeOverRelation
<1> DEFINE kind2 == [kind EXCEPT ![w] = "run"]
<1>9. /\ kind2 \in [Workers -> Kinds] /\ kind2[w] = "run"
      /\ \A v \in Workers : v # w => kind2[v] = kind[v]
  BY DEF Kinds
<1> HIDE DEF kind2
<1>10. TypeOK'
  <2>1. pooled' \in Seq(Tasks) BY <1>4, <1>6 DEF Lists
  <2> QED BY <1>2, <1>6, <1>8, <2>1 DEF TypeOK, kernel, client
<1>11. NoDuplicates' BY <1>2, <1>4, <1>6, <1>8 DEF NoDuplicates, kernel
<1>12. Phases' BY <1>6, Constants DEF Phases
<1>13. Located(kind2)'
  <2>1. Alive(kind2)' BY <1>1, <1>6, <1>7, <1>9 DEF Located, Alive
  <2>2. Ended(kind2)' BY <1>1, <1>6, <1>7, <1>8, <1>9 DEF Located, Ended, client
  <2>3. Executed(kind2)' BY <1>1, <1>6, <1>7, <1>9, Constants DEF Located, Executed
  <2>4. Completed(kind2)' BY <1>1, <1>5, <1>6, <1>9 DEF Located, Completed, kernel
  <2>5. Blocked(kind2)' BY <1>1, <1>5, <1>6, <1>9 DEF Located, Blocked, kernel
  <2>6. \A u \in Tasks : context[u] # None /\ context[u] # w =>
          context'[u] = context[u] /\ context[u] \in Workers /\ kind2[context'[u]] = kind[context[u]]
    BY <1>2, <1>8, <1>9 DEF Related
  <2>7. \A v \in Workers : kind2[v] # "run" => v # w /\ kind2[v] = kind[v] /\ task'[v] = task[v]
    BY <1>8, <1>9
  <2>8. Listed(kind2, "ready", ToSet(ready))'
    BY <1>1, <1>2, <1>5, <1>6, <2>6, <2>7 DEF Located, Listed
  <2>9. Listed(kind2, "waits", Waiting)'
    BY <1>1, <1>2, <1>5, <1>6, <2>6, <2>7 DEF Located, Listed, Waiting, client
  <2>10. Listed(kind2, "pooled", ToSet(pooled))'
    <3>1. \A v \in Workers : kind2[v] = "pooled" => task'[v] \in ToSet(pooled) /\ task'[v] # old
      BY <1>1, <1>2, <1>5, <1>8, <2>7 DEF Located, Listed, Alive, Related
    <3>2. \A u \in Tasks : u \in ToSet(pooled) /\ u # old =>
            context[u] # None /\ kind[context[u]] = "pooled" /\ context[u] # w
      BY <1>1, <1>2, <1>5 DEF Located, Listed, Related
    <3>3. \A u \in Tasks : u \in ToSet(pooled) /\ u # old =>
            context'[u] # None /\ kind2[context'[u]] = "pooled"
      BY <2>6, <3>2
    <3> QED BY <1>4, <1>6, <3>1, <3>3 DEF Listed
  <2> QED BY <2>1, <2>2, <2>3, <2>4, <2>5, <2>8, <2>9, <2>10 DEF Located
<1> QED BY <1>8, <1>9, <1>10, <1>11, <1>12, <1>13 DEF IInv, State

\* A worker whose task has ended takes over a new one.
LEMMA FetchTaskIInv ==
  ASSUME IInv, NEW w \in Workers, Fetch(w), new # <<>>
  PROVE  IInv'
<1>1. PICK kind \in [Workers -> Kinds] : Located(kind) BY DEF IInv
<1>2. State /\ TypeOK /\ NoDuplicates /\ Phases /\ Related BY RelatedHolds DEF IInv, State
<1>3. PICK t : t = Last(new) OBVIOUS
<1>4. at[w] = "fetch" /\ running = w BY DEF Fetch, Runs
<1>5. PICK old \in Tasks : old = task[w] BY <1>2, <1>4 DEF Related
<1>6. /\ new' = Front(new) /\ TakeOver(t, old) /\ at' = [at EXCEPT ![w] = "check"]
      /\ UNCHANGED <<pc, running, pooled, locals, ready, kernel, client>>
  BY <1>3, <1>5 DEF Fetch
<1>7. kind[w] = "run" /\ status[old] = "done"
  BY <1>1, <1>4, <1>5 DEF Located, Executed, Ended
<1>8. at'[w] = "check" /\ \A v \in Workers : v # w => at'[v] = at[v]
  BY <1>2, <1>6 DEF TypeOK
<1>9. /\ t \in Tasks /\ t # old /\ context[t] = None /\ context[old] = w
      /\ context' \in [Tasks -> Workers \cup {None}] /\ task' \in [Workers -> Tasks \cup {None}]
      /\ context'[t] = w /\ context'[old] = None /\ task'[w] = t
      /\ \A u \in Tasks : u # t /\ u # old => context'[u] = context[u]
      /\ \A v \in Workers : v # w => task'[v] = task[v]
      /\ new' \in Lists(Tasks) /\ new' \in Seq(Tasks) /\ Belongs' /\ Fresh'
  <2>1. status' = status BY <1>6 DEF client
  <2>2. \A v \in Workers : at'[v] = "none" <=> at[v] = "none" BY <1>4, <1>8
  <2> QED BY <1>2, <1>3, <1>4, <1>5, <1>6, <1>7, <2>1, <2>2, TakeOverRelation
<1>10. TypeOK' BY <1>2, <1>6, <1>9 DEF TypeOK, locals, kernel, client
<1>11. NoDuplicates' BY <1>2, <1>6, <1>9 DEF NoDuplicates, kernel
<1>12. Phases' BY <1>2, <1>6 DEF Phases
<1>13. \A u \in Tasks : context[u] # None /\ kind[context[u]] # "run" => context'[u] = context[u]
  BY <1>2, <1>7, <1>9 DEF Related
<1>14. \A v \in Workers : kind[v] # "run" => task'[v] = task[v] BY <1>7, <1>9
<1>15. Located(kind)'
  <2>1. Alive(kind)' BY <1>1, <1>7, <1>8 DEF Located, Alive
  <2>2. Ended(kind)'
    <3>1. kind[w] # "pooled" /\ \A v \in Workers : v # w => at'[v] = at[v] /\ task'[v] = task[v]
      BY <1>7, <1>8, <1>9
    <3> QED BY <1>1, <1>6, <1>8, <3>1 DEF Located, Ended, client
  <2>3. Executed(kind)' /\ Completed(kind)' /\ Blocked(kind)'
    BY <1>1, <1>6 DEF Located, Executed, Completed, Blocked, kernel
  <2>4. Listed(kind, "ready", ToSet(ready))' /\ Listed(kind, "pooled", ToSet(pooled))'
    BY <1>1, <1>6, <1>13, <1>14 DEF Located, Listed
  <2>5. Listed(kind, "waits", Waiting)'
    BY <1>1, <1>6, <1>13, <1>14 DEF Located, Listed, Waiting, client
  <2> QED BY <2>1, <2>2, <2>3, <2>4, <2>5 DEF Located
<1> QED BY <1>9, <1>10, <1>11, <1>12, <1>15 DEF IInv, State

\* While a task has no worker, there is a worker that has not been created.
LEMMA WorkerLeft ==
  ASSUME State, NEW t \in Tasks, context[t] = None
  PROVE  \E v \in Workers : at[v] = "none"
<1> SUFFICES ASSUME \A v \in Workers : at[v] # "none" PROVE FALSE OBVIOUS
<1>1. Related BY RelatedHolds
<1>2. \A v \in Workers : task[v] \in Tasks \ {t} /\ context[task[v]] = v
  BY <1>1, Constants DEF Related
<1> DEFINE f == [v \in Workers |-> task[v]]
<1>3. f \in [Tasks -> Tasks \ {t}] /\ \A u, v \in Tasks : f[u] = f[v] => u = v
  BY <1>2, Constants
<1> HIDE DEF f
<1>4. IsFiniteSet(Tasks)
  <2>1. NumTasks \in Int /\ 1 \in Int OBVIOUS
  <2> QED BY <2>1, FS_Interval DEF Tasks
<1>5. IsFiniteSet(Tasks \ {t}) /\ Cardinality(Tasks \ {t}) = Cardinality(Tasks) - 1
  BY <1>4, FS_RemoveElement
<1>6. Cardinality(Tasks) \in Nat BY <1>4, FS_CardinalityType
<1>7. Cardinality(Tasks \ {t}) < Cardinality(Tasks) BY <1>5, <1>6
<1>8. PICK u, v \in Tasks : u # v /\ f[u] = f[v]
  BY <1>3, <1>4, <1>5, <1>7, FS_PigeonHole
<1> QED BY <1>3, <1>8

\* A worker is created for the last new task, in the completion list.
LEMMA StartWorkerIInv ==
  ASSUME IInv, StartWorker
  PROVE  IInv'
<1>1. PICK kind \in [Workers -> Kinds] : Located(kind) BY DEF IInv
<1>2. State /\ TypeOK /\ NoDuplicates /\ Phases /\ Fresh /\ Related
  BY RelatedHolds DEF IInv, State
<1>3. PICK t \in Tasks : /\ t = Last(new) /\ t \in ToSet(new)
                         /\ Front(new) \in Lists(Tasks) /\ ToSet(Front(new)) = ToSet(new) \ {t}
  BY <1>2, FrontList DEF NoDuplicates, StartWorker
<1>4. status[t] = "new" /\ context[t] = None BY <1>2, <1>3 DEF Fresh
<1>5. PICK w \in Workers : w = (CHOOSE v \in Workers : at[v] = "none") /\ at[w] = "none"
  BY <1>2, <1>4, WorkerLeft
<1>6. /\ pc = "schedule" /\ pc' = "wait" /\ new' = Front(new)
      /\ context' = [context EXCEPT ![t] = w] /\ task' = [task EXCEPT ![w] = t]
      /\ at' = [at EXCEPT ![w] = "check"] /\ completed' = Append(completed, w)
      /\ workerStarted' = TRUE
      /\ UNCHANGED <<running, unblockFailed, ready, pooled, blocked, blocks, client>>
  BY <1>3, <1>5 DEF StartWorker
<1>7. /\ context'[t] = w /\ \A u \in Tasks : u # t => context'[u] = context[u]
      /\ task'[w] = t /\ at'[w] = "check"
      /\ \A v \in Workers : v # w => task'[v] = task[v] /\ at'[v] = at[v]
  BY <1>2, <1>6 DEF TypeOK
<1>8. kind[w] = "none" BY <1>1, <1>5 DEF Located, Alive
<1>9. w \notin ToSet(completed) BY <1>1, <1>8 DEF Located, Completed
<1>10. completed' \in Lists(Workers) /\ ToSet(completed') = ToSet(completed) \cup {w}
  BY <1>2, <1>6, <1>9, AppendList DEF NoDuplicates
<1> DEFINE kind2 == [kind EXCEPT ![w] = "completed"]
<1>11. /\ kind2 \in [Workers -> Kinds] /\ kind2[w] = "completed"
       /\ \A v \in Workers : v # w => kind2[v] = kind[v]
  BY DEF Kinds
<1> HIDE DEF kind2
<1>12. /\ \A u \in Tasks : context[u] # None =>
            context'[u] = context[u] /\ context[u] \in Workers /\ context[u] # w
       /\ \A v \in Workers : at[v] # "none" => v # w /\ task'[v] = task[v] /\ task[v] # t
  BY <1>2, <1>4, <1>5, <1>7, Constants DEF Related
<1>13. TypeOK'
  <2>1. new' \in Seq(Tasks) /\ completed' \in Seq(Workers) BY <1>3, <1>6, <1>10 DEF Lists
  <2> QED BY <1>2, <1>6, <2>1 DEF TypeOK, client
<1>14. NoDuplicates' BY <1>2, <1>3, <1>6, <1>10 DEF NoDuplicates
<1>15. Phases' BY <1>2, <1>6 DEF Phases
<1>16. Belongs'
  <2>1. \A v \in Workers : at'[v] # "none" => task'[v] \in Tasks /\ context'[task'[v]] = v
    BY <1>2, <1>7, <1>12 DEF Related
  <2>2. \A u \in Tasks : context'[u] # None => at'[context'[u]] # "none" /\ task'[context'[u]] = u
    BY <1>2, <1>7, <1>12 DEF Related
  <2> QED BY <2>1, <2>2 DEF Belongs
<1>17. Fresh' BY <1>2, <1>3, <1>4, <1>6, <1>7, Constants DEF Fresh, client
<1>18. Located(kind2)'
  <2>1. Alive(kind2)' BY <1>1, <1>5, <1>7, <1>11 DEF Located, Alive
  <2>2. Ended(kind2)' BY <1>1, <1>6, <1>7, <1>11 DEF Located, Ended, client
  <2>3. Executed(kind2)' BY <1>1, <1>6, <1>8, <1>11 DEF Located, Executed
  <2>4. Completed(kind2)' BY <1>1, <1>10, <1>11 DEF Located, Completed
  <2>5. Blocked(kind2)' BY <1>1, <1>6, <1>8, <1>11 DEF Located, Blocked
  <2>6. \A v \in Workers : kind2[v] # "completed" => v # w /\ kind2[v] = kind[v] /\ task'[v] = task[v]
    BY <1>7, <1>11
  <2>7. \A u \in Tasks : context[u] # None =>
          context'[u] = context[u] /\ kind2[context'[u]] = kind[context[u]]
    BY <1>11, <1>12
  <2>8. Listed(kind2, "ready", ToSet(ready))' BY <1>1, <1>6, <2>6, <2>7 DEF Located, Listed
  <2>9. Listed(kind2, "pooled", ToSet(pooled))' BY <1>1, <1>6, <2>6, <2>7 DEF Located, Listed
  <2>10. Listed(kind2, "waits", Waiting)'
    BY <1>1, <1>6, <2>6, <2>7 DEF Located, Listed, Waiting, client
  <2> QED BY <2>1, <2>2, <2>3, <2>4, <2>5, <2>8, <2>9, <2>10 DEF Located
<1> QED BY <1>11, <1>13, <1>14, <1>15, <1>16, <1>17, <1>18 DEF IInv, State

-----------------------------------------------------------------------------
(* The invariant holds.                                                     *)

LEMMA InitIInv == Init => IInv
<1> SUFFICES ASSUME Init PROVE IInv OBVIOUS
<1>1. /\ pc = "activated" /\ running = None
      /\ workerStarted = FALSE /\ unblockFailed = FALSE
      /\ ready = <<>> /\ pooled = <<>> /\ completed = <<>> /\ new = <<Main>>
      /\ context = [t \in Tasks |-> None] /\ task = [w \in Workers |-> None]
      /\ awaited = [t \in Tasks |-> None] /\ at = [w \in Workers |-> "none"]
      /\ status = [t \in Tasks |-> IF t = Main THEN "new" ELSE "unborn"]
      /\ blocked = {} /\ blocks = 0 /\ keepRunning = TRUE
  BY Constants DEF Init
<1>2. Main \in Tasks /\ 0 \in 0 .. MaxBlocks BY DEF Main, Tasks
<1>3. \A X : <<>> \in Lists(X) /\ ToSet(<<>>) = {} BY DEF Lists, IsInjective, ToSet
<1>4. new \in Lists(Tasks) /\ ToSet(new) = {Main}
  <2>1. Main \notin ToSet(<<>>) /\ <<>> \in Lists(Tasks) BY <1>3
  <2>2. Append(<<>>, Main) = <<Main>> BY <1>2
  <2>3. /\ Append(<<>>, Main) \in Lists(Tasks)
        /\ ToSet(Append(<<>>, Main)) = ToSet(<<>>) \cup {Main}
    BY <1>2, <2>1, AppendList
  <2> QED BY <1>1, <1>3, <2>2, <2>3
<1>5. NoDuplicates BY <1>1, <1>3, <1>4 DEF NoDuplicates
<1>6. TypeOK
  <2>1. new \in Seq(Tasks) BY <1>4 DEF Lists
  <2>2. \A t \in Tasks : status[t] \in {"unborn", "new"} BY <1>1
  <2>3. status \in [Tasks -> {"unborn", "new", "active", "done"}] BY <1>1, <2>2
  <2>4. /\ context \in [Tasks -> Workers \cup {None}] /\ task \in [Workers -> Tasks \cup {None}]
        /\ awaited \in [Tasks -> Tasks \cup {None}]
        /\ at \in [Workers -> {"none", "check", "run", "fetch", "terminated"}]
    BY <1>1
  <2>5. completed \in Seq(Workers) /\ ready \in Seq(Tasks) /\ pooled \in Seq(Tasks) BY <1>1
  <2>6. blocked \subseteq Workers /\ blocks \in 0 .. MaxBlocks BY <1>1, <1>2
  <2> QED BY <1>1, <2>1, <2>3, <2>4, <2>5, <2>6 DEF TypeOK
<1>7. Phases /\ Belongs BY <1>1 DEF Phases, Belongs
<1>8. Fresh BY <1>1, <1>2, <1>4 DEF Fresh
<1>9. PICK kind \in [Workers -> Kinds] : \A w \in Workers : kind[w] = "none"
  <2>1. [w \in Workers |-> "none"] \in [Workers -> Kinds] BY DEF Kinds
  <2> QED BY <2>1
<1>10. Located(kind)
  <2>1. Alive(kind) /\ Ended(kind) BY <1>1, <1>9 DEF Alive, Ended
  <2>2. Executed(kind) /\ Completed(kind) /\ Blocked(kind)
    BY <1>1, <1>3, <1>9, Constants DEF Executed, Completed, Blocked
  <2>3. /\ Listed(kind, "ready", ToSet(ready)) /\ Listed(kind, "pooled", ToSet(pooled))
        /\ Listed(kind, "waits", Waiting)
    BY <1>1, <1>3, <1>9 DEF Listed, Waiting
  <2> QED BY <2>1, <2>2, <2>3 DEF Located
<1> QED BY <1>5, <1>6, <1>7, <1>8, <1>10 DEF IInv, State

\* The completion list is dequeued when the thread is activated, and when it waits.
LEMMA CompletionIInv ==
  ASSUME IInv, Poll \/ Wait \/ Await
  PROVE  IInv'
<1>1. pc # "run" BY DEF Poll, Wait, Await
<1>2. workerStarted \in BOOLEAN /\ unblockFailed \in BOOLEAN BY DEF IInv, State, TypeOK
<1>3. CASE Dequeue BY <1>1, <1>3, DequeueIInv
<1>4. CASE ~Dequeue
  <2>1. PICK label \in {"local", "schedule", "interrupted"} : DequeueTerminated /\ pc' = label
    BY <1>4 DEF Poll, Wait, Await
  <2>2. workerStarted' \in BOOLEAN /\ unblockFailed' \in BOOLEAN
    BY <1>2, <1>4 DEF Poll, Wait, Await, locals
  <2> QED BY <1>1, <2>1, <2>2, DequeueTerminatedIInv
<1> QED BY <1>3, <1>4

LEMMA CheckIInv ==
  ASSUME IInv, NEW w \in Workers, Check(w)
  PROVE  IInv'
<1>1. CASE keepRunning BY <1>1, CalledIInv
<1>2. CASE ~keepRunning
  <2>1. /\ running = w /\ at[w] = "check" /\ Activate("activated") /\ blocked' = blocked \cup {w}
        /\ at' = [at EXCEPT ![w] = "terminated"]
        /\ UNCHANGED <<locals, deques, completed, blocks, context, task, client>>
    BY <1>2 DEF Check, Runs, client
  <2>2. blocks' \in 0 .. MaxBlocks BY <2>1 DEF IInv, State, TypeOK
  <2> QED BY <2>1, <2>2, BlockedIInv
<1> QED BY <1>1, <1>2

LEMMA BlockIInv ==
  ASSUME IInv, NEW w \in Workers, NEW label \in {"activated", "interrupted"}, Block(w, label)
  PROVE  IInv'
<1>1. TypeOK BY DEF IInv, State
<1>2. /\ running = w /\ at[w] = "run" /\ Activate(label) /\ blocked' = blocked \cup {w}
      /\ blocks' = blocks + 1 /\ blocks < MaxBlocks /\ at' = at
      /\ UNCHANGED <<locals, deques, completed, context, task, client>>
  BY DEF Block, Runs
<1>3. blocks' \in 0 .. MaxBlocks
  <2>1. blocks \in 0 .. MaxBlocks BY <1>1 DEF TypeOK
  <2> QED BY <1>2, <2>1
<1>4. at' = [at EXCEPT ![w] = "run"] BY <1>1, <1>2 DEF TypeOK
<1> QED BY <1>2, <1>3, <1>4, BlockedIInv

LEMMA NextIInv == IInv /\ [Next]_vars => IInv'
<1> SUFFICES ASSUME IInv, [Next]_vars PROVE IInv' OBVIOUS
<1>1. ASSUME SchedulerStep PROVE IInv'
  <2>1. CASE Poll \/ Wait \/ Await BY <2>1, CompletionIInv
  <2>2. CASE Local \/ Interrupted BY <2>2, TakeLocalIInv DEF Local, Interrupted
  <2>3. CASE UsePooled BY <2>3, UsePooledIInv
  <2>4. CASE StartWorker BY <2>4, StartWorkerIInv
  <2>5. CASE StartNone
    <3>1. pc # "run" /\ Skip("wait") BY <2>5 DEF StartNone
    <3> QED BY <3>1, SkipIInv
  <2> QED BY <1>1, <2>1, <2>2, <2>3, <2>4, <2>5 DEF SchedulerStep
<1>2. ASSUME WorkerStep PROVE IInv'
  <2>1. PICK w \in Workers :
          \/ Check(w) \/ Finish(w) \/ Fetch(w)
          \/ \E t \in Tasks : Spawn(w, t) \/ WaitFor(w, t)
          \/ \E label \in {"activated", "interrupted"} : Block(w, label)
    BY <1>2 DEF WorkerStep
  <2> QED BY <2>1, CheckIInv, FinishIInv, FetchTaskIInv, PoolIInv, SpawnIInv, WaitForIInv, BlockIInv
<1>3. ASSUME NEW w \in Workers, Unblock(w) PROVE IInv' BY <1>3, UnblockIInv
<1>4. CASE UNCHANGED vars
  <2>1. PICK kind \in [Workers -> Kinds] : Located(kind) BY DEF IInv
  <2>2. State' BY <1>4 DEF IInv, State, TypeOK, NoDuplicates, Phases, Belongs, Fresh,
          vars, locals, deques, kernel, client
  <2>3. Located(kind)'
    BY <1>4, <2>1 DEF Located, Alive, Ended, Executed, Completed, Blocked, Listed, Waiting,
       vars, locals, deques, kernel, client
  <2> QED BY <2>2, <2>3 DEF IInv
<1> QED BY <1>1, <1>2, <1>3, <1>4 DEF Next

-----------------------------------------------------------------------------
(* What the invariant says of the places.                                   *)

\* The places in a list of something that is there, once, or is not there.
LEMMA InList ==
  ASSUME NEW X, NEW l \in Lists(X), NEW place, NEW x
  PROVE  /\ x \in ToSet(l) => \E y : In(place, l, x) = {y}
         /\ x \notin ToSet(l) => In(place, l, x) = {}
<1> DEFINE At == {i \in DOMAIN l : l[i] = x}
<1>1. x \notin ToSet(l) => At = {} BY DEF ToSet
<1>2. x \in ToSet(l) => \E i : At = {i} BY DEF ToSet, Lists, IsInjective
<1>3. In(place, l, x) = {<<place, i>> : i \in At} BY DEF In
<1> HIDE DEF At
<1>4. ASSUME x \in ToSet(l) PROVE \E y : In(place, l, x) = {y}
  <2>1. PICK i : At = {i} BY <1>2, <1>4
  <2>2. In(place, l, x) = {<<place, i>>} BY <1>3, <2>1
  <2> QED BY <2>2
<1>5. ASSUME x \notin ToSet(l) PROVE In(place, l, x) = {} BY <1>1, <1>3, <1>5
<1> QED BY <1>4, <1>5

\* A worker that has not ended is in one place.
LEMMA PlaceIsOne ==
  ASSUME IInv, NEW w \in Workers, at[w] \notin {"none", "terminated"}
  PROVE  Cardinality(Places(w)) = 1
<1>1. PICK kind \in [Workers -> Kinds] : Located(kind) BY DEF IInv
<1>2. State /\ NoDuplicates /\ Related BY RelatedHolds DEF IInv, State
<1>3. PICK t \in Tasks : t = task[w] /\ context[t] = w BY <1>2 DEF Related
<1>4. PICK k \in Kinds : k = kind[w] OBVIOUS
<1>5. k \in {"run", "ready", "pooled", "completed", "blocked", "waits"}
  BY <1>1, <1>4 DEF Located, Alive, Kinds
<1> DEFINE Run == {<<"run">> : v \in {w} \cap {running}}
           Ready == In("ready", ready, t)
           Pooled == In("pooled", pooled, t)
           Done == In("completed", completed, w)
           Stuck == {<<"blocked">> : v \in {w} \cap blocked}
           Waits == {<<"waits">> : u \in {u \in {t} : awaited[u] # None}}
           One(S) == \E y : S = {y}
<1>6. Places(w) = Run \cup Ready \cup Pooled \cup Done \cup Stuck \cup Waits
  BY <1>3 DEF Places
<1>7. (k = "run" => One(Run)) /\ (k # "run" => Run = {})
  <2>1. running = w <=> k = "run" BY <1>1, <1>4 DEF Located, Executed
  <2>2. running = w => Run = {<<"run">>} OBVIOUS
  <2>3. running # w => Run = {} OBVIOUS
  <2> QED BY <2>1, <2>2, <2>3
<1>8. (k = "ready" => One(Ready)) /\ (k # "ready" => Ready = {})
  <2>1. t \in ToSet(ready) <=> k = "ready" BY <1>1, <1>3, <1>4 DEF Located, Listed
  <2> QED BY <1>2, <2>1, InList DEF NoDuplicates
<1>9. (k = "pooled" => One(Pooled)) /\ (k # "pooled" => Pooled = {})
  <2>1. t \in ToSet(pooled) <=> k = "pooled" BY <1>1, <1>3, <1>4 DEF Located, Listed
  <2> QED BY <1>2, <2>1, InList DEF NoDuplicates
<1>10. (k = "completed" => One(Done)) /\ (k # "completed" => Done = {})
  <2>1. w \in ToSet(completed) <=> k = "completed" BY <1>1, <1>4 DEF Located, Completed
  <2> QED BY <1>2, <2>1, InList DEF NoDuplicates
<1>11. (k = "blocked" => One(Stuck)) /\ (k # "blocked" => Stuck = {})
  <2>1. w \in blocked <=> k = "blocked" BY <1>1, <1>4 DEF Located, Blocked
  <2>2. w \in blocked => Stuck = {<<"blocked">>} OBVIOUS
  <2>3. w \notin blocked => Stuck = {} OBVIOUS
  <2> QED BY <2>1, <2>2, <2>3
<1>12. (k = "waits" => One(Waits)) /\ (k # "waits" => Waits = {})
  <2>1. awaited[t] # None <=> k = "waits" BY <1>1, <1>3, <1>4 DEF Located, Listed, Waiting
  <2>2. awaited[t] # None => Waits = {<<"waits">>} OBVIOUS
  <2>3. ~ (awaited[t] # None) => Waits = {} OBVIOUS
  <2> QED BY <2>1, <2>2, <2>3
<1> HIDE DEF Run, Ready, Pooled, Done, Stuck, Waits
<1>13. One(Places(w)) BY <1>5, <1>6, <1>7, <1>8, <1>9, <1>10, <1>11, <1>12
<1> QED BY <1>13, FS_Singleton

LEMMA IInvOnePlace == IInv => OnePlace
<1> SUFFICES ASSUME IInv PROVE OnePlace OBVIOUS
<1>1. State /\ NoDuplicates /\ Fresh /\ Related BY RelatedHolds DEF IInv, State
<1>2. ASSUME NEW w \in Workers, at[w] \notin {"none", "terminated"}
      PROVE  Cardinality(Places(w)) = 1 /\ context[task[w]] = w
  BY <1>1, <1>2, PlaceIsOne DEF Related
<1>3. ASSUME NEW t \in Tasks, status[t] = "new"
      PROVE  Cardinality(In("new", new, t)) = IF context[t] = None THEN 1 ELSE 0
  <2>1. new \in Lists(Tasks) /\ (t \in ToSet(new) <=> context[t] = None)
    BY <1>1, <1>3 DEF NoDuplicates, Fresh
  <2>2. CASE context[t] = None
    <3>1. \E y : In("new", new, t) = {y} BY <2>1, <2>2, InList
    <3> QED BY <2>2, <3>1, FS_Singleton
  <2>3. CASE context[t] # None
    <3>1. In("new", new, t) = {} BY <2>1, <2>3, InList
    <3> QED BY <2>3, <3>1, FS_EmptySet
  <2> QED BY <2>2, <2>3
<1> QED BY <1>2, <1>3 DEF OnePlace

\* With one scheduler thread, a worker that has not ended is executed, or is in one
\* list: no worker is lost, and none is found twice. A task that has not begun is in
\* the deque of new tasks, or has a worker.
THEOREM WorkersInOnePlace == Spec => []OnePlace
<1>1. Spec => []IInv BY InitIInv, NextIInv, PTL DEF Spec
<1> QED BY <1>1, IInvOnePlace, PTL
=============================================================================
