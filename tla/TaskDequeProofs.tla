-------------------------- MODULE TaskDequeProofs --------------------------
(***************************************************************************)
(* BoundedConcurrentTaskDeque implements an atomic deque on the processor's *)
(* store buffers, for every number of thieves, of slots and of tasks.       *)
(***************************************************************************)
EXTENDS TaskDeque, WellFoundedInduction, TLAPS

USE ConstantsAssumption
-----------------------------------------------------------------------------
(* The inductive invariant.                                                 *)

Entry == [to : {"bottom", "slot"}, at : 0 .. Capacity - 1, value : Int]

Labels == {"idle", "pushBottom", "popTop", "popCas",
           "stealTop", "stealBottom", "stealTask", "stealCas"}

TypeOK ==
  /\ bottom \in Int /\ top \in Nat
  /\ slots \in [0 .. Capacity - 1 -> Int]
  /\ buffer \in Seq(Entry)
  /\ pc \in [Agents -> Labels]
  /\ b \in [Agents -> Int] /\ t \in [Agents -> Nat] /\ task \in [Agents -> Int]
  /\ pushed \in 0 .. MaxPushes
  /\ taken \in [1 .. MaxPushes -> Seq(Agents)]

\* Where the deque ends, the task of an operation under way included.
End == IF pc[Owner] = "idle" THEN OwnBottom ELSE OwnBottom + 1

\* f[k] is what bottom will be in memory after the first k stores of the buffer:
\* it never falls, but for the store of a pop under way, which is the last one.
Stores(f) ==
  /\ f[0] = bottom
  /\ \A k \in DOMAIN buffer :
       \/ buffer[k].to = "slot" /\ buffer[k].at = Slot(f[k - 1]) /\ f[k] = f[k - 1]
       \/ buffer[k].to = "bottom" /\ buffer[k].value = f[k]
  /\ \A j, k \in 0 .. Len(buffer) : j <= k =>
       f[j] <= f[k] \/ (pc[Owner] = "popTop" /\ k = Len(buffer) /\ f[j] <= f[k] + 1)

\* g[i] is the i-th task of the deque, counted from its first: the tasks left
\* are those from top to the end, in order, each in its slot or on its way there.
Items(f, g) ==
  /\ top <= End /\ End <= top + Capacity
  /\ Left = {g[i] : i \in top .. End - 1}
  /\ \A n \in pushed + 1 .. MaxPushes : taken[n] = << >>
  /\ \A i, j \in top .. End - 1 : i < j => g[i] < g[j]
  /\ \A k \in DOMAIN buffer : buffer[k].to = "slot" =>
       f[k - 1] \in top .. End - 1 /\ buffer[k].value = g[f[k - 1]]
  /\ \A i \in top .. End - 1 :
       \/ slots[Slot(i)] = g[i]
       \/ \E k \in DOMAIN buffer : buffer[k].to = "slot" /\ f[k - 1] = i

\* A push has read what the owner stored last, and a pop has stored what it read
\* less one; at its compare-and-swap in memory.
Popping ==
  /\ pc[Owner] = "pushBottom" => b[Owner] = OwnBottom
  /\ pc[Owner] \in {"popTop", "popCas"} => b[Owner] = OwnBottom
  /\ pc[Owner] = "popCas" => buffer = << >> /\ t[Owner] = b[Owner]

\* The first task is there, and in memory.
Settled(f) == /\ top < End
              /\ \A k \in DOMAIN buffer : buffer[k].to = "slot" => f[k - 1] # top

\* An operation whose compare-and-swap would succeed has the first task.
Racing(f, g) ==
  /\ \A a \in Thieves :
       /\ pc[a] \in {"stealBottom", "stealTask", "stealCas"} => t[a] <= top
       /\ pc[a] \in {"stealTask", "stealCas"} /\ t[a] = top => Settled(f)
       /\ pc[a] = "stealCas" /\ t[a] = top => task[a] = g[top]
  /\ pc[Owner] = "popCas" => t[Owner] <= top /\ (t[Owner] = top => task[Owner] = g[top])

Holds(f, g) == TypeOK /\ Popping /\ Stores(f) /\ Items(f, g) /\ Racing(f, g)
IInv == \E f \in [Nat -> Int], g \in [Nat -> Nat] : Holds(f, g)

-----------------------------------------------------------------------------
(* Lemmas about the operators.                                              *)

\* Indices closer than the capacity have slots of their own.
LEMMA SlotApart ==
  ASSUME NEW i \in Nat, NEW j \in Nat, i < j, j < i + Capacity
  PROVE  Slot(i) # Slot(j)
<1> DEFINE C == Capacity
           p == i \div C
           q == j \div C
           r == i % C
<1>1. C \in Nat \ {0} /\ p \in Int /\ q \in Int /\ r \in Int
  OBVIOUS
<1>2. i = C * p + r /\ j = C * q + (j % C)
  OBVIOUS
<1> HIDE DEF C, p, q, r
<1> SUFFICES ASSUME j % C = r PROVE FALSE
  BY DEF Slot, C, r
<1>3. j - i = C * (q - p)
  BY <1>1, <1>2
<1>4. 0 < C * (q - p) /\ C * (q - p) < C
  BY <1>1, <1>3 DEF C
<1>5. ~ (q - p <= 0) /\ ~ (q - p >= 1)
  BY <1>1, <1>4
<1> QED BY <1>1, <1>5

LEMMA SlotTyped == ASSUME NEW i \in Int PROVE Slot(i) \in 0 .. Capacity - 1
  BY DEF Slot

\* A nonempty set of naturals has a smallest element, and a bounded one a largest.
LEMMA Smallest ==
  ASSUME NEW S \in SUBSET Nat, S # {}
  PROVE  \E m \in S : \A n \in S : m <= n
<1> DEFINE R == OpToRel(<, Nat)
<1>1. IsWellFoundedOn(R, Nat)
  BY NatLessThanWellFounded
<1>2. \A x, y \in Nat : <<x, y>> \in R <=> x < y
  BY DEF OpToRel
<1> HIDE DEF R
<1>3. PICK m \in S : \A n \in S : ~ (<<n, m>> \in R)
  BY <1>1, WFMin
<1>4. \A n \in S : ~ (n < m)
  BY <1>2, <1>3
<1> QED BY <1>4

LEMMA Largest ==
  ASSUME NEW n \in Nat, NEW S \in SUBSET (0 .. n), S # {}
  PROVE  Max(S) \in S /\ \A k \in S : k <= Max(S)
<1> DEFINE T == {x \in Nat : n - x \in S}
<1>1. \A k \in S : k \in 0 .. n /\ n - k \in T
  OBVIOUS
<1>a. T # {}
  BY <1>1
<1>2. PICK m \in T : \A x \in T : m <= x
  BY <1>a, Smallest
<1>3. \A k \in S : m <= n - k
  BY <1>1, <1>2
<1>4. n - m \in S /\ \A k \in S : n - m >= k
  BY <1>1, <1>2, <1>3
<1> QED BY <1>4 DEF Max

\* What the owner reads of bottom is what memory holds once its buffer is empty.
LEMMA OwnLast ==
  \A f \in [Nat -> Int] : buffer \in Seq(Entry) /\ Stores(f) => OwnBottom = f[Len(buffer)]
<1> SUFFICES ASSUME NEW f \in [Nat -> Int], buffer \in Seq(Entry), Stores(f)
             PROVE  OwnBottom = f[Len(buffer)]
  OBVIOUS
<1> DEFINE n == Len(buffer)
           stores == {k \in DOMAIN buffer : buffer[k].to = "bottom"}
<1>1. n \in Nat /\ DOMAIN buffer = 1 .. n
  OBVIOUS
<1>2. \A k \in 1 .. n : k \notin stores => f[k] = f[k - 1]
  BY <1>1 DEF Stores
<1>3. \A k \in stores : k \in 1 .. n /\ buffer[k].value = f[k]
  BY <1>1 DEF Stores
<1>4. OwnBottom = IF stores = {} THEN bottom ELSE buffer[Max(stores)].value
  BY DEF OwnBottom
<1> HIDE DEF n, stores
<1>5. ASSUME NEW m \in 0 .. n, \A k \in stores : k <= m
      PROVE  f[n] = f[m]
  <2> DEFINE D == {k \in Nat : m <= k /\ k <= n /\ f[k] # f[m]}
  <2>1. CASE D = {}
    BY <1>1, <2>1
  <2>2. CASE D # {}
    <3>1. PICK k \in D : \A j \in D : k <= j
      BY <2>2, Smallest
    <3>2. k # m /\ k \in Nat /\ m <= k /\ k <= n
      BY <3>1
    <3>3. k - 1 \in Nat /\ m <= k - 1 /\ k - 1 <= n /\ k \in 1 .. n
      BY <1>1, <3>2
    <3>4. k - 1 \notin D
      BY <3>1, <3>2
    <3>5. f[k - 1] = f[m]
      BY <3>3, <3>4
    <3>6. k \notin stores
      BY <1>5, <3>2, <1>3
    <3> QED BY <1>2, <3>1, <3>3, <3>5, <3>6
  <2> QED BY <2>1, <2>2
<1>6. CASE stores = {}
  <2>1. f[n] = f[0]
    BY <1>1, <1>5, <1>6
  <2> QED BY <1>4, <1>6, <2>1 DEF Stores, n
<1>7. CASE stores # {}
  <2>1. stores \in SUBSET (0 .. n)
    BY <1>1, <1>3
  <2>2. Max(stores) \in stores /\ \A k \in stores : k <= Max(stores)
    BY <1>1, <1>7, <2>1, Largest
  <2>3. f[n] = f[Max(stores)]
    BY <1>5, <2>1, <2>2
  <2> QED BY <1>3, <1>4, <1>7, <2>2, <2>3 DEF n
<1> QED BY <1>6, <1>7

LEMMA OwnLastNext ==
  (\A f \in [Nat -> Int] : buffer \in Seq(Entry) /\ Stores(f) => OwnBottom = f[Len(buffer)])'
BY OwnLast, PTL

\* Taking a task that is left leaves the others.
LEMMA TakeLeft ==
  ASSUME TypeOK, NEW a \in Agents, NEW n \in Left, Take(a, n), pushed' = pushed
  PROVE  /\ Left' = Left \ {n} /\ taken[n] = << >> /\ n \in 1 .. MaxPushes
         /\ taken' = [taken EXCEPT ![n] = <<a>>] /\ taken' # taken
         /\ taken' \in [1 .. MaxPushes -> Seq(Agents)]
<1>1. n \in 1 .. pushed /\ n \in 1 .. MaxPushes /\ taken[n] = << >>
  BY DEF Left, TypeOK
<1>2. Append(<< >>, a) = <<a>> /\ <<a>> # << >> /\ <<a>> \in Seq(Agents)
  OBVIOUS
<1>3. taken' = [taken EXCEPT ![n] = <<a>>]
  BY <1>1, <1>2 DEF Take
<1>4. taken' \in [1 .. MaxPushes -> Seq(Agents)] /\ taken'[n] = <<a>>
  BY <1>1, <1>2, <1>3 DEF TypeOK
<1>5. \A m \in 1 .. MaxPushes : m # n => taken'[m] = taken[m]
  BY <1>3 DEF TypeOK
<1>6. \A m \in 1 .. pushed : m \in 1 .. MaxPushes
  BY DEF TypeOK
<1>7. Left' = Left \ {n}
  BY <1>1, <1>2, <1>4, <1>5, <1>6 DEF Left
<1>8. taken' # taken
  BY <1>1, <1>2, <1>4
<1> QED BY <1>1, <1>3, <1>4, <1>7, <1>8

-----------------------------------------------------------------------------
(* What the steps do to the store buffer.                                   *)

\* A step that stores nothing.
LEMMA SameStores ==
  ASSUME NEW f \in [Nat -> Int], Stores(f), buffer' = buffer, bottom' = bottom,
         pc'[Owner] = pc[Owner] \/ pc[Owner] # "popTop" \/ buffer = << >>
  PROVE  Stores(f)' /\ OwnBottom' = OwnBottom
<1>1. OwnBottom' = OwnBottom
  BY DEF OwnBottom
<1>2. ASSUME NEW j \in 0 .. Len(buffer), NEW k \in 0 .. Len(buffer), j <= k
      PROVE  f[j] <= f[k] \/ (pc'[Owner] = "popTop" /\ k = Len(buffer) /\ f[j] <= f[k] + 1)
  <2>1. CASE buffer = << >>
    <3>1. j = k /\ f[j] \in Int
      BY <1>2, <2>1
    <3> QED BY <3>1
  <2>2. CASE pc'[Owner] = pc[Owner] \/ pc[Owner] # "popTop"
    BY <1>2, <2>2 DEF Stores
  <2> QED BY <2>1, <2>2
<1>3. Stores(f)'
  BY <1>2 DEF Stores
<1> QED BY <1>1, <1>3

\* A store of the owner: v is the bottom it leaves.
LEMMA AppendStores ==
  ASSUME NEW f \in [Nat -> Int], Stores(f), buffer \in Seq(Entry),
         pc[Owner] # "popTop" \/ buffer = << >>,
         NEW w \in Entry, NEW v \in Int, buffer' = Append(buffer, w), bottom' = bottom,
         \/ w.to = "slot" /\ w.at = Slot(f[Len(buffer)]) /\ v = f[Len(buffer)]
         \/ w.to = "bottom" /\ w.value = v,
         \/ f[Len(buffer)] <= v
         \/ pc'[Owner] = "popTop" /\ f[Len(buffer)] <= v + 1,
         NEW h \in [Nat -> Int], h[Len(buffer) + 1] = v,
         \A k \in 0 .. Len(buffer) : h[k] = f[k]
  PROVE  Stores(h)' /\ OwnBottom' = v /\ buffer' \in Seq(Entry)
<1> DEFINE n == Len(buffer)
<1>1. n \in Nat /\ DOMAIN buffer = 1 .. n
  OBVIOUS
<1>2. /\ buffer' \in Seq(Entry) /\ Len(buffer') = n + 1 /\ DOMAIN buffer' = 1 .. n + 1
      /\ buffer'[n + 1] = w /\ \A k \in 1 .. n : buffer'[k] = buffer[k]
  OBVIOUS
<1>3. h[0] = bottom'
  <2>1. 0 \in 0 .. n
    BY <1>1
  <2> QED BY <2>1 DEF Stores
<1>4. ASSUME NEW k \in DOMAIN buffer'
      PROVE  \/ buffer'[k].to = "slot" /\ buffer'[k].at = Slot(h[k - 1]) /\ h[k] = h[k - 1]
             \/ buffer'[k].to = "bottom" /\ buffer'[k].value = h[k]
  <2>1. CASE k \in 1 .. n
    <3>1. k \in 0 .. n /\ k - 1 \in 0 .. n /\ h[k] = f[k] /\ h[k - 1] = f[k - 1]
      BY <1>1, <2>1
    <3> QED BY <1>1, <1>2, <2>1, <3>1 DEF Stores
  <2>2. CASE k = n + 1
    <3>1. n \in 0 .. n /\ k - 1 = n /\ h[k - 1] = f[n] /\ h[k] = v
      BY <1>1, <2>2
    <3> QED BY <1>2, <2>2, <3>1
  <2> QED BY <1>1, <1>2, <2>1, <2>2
<1>5. ASSUME NEW j \in 0 .. n + 1, NEW k \in 0 .. n + 1, j <= k
      PROVE  h[j] <= h[k] \/ (pc'[Owner] = "popTop" /\ k = n + 1 /\ h[j] <= h[k] + 1)
  <2>1. \A x \in 0 .. n : \A y \in 0 .. n : x <= y => f[x] <= f[y]
    <3>1. CASE pc[Owner] # "popTop"
      BY <3>1 DEF Stores
    <3>2. CASE buffer = << >>
      <4>1. \A x \in 0 .. n : x = 0
        BY <3>2
      <4>2. f[0] <= f[0]
        BY <1>1
      <4> QED BY <4>1, <4>2
    <3> QED BY <3>1, <3>2
  <2>2. CASE k \in 0 .. n
    <3>1. j \in 0 .. n /\ h[j] = f[j] /\ h[k] = f[k]
      BY <1>1, <1>5, <2>2
    <3> QED BY <1>5, <2>1, <2>2, <3>1
  <2>3. CASE k = n + 1 /\ j \in 0 .. n
    <3>1. n \in 0 .. n /\ h[j] = f[j] /\ f[j] <= f[n] /\ h[k] = v /\ f[j] \in Int /\ f[n] \in Int
      BY <1>1, <2>1, <2>3
    <3> QED BY <2>3, <3>1
  <2>4. CASE j = n + 1 /\ k = n + 1
    BY <2>4
  <2> QED BY <1>1, <1>5, <2>2, <2>3, <2>4
<1> HIDE DEF n
<1>6. Stores(h)'
  BY <1>2, <1>3, <1>4, <1>5 DEF Stores
<1>7. OwnBottom' = h[Len(buffer')]
  BY <1>2, <1>6, OwnLastNext
<1> QED BY <1>2, <1>6, <1>7 DEF n

\* The first store of the buffer reaches memory.
LEMMA FlushStores ==
  ASSUME TypeOK, NEW f \in [Nat -> Int], Stores(f), Flush,
         NEW h \in [Nat -> Int], \A k \in Nat : h[k] = f[k + 1]
  PROVE  /\ Stores(h)' /\ OwnBottom' = OwnBottom
         /\ buffer' \in Seq(Entry) /\ DOMAIN buffer' = 1 .. Len(buffer) - 1
         /\ 1 \in DOMAIN buffer
         /\ \A k \in DOMAIN buffer' : k + 1 \in DOMAIN buffer /\ buffer'[k] = buffer[k + 1]
         /\ \/ /\ buffer[1].to = "bottom" /\ slots' = slots
            \/ /\ buffer[1].to = "slot" /\ buffer[1].at = Slot(bottom)
               /\ slots' = [slots EXCEPT ![Slot(bottom)] = buffer[1].value]
         /\ bottom' = f[1]
<1> DEFINE n == Len(buffer)
<1>1. buffer \in Seq(Entry) /\ buffer # << >> /\ buffer' = Tail(buffer)
  BY DEF Flush, TypeOK
<1>a. n \in Nat /\ n > 0 /\ DOMAIN buffer = 1 .. n
  <2>1. Len(buffer) \in Nat /\ DOMAIN buffer = 1 .. Len(buffer)
    BY <1>1
  <2>2. Len(buffer) # 0
    BY <1>1
  <2> QED BY <2>1, <2>2
<1>2. n \in Nat /\ n > 0 /\ DOMAIN buffer = 1 .. n /\ 1 \in DOMAIN buffer /\ Head(buffer) = buffer[1]
  BY <1>1, <1>a
<1>3. buffer' \in Seq(Entry) /\ Len(buffer') = n - 1 /\ DOMAIN buffer' = 1 .. n - 1
  BY <1>1
<1>4. \A k \in 1 .. n - 1 : k + 1 \in 1 .. n /\ buffer'[k] = buffer[k + 1]
  BY <1>1
<1>b. \A k \in 1 .. n - 1 : k \in 0 .. n - 1 /\ k # 0 /\ k + 1 \in 1 .. n /\ (k + 1) - 1 = k
  BY <1>a
<1>5. ASSUME NEW k \in 0 .. n - 1
      PROVE  h[k] = f[k + 1] /\ k + 1 \in 0 .. n /\ (k # 0 => h[k - 1] = f[k])
  <2>1. k \in Nat /\ k + 1 \in 0 .. n
    BY <1>a
  <2>2. k # 0 => k - 1 \in Nat /\ (k - 1) + 1 = k
    BY <2>1
  <2> QED BY <2>1, <2>2
<1>6. \/ buffer[1].to = "bottom" /\ buffer[1].value = f[1] /\ bottom' = f[1] /\ slots' = slots
      \/ /\ buffer[1].to = "slot" /\ buffer[1].at = Slot(bottom) /\ f[1] = bottom
         /\ slots' = [slots EXCEPT ![Slot(bottom)] = buffer[1].value]
         /\ bottom' = bottom
  <2>1. \/ buffer[1].to = "slot" /\ buffer[1].at = Slot(f[1 - 1]) /\ f[1] = f[1 - 1]
        \/ buffer[1].to = "bottom" /\ buffer[1].value = f[1]
    BY <1>2 DEF Stores
  <2>2. f[1 - 1] = bottom
    BY DEF Stores
  <2>3. IF buffer[1].to = "bottom"
          THEN bottom' = buffer[1].value /\ slots' = slots
          ELSE slots' = [slots EXCEPT ![buffer[1].at] = buffer[1].value] /\ bottom' = bottom
    BY <1>2 DEF Flush
  <2> QED BY <2>1, <2>2, <2>3
<1>7. pc' = pc
  BY DEF Flush
<1> HIDE DEF n
<1>8. h[0] = bottom'
  BY <1>2, <1>5, <1>6
<1>9. ASSUME NEW k \in DOMAIN buffer'
      PROVE  \/ buffer'[k].to = "slot" /\ buffer'[k].at = Slot(h[k - 1]) /\ h[k] = h[k - 1]
             \/ buffer'[k].to = "bottom" /\ buffer'[k].value = h[k]
  <2>1. k \in 1 .. n - 1 /\ n \in Nat /\ DOMAIN buffer = 1 .. n
    BY <1>a, <1>3
  <2>a. k \in 0 .. n - 1 /\ k # 0 /\ k + 1 \in DOMAIN buffer /\ (k + 1) - 1 = k
    BY <1>b, <2>1
  <2>2. h[k] = f[k + 1] /\ h[k - 1] = f[k] /\ buffer'[k] = buffer[k + 1]
    BY <1>3, <1>4, <1>5, <2>a
  <2> QED BY <2>a, <2>2 DEF Stores
<1>10. ASSUME NEW j \in 0 .. n - 1, NEW k \in 0 .. n - 1, j <= k
       PROVE  h[j] <= h[k] \/ (pc'[Owner] = "popTop" /\ k = n - 1 /\ h[j] <= h[k] + 1)
  <2>1. h[j] = f[j + 1] /\ h[k] = f[k + 1] /\ j + 1 \in 0 .. n /\ k + 1 \in 0 .. n
    BY <1>5
  <2>2. j + 1 <= k + 1 /\ (k + 1 = n => k = n - 1)
    BY <1>2, <1>10
  <2> QED BY <1>7, <2>1, <2>2 DEF Stores, n
<1>11. Stores(h)'
  BY <1>3, <1>8, <1>9, <1>10 DEF Stores
<1>12. OwnBottom' = OwnBottom
  <2>1. OwnBottom' = h[n - 1]
    BY <1>3, <1>11, OwnLastNext
  <2>2. OwnBottom = f[n]
    BY <1>1, OwnLast DEF n
  <2>3. n - 1 \in 0 .. n - 1 /\ (n - 1) + 1 = n
    BY <1>2
  <2> QED BY <1>5, <2>1, <2>2, <2>3
<1>13. \A k \in DOMAIN buffer' : k + 1 \in DOMAIN buffer /\ buffer'[k] = buffer[k + 1]
  BY <1>2, <1>3, <1>4
<1> QED BY <1>2, <1>3, <1>6, <1>11, <1>12, <1>13 DEF n

-----------------------------------------------------------------------------
(* What the invariant says of the ends.                                     *)

LEMMA Ends ==
  ASSUME NEW f \in [Nat -> Int], NEW g \in [Nat -> Nat], Holds(f, g)
  PROVE  /\ Owner \in Agents /\ Len(buffer) \in Nat /\ DOMAIN buffer = 1 .. Len(buffer)
         /\ OwnBottom = f[Len(buffer)] /\ OwnBottom \in Int /\ End \in Nat
         /\ top \in Nat /\ top <= End /\ End <= top + Capacity
         /\ \A i \in top .. End - 1 : i \in Nat /\ g[i] \in Left /\ g[i] \in 1 .. pushed
         /\ \A i, j \in top .. End - 1 : Slot(i) = Slot(j) => i = j
         /\ bottom <= End
<1>1. buffer \in Seq(Entry) /\ top \in Nat /\ top <= End /\ End <= top + Capacity
  BY DEF Holds, TypeOK, Items
<1>a. Len(buffer) \in Nat /\ DOMAIN buffer = 1 .. Len(buffer)
  BY <1>1
<1>2. OwnBottom = f[Len(buffer)] /\ Len(buffer) \in Nat /\ DOMAIN buffer = 1 .. Len(buffer)
  BY <1>1, <1>a, OwnLast DEF Holds
<1>3. OwnBottom \in Int /\ End \in Int
  BY <1>2 DEF End
<1>b. Left = {g[i] : i \in top .. End - 1}
  BY DEF Holds, Items
<1>c. \A i \in top .. End - 1 : i \in Nat
  BY <1>1, <1>3
<1>4. \A i \in top .. End - 1 : i \in Nat /\ g[i] \in Left
  BY <1>b, <1>c
<1>5. ASSUME NEW i \in top .. End - 1, NEW j \in top .. End - 1, Slot(i) = Slot(j)
      PROVE  i = j
  <2>1. i \in Nat /\ j \in Nat /\ i < j + Capacity /\ j < i + Capacity
    BY <1>1, <1>3
  <2>2. ~ (i < j) /\ ~ (j < i)
    BY <1>5, <2>1, SlotApart
  <2> QED BY <2>1, <2>2
<1>6. bottom <= End
  <2>0. \A n \in Nat : 0 \in 0 .. n /\ n \in 0 .. n /\ 0 <= n
    OBVIOUS
  <2>1. 0 \in 0 .. Len(buffer) /\ Len(buffer) \in 0 .. Len(buffer) /\ 0 <= Len(buffer)
    BY <1>a, <2>0
  <2>2. f[0] <= f[Len(buffer)] \/ (pc[Owner] = "popTop" /\ f[0] <= f[Len(buffer)] + 1)
    BY <2>1 DEF Holds, Stores
  <2>3. f[0] = bottom /\ f[0] \in Int
    BY DEF Holds, Stores
  <2>4. bottom <= OwnBottom \/ (pc[Owner] = "popTop" /\ bottom <= OwnBottom + 1)
    BY <1>2, <2>2, <2>3
  <2> QED BY <1>3, <2>3, <2>4 DEF End
<1>7. Owner \in Agents
  BY DEF Agents
<1>8. \A i \in top .. End - 1 : g[i] \in 1 .. pushed
  BY <1>4 DEF Left
<1>9. End \in Nat
  BY <1>1, <1>3
<1> QED BY <1>1, <1>2, <1>3, <1>4, <1>5, <1>6, <1>7, <1>8, <1>9

\* Taking the first or the last task leaves the others.
LEMMA TakeEnd ==
  ASSUME NEW f \in [Nat -> Int], NEW g \in [Nat -> Nat], Holds(f, g), top < End
  PROVE  /\ top \in top .. End - 1 /\ End - 1 \in top .. End - 1
         /\ \A m \in Left : g[top] <= m /\ m <= g[End - 1]
         /\ Left \ {g[top]} = {g[i] : i \in top + 1 .. End - 1}
         /\ Left \ {g[End - 1]} = {g[i] : i \in top .. End - 2}
<1>1. top \in Nat /\ End \in Nat /\ Left = {g[i] : i \in top .. End - 1}
  BY Ends DEF Holds, Items
<1>2. \A i \in top .. End - 1 : i \in Nat /\ g[i] \in Nat
  BY <1>1
<1>3. \A i, j \in top .. End - 1 : i < j => g[i] < g[j]
  BY DEF Holds, Items
<1>4. top \in top .. End - 1 /\ End - 1 \in top .. End - 1
  BY <1>1
<1>5. ASSUME NEW m \in Left PROVE g[top] <= m /\ m <= g[End - 1]
  <2>1. PICK i \in top .. End - 1 : m = g[i]
    BY <1>1
  <2>2. (i = top \/ top < i) /\ (i = End - 1 \/ i < End - 1)
    BY <1>1
  <2>3. g[i] \in Nat /\ g[top] \in Nat /\ g[End - 1] \in Nat
    BY <1>2, <1>4
  <2>4. top < i => g[top] < g[i]
    BY <1>3, <1>4
  <2>5. i < End - 1 => g[i] < g[End - 1]
    BY <1>3, <1>4
  <2> QED BY <2>1, <2>2, <2>3, <2>4, <2>5
<1>6. \A i \in top .. End - 1 : i # top => g[i] # g[top]
  <2> SUFFICES ASSUME NEW i \in top .. End - 1, i # top PROVE g[i] # g[top]
    OBVIOUS
  <2>1. top < i
    BY <1>1
  <2>2. g[top] < g[i]
    BY <1>3, <1>4, <2>1
  <2> QED BY <1>2, <1>4, <2>2
<1>7. \A i \in top .. End - 1 : i # End - 1 => g[i] # g[End - 1]
  <2> SUFFICES ASSUME NEW i \in top .. End - 1, i # End - 1 PROVE g[i] # g[End - 1]
    OBVIOUS
  <2>1. i < End - 1
    BY <1>1
  <2>2. g[i] < g[End - 1]
    BY <1>3, <1>4, <2>1
  <2> QED BY <1>2, <1>4, <2>2
<1>8. \A i : i \in top + 1 .. End - 1 <=> i \in top .. End - 1 /\ i # top
  BY <1>1
<1>9. \A i : i \in top .. End - 2 <=> i \in top .. End - 1 /\ i # End - 1
  BY <1>1
<1>10. Left \ {g[top]} = {g[i] : i \in top + 1 .. End - 1}
  BY <1>1, <1>6, <1>8
<1>11. Left \ {g[End - 1]} = {g[i] : i \in top .. End - 2}
  BY <1>1, <1>7, <1>9
<1> QED BY <1>4, <1>5, <1>10, <1>11

\* A step of the owner that leaves the first task where it is.
LEMMA RacingKept ==
  ASSUME NEW f \in [Nat -> Int], NEW g \in [Nat -> Nat], Holds(f, g),
         NEW h, NEW k, top' = top, pc'[Owner] # "popCas",
         \A a \in Thieves : pc'[a] = pc[a] /\ t'[a] = t[a] /\ task'[a] = task[a],
         Settled(f) => Settled(h)' /\ k[top] = g[top]
  PROVE  Racing(h, k)'
<1> SUFFICES ASSUME NEW a \in Thieves
             PROVE  /\ pc'[a] \in {"stealBottom", "stealTask", "stealCas"} => t'[a] <= top'
                    /\ pc'[a] \in {"stealTask", "stealCas"} /\ t'[a] = top' => Settled(h)'
                    /\ pc'[a] = "stealCas" /\ t'[a] = top' => task'[a] = k[top']
  BY DEF Racing
<1>1. /\ pc[a] \in {"stealBottom", "stealTask", "stealCas"} => t[a] <= top
      /\ pc[a] \in {"stealTask", "stealCas"} /\ t[a] = top => Settled(f)
      /\ pc[a] = "stealCas" /\ t[a] = top => task[a] = g[top]
  BY DEF Holds, Racing
<1> QED BY <1>1

-----------------------------------------------------------------------------
(* Every step preserves the invariant and is a step of DequeSpec.           *)

\* The registers of a thread, when only another one moves.
Still(a) == pc'[a] = pc[a] /\ b'[a] = b[a] /\ t'[a] = t[a] /\ task'[a] = task[a]

\* A step of a thief leaves the owner's view.
LEMMA ThiefKeeps ==
  ASSUME NEW f \in [Nat -> Int], NEW g \in [Nat -> Nat], Holds(f, g),
         UNCHANGED <<bottom, slots, buffer>>, Still(Owner)
  PROVE  /\ Popping' /\ Stores(f)' /\ End' = End
         /\ (Settled(f) /\ top' = top) => Settled(f)'
         /\ UNCHANGED <<top, pushed, taken>> => Items(f, g)'
<1>1. Stores(f)' /\ OwnBottom' = OwnBottom
  BY SameStores DEF Holds, Still
<1>2. End' = End
  BY <1>1 DEF End, Still
<1>3. Popping'
  BY <1>1 DEF Holds, Popping, Still
<1>4. (Settled(f) /\ top' = top) => Settled(f)'
  BY <1>2 DEF Settled
<1>5. ASSUME UNCHANGED <<top, pushed, taken>> PROVE Items(f, g)'
  <2>1. Left' = Left
    BY <1>5 DEF Left
  <2> QED BY <1>2, <1>5, <2>1 DEF Holds, Items
<1> QED BY <1>1, <1>2, <1>3, <1>4, <1>5

\* The return of an operation keeps the registers typed.
LEMMA Update ==
  ASSUME NEW S, NEW T, NEW F \in [S -> T], NEW x, NEW v \in T
  PROVE  [F EXCEPT ![x] = v] \in [S -> T]
OBVIOUS

LEMMA ResetTyped ==
  ASSUME TypeOK, NEW a \in Agents, Reset(a)
  PROVE  /\ pc' \in [Agents -> Labels] /\ b' \in [Agents -> Int]
         /\ t' \in [Agents -> Nat] /\ task' \in [Agents -> Int]
<1>1. /\ pc \in [Agents -> Labels] /\ b \in [Agents -> Int]
      /\ t \in [Agents -> Nat] /\ task \in [Agents -> Int]
  BY DEF TypeOK
<1>2. "idle" \in Labels /\ 0 \in Int /\ 0 \in Nat
  BY DEF Labels
<1>3. b' = [b EXCEPT ![a] = 0] /\ t' = [t EXCEPT ![a] = 0] /\ task' = [task EXCEPT ![a] = 0]
  BY DEF Reset
<1>4. pc' = [pc EXCEPT ![a] = "idle"]
  BY DEF Reset, Goto
<1>5. b' \in [Agents -> Int] /\ task' \in [Agents -> Int]
  BY <1>1, <1>2, <1>3, Update
<1>6. t' \in [Agents -> Nat] /\ pc' \in [Agents -> Labels]
  BY <1>1, <1>2, <1>3, <1>4, Update
<1> QED BY <1>5, <1>6

LEMMA StealTopHolds ==
  ASSUME NEW f \in [Nat -> Int], NEW g \in [Nat -> Nat], Holds(f, g),
         NEW a \in Thieves, StealTop(a)
  PROVE  Holds(f, g)' /\ UNCHANGED Abstract!vars
<1> USE DEF StealTop, Goto
<1>1. TypeOK'
  <2>1. "stealBottom" \in Labels /\ top \in Nat /\ pc \in [Agents -> Labels] /\ t \in [Agents -> Nat]
    BY DEF Holds, TypeOK, Labels
  <2>2. pc' \in [Agents -> Labels] /\ t' \in [Agents -> Nat]
    BY <2>1, Update
  <2> QED BY <2>2 DEF Holds, TypeOK
<1>2. a \in Agents /\ \A c \in Agents : c # a => Still(c)
  BY DEF Agents, Holds, TypeOK, Still
<1>3. Still(Owner)
  BY <1>2 DEF Agents
<1>4. Popping' /\ Stores(f)' /\ Items(f, g)' /\ (Settled(f) => Settled(f)')
  BY <1>3, ThiefKeeps
<1>5. pc'[a] = "stealBottom" /\ t'[a] = top /\ top \in Nat
  BY <1>2 DEF Holds, TypeOK
<1>6. Racing(f, g)'
  BY <1>2, <1>3, <1>4, <1>5 DEF Holds, Racing, Still, Agents
<1> QED BY <1>1, <1>4, <1>6 DEF Holds, Abstract!vars

LEMMA StealBottomHolds ==
  ASSUME NEW f \in [Nat -> Int], NEW g \in [Nat -> Nat], Holds(f, g),
         NEW a \in Thieves, StealBottom(a)
  PROVE  Holds(f, g)' /\ UNCHANGED Abstract!vars
<1> USE DEF StealBottom, Goto, Reset
<1>1. TypeOK'
  <2>1. "stealTask" \in Labels /\ pc \in [Agents -> Labels] /\ b \in [Agents -> Int]
        /\ t \in [Agents -> Nat] /\ task \in [Agents -> Int]
    BY DEF Holds, TypeOK, Labels
  <2>2. /\ pc' \in [Agents -> Labels] /\ b' \in [Agents -> Int]
        /\ t' \in [Agents -> Nat] /\ task' \in [Agents -> Int]
    <3>1. CASE t[a] < bottom
      <4>1. pc' = [pc EXCEPT ![a] = "stealTask"] /\ UNCHANGED <<b, t, task>>
        BY <3>1
      <4> QED BY <2>1, <4>1, Update
    <3>2. CASE ~ (t[a] < bottom)
      BY <3>2, ResetTyped DEF Holds, Agents
    <3> QED BY <3>1, <3>2
  <2> QED BY <2>2 DEF Holds, TypeOK
<1>2. a \in Agents /\ \A c \in Agents : c # a => Still(c)
  BY DEF Agents, Holds, TypeOK, Still
<1>3. Still(Owner)
  BY <1>2 DEF Agents
<1>4. Popping' /\ Stores(f)' /\ Items(f, g)' /\ (Settled(f) => Settled(f)')
  BY <1>3, ThiefKeeps
<1>5. t[a] <= top
  BY DEF Holds, Racing
<1>6. \/ pc'[a] = "idle"
      \/ pc'[a] = "stealTask" /\ t'[a] = t[a] /\ t[a] < bottom
  BY <1>2 DEF Holds, TypeOK
<1>7. t[a] = top /\ t[a] < bottom => Settled(f)
  <2> SUFFICES ASSUME top < bottom PROVE Settled(f)
    OBVIOUS
  <2>a. top \in Nat /\ End \in Nat /\ bottom \in Int /\ bottom <= End
    BY Ends DEF Holds, TypeOK
  <2>1. top < End
    BY <2>a
  <2>2. ASSUME NEW k \in DOMAIN buffer PROVE bottom <= f[k - 1]
    <3>a. \A n \in Nat : \A i \in 1 .. n : i - 1 \in 0 .. n /\ 0 \in 0 .. n /\ 0 <= i - 1 /\ i - 1 # n
      OBVIOUS
    <3>b. Len(buffer) \in Nat /\ DOMAIN buffer = 1 .. Len(buffer)
      BY Ends
    <3>1. k - 1 \in 0 .. Len(buffer) /\ 0 \in 0 .. Len(buffer) /\ 0 <= k - 1 /\ k - 1 # Len(buffer)
      BY <3>a, <3>b
    <3>2. f[0] <= f[k - 1] /\ f[0] = bottom
      BY <3>1 DEF Holds, Stores
    <3> QED BY <3>2
  <2>3. \A k \in DOMAIN buffer : f[k - 1] # top
    <3> SUFFICES ASSUME NEW k \in DOMAIN buffer, f[k - 1] = top PROVE FALSE
      OBVIOUS
    <3>1. bottom <= top
      BY <2>2
    <3> QED BY <2>a, <3>1
  <2> QED BY <2>1, <2>3 DEF Settled
<1>8. Racing(f, g)'
  BY <1>2, <1>3, <1>4, <1>5, <1>6, <1>7 DEF Holds, Racing, Still, Agents
<1> QED BY <1>1, <1>4, <1>8 DEF Holds, Abstract!vars

\* In a settled deque the first task is in its slot.
LEMMA FirstInSlot ==
  ASSUME NEW f \in [Nat -> Int], NEW g \in [Nat -> Nat], Holds(f, g), Settled(f)
  PROVE  slots[Slot(top)] = g[top]
<1>1. top \in top .. End - 1
  <2>1. top < End /\ top \in Nat /\ End \in Nat
    BY Ends DEF Settled
  <2> QED BY <2>1
<1> QED BY <1>1 DEF Holds, Items, Settled

LEMMA StealTaskHolds ==
  ASSUME NEW f \in [Nat -> Int], NEW g \in [Nat -> Nat], Holds(f, g),
         NEW a \in Thieves, StealTask(a)
  PROVE  Holds(f, g)' /\ UNCHANGED Abstract!vars
<1> USE DEF StealTask, Goto
<1>2. a \in Agents /\ \A c \in Agents : c # a => Still(c)
  BY DEF Agents, Holds, TypeOK, Still
<1>a. Slot(t[a]) \in 0 .. Capacity - 1
  BY <1>2, SlotTyped DEF Holds, TypeOK
<1>1. TypeOK'
  <2>1. "stealCas" \in Labels /\ pc \in [Agents -> Labels] /\ task \in [Agents -> Int]
    BY DEF Holds, TypeOK, Labels
  <2>2. slots[Slot(t[a])] \in Int
    BY <1>a DEF Holds, TypeOK
  <2>3. pc' \in [Agents -> Labels] /\ task' \in [Agents -> Int]
    BY <2>1, <2>2, Update
  <2> QED BY <2>3 DEF Holds, TypeOK
<1>3. Still(Owner)
  BY <1>2 DEF Agents
<1>4. Popping' /\ Stores(f)' /\ Items(f, g)' /\ (Settled(f) => Settled(f)')
  BY <1>3, ThiefKeeps
<1>5. t[a] <= top /\ (t[a] = top => Settled(f)) /\ pc[a] = "stealTask"
  BY DEF Holds, Racing
<1>6. pc'[a] = "stealCas" /\ t'[a] = t[a] /\ task'[a] = slots[Slot(t[a])]
  BY <1>2 DEF Holds, TypeOK
<1>7. t[a] = top => task'[a] = g[top]
  BY <1>5, <1>6, FirstInSlot
<1>8. Racing(f, g)'
  BY <1>2, <1>3, <1>4, <1>5, <1>6, <1>7 DEF Holds, Racing, Still, Agents
<1> QED BY <1>1, <1>4, <1>8 DEF Holds, Abstract!vars

LEMMA StealCasHolds ==
  ASSUME NEW f \in [Nat -> Int], NEW g \in [Nat -> Nat], Holds(f, g),
         NEW a \in Thieves, StealCas(a)
  PROVE  Holds(f, g)' /\ [Abstract!Steal(a)]_(Abstract!vars)
<1> USE DEF StealCas, Goto, Reset
<1>1. a \in Agents /\ \A c \in Agents : c # a => Still(c)
  BY DEF Agents, Holds, TypeOK, Still
<1>2. Still(Owner)
  BY <1>1 DEF Agents
<1>3. Popping' /\ Stores(f)' /\ End' = End
  BY <1>2, ThiefKeeps
<1>4. pc[a] = "stealCas" /\ (t[a] = top => Settled(f) /\ task[a] = g[top])
  BY DEF Holds, Racing
<1>5. CASE top # t[a]
  <2> USE <1>5
  <2>1. TypeOK'
    <3>1. /\ "stealTop" \in Labels /\ 0 \in Nat /\ 0 \in Int
          /\ pc \in [Agents -> Labels] /\ t \in [Agents -> Nat] /\ task \in [Agents -> Int]
      <4>1. "stealTop" \in Labels /\ 0 \in Nat /\ 0 \in Int
        BY DEF Labels
      <4> QED BY <4>1 DEF Holds, TypeOK
    <3>2. pc' = [pc EXCEPT ![a] = "stealTop"] /\ UNCHANGED <<top, b, taken>>
          /\ t' = [t EXCEPT ![a] = 0] /\ task' = [task EXCEPT ![a] = 0]
      OBVIOUS
    <3>3. pc' \in [Agents -> Labels] /\ t' \in [Agents -> Nat] /\ task' \in [Agents -> Int]
      BY <3>1, <3>2, Update
    <3> QED BY <3>2, <3>3 DEF Holds, TypeOK
  <2>2. Items(f, g)' /\ (Settled(f) => Settled(f)')
    BY <1>2, ThiefKeeps
  <2>3. pc'[a] = "stealTop"
    BY <1>1 DEF Holds, TypeOK
  <2>4. Racing(f, g)'
    BY <1>1, <1>2, <2>2, <2>3 DEF Holds, Racing, Still, Agents
  <2> QED BY <1>3, <2>1, <2>2, <2>4 DEF Holds, Abstract!vars
<1>6. CASE top = t[a]
  <2>1. /\ top' = top + 1 /\ Take(a, g[top]) /\ pc' = [pc EXCEPT ![a] = "idle"]
        /\ UNCHANGED <<bottom, slots, buffer, pushed>>
    BY <1>4, <1>6
  <2>2. top < End /\ top \in Nat /\ End \in Nat
    BY <1>4, <1>6, Ends DEF Settled
  <2>3. /\ g[top] \in Left /\ \A m \in Left : g[top] <= m
        /\ Left \ {g[top]} = {g[i] : i \in top + 1 .. End - 1}
    BY <2>2, Ends, TakeEnd
  <2>4. /\ Left' = Left \ {g[top]} /\ taken' = [taken EXCEPT ![g[top]] = <<a>>]
        /\ taken' \in [1 .. MaxPushes -> Seq(Agents)]
    BY <1>1, <2>1, <2>3, TakeLeft DEF Holds
  <2>5. TypeOK'
    <3>1. /\ pc' \in [Agents -> Labels] /\ b' \in [Agents -> Int]
          /\ t' \in [Agents -> Nat] /\ task' \in [Agents -> Int]
      BY <1>1, <1>6, ResetTyped DEF Holds
    <3>2. top' \in Nat
      BY <2>1, <2>2
    <3> QED BY <2>1, <2>4, <3>1, <3>2 DEF Holds, TypeOK
  <2>6. \A i : i \in top + 1 .. End - 1 => i \in top .. End - 1 /\ i # top
    BY <2>2
  <2>7. Items(f, g)'
    <3>1. top' <= End' /\ End' <= top' + Capacity
      <4>1. End <= top + Capacity
        BY Ends
      <4> QED BY <1>3, <2>1, <2>2, <4>1
    <3>2. Left' = {g[i] : i \in top' .. End' - 1}
      BY <1>3, <2>1, <2>3, <2>4
    <3>3. \A i, j \in top' .. End' - 1 : i < j => g[i] < g[j]
      BY <1>3, <2>1, <2>6 DEF Holds, Items
    <3>4. \A k \in DOMAIN buffer' : buffer'[k].to = "slot" =>
            f[k - 1] \in top' .. End' - 1 /\ buffer'[k].value = g[f[k - 1]]
      <4> SUFFICES ASSUME NEW k \in DOMAIN buffer, buffer[k].to = "slot"
                   PROVE  f[k - 1] \in top + 1 .. End - 1 /\ buffer[k].value = g[f[k - 1]]
        BY <1>3, <2>1
      <4>1. f[k - 1] \in top .. End - 1 /\ buffer[k].value = g[f[k - 1]] /\ f[k - 1] # top
        BY <1>4, <1>6 DEF Holds, Items, Settled
      <4> QED BY <2>2, <4>1
    <3>5. \A i \in top' .. End' - 1 :
            \/ slots'[Slot(i)] = g[i]
            \/ \E k \in DOMAIN buffer' : buffer'[k].to = "slot" /\ f[k - 1] = i
      BY <1>3, <2>1, <2>6 DEF Holds, Items
    <3>6. \A n \in pushed' + 1 .. MaxPushes : taken'[n] = << >>
      <4> SUFFICES ASSUME NEW n \in pushed + 1 .. MaxPushes PROVE taken'[n] = << >>
        BY <2>1
      <4>1. pushed \in Nat /\ n \notin 1 .. pushed /\ n \in 1 .. MaxPushes
        BY DEF Holds, TypeOK
      <4>2. n # g[top]
        BY <2>3, <4>1 DEF Left
      <4> QED BY <2>4, <4>1, <4>2 DEF Holds, Items, TypeOK
    <3> QED BY <3>1, <3>2, <3>3, <3>4, <3>5, <3>6 DEF Items
  <2>8. pc'[a] = "idle"
    BY <1>1, <2>1 DEF Holds, TypeOK
  <2>9. Racing(f, g)'
    <3>1. ASSUME NEW c \in Thieves, c # a, pc[c] \in {"stealBottom", "stealTask", "stealCas"}
          PROVE  Still(c) /\ t'[c] <= top' /\ t'[c] # top'
      <4>1. Still(c) /\ t[c] <= top /\ t[c] \in Nat
        BY <1>1, <3>1 DEF Holds, Racing, TypeOK, Agents
      <4> QED BY <2>1, <2>2, <4>1 DEF Still
    <3>2. ASSUME pc'[Owner] = "popCas" PROVE t'[Owner] <= top' /\ t'[Owner] # top'
      <4>1. t[Owner] <= top /\ t[Owner] \in Nat /\ t'[Owner] = t[Owner]
        BY <1>2, <3>2 DEF Holds, Racing, TypeOK, Agents, Still
      <4> QED BY <2>1, <2>2, <4>1
    <3>3. \A c \in Thieves : c # a => pc'[c] = pc[c]
      BY <1>1 DEF Still, Agents
    <3> QED BY <2>8, <3>1, <3>2, <3>3 DEF Racing
  <2>10. Abstract!Steal(a)
    <3>1. Abstract!Contents = Left
      BY DEF Abstract!Contents, Left
    <3> QED BY <2>1, <2>3, <2>4, <3>1 DEF Abstract!Steal, Abstract!Return
  <2> QED BY <1>3, <2>5, <2>7, <2>9, <2>10 DEF Holds
<1> QED BY <1>5, <1>6

LEMMA FlushHolds ==
  ASSUME NEW f \in [Nat -> Int], NEW g \in [Nat -> Nat], Holds(f, g), Flush
  PROVE  IInv' /\ UNCHANGED Abstract!vars
<1>1. PICK h \in [Nat -> Int] : \A k \in Nat : h[k] = f[k + 1]
  <2>1. [k \in Nat |-> f[k + 1]] \in [Nat -> Int]
    OBVIOUS
  <2> QED BY <2>1
<1>2. /\ Stores(h)' /\ OwnBottom' = OwnBottom
      /\ buffer' \in Seq(Entry) /\ DOMAIN buffer' = 1 .. Len(buffer) - 1
      /\ 1 \in DOMAIN buffer
      /\ \A k \in DOMAIN buffer' : k + 1 \in DOMAIN buffer /\ buffer'[k] = buffer[k + 1]
      /\ \/ /\ buffer[1].to = "bottom" /\ slots' = slots
         \/ /\ buffer[1].to = "slot" /\ buffer[1].at = Slot(bottom)
            /\ slots' = [slots EXCEPT ![Slot(bottom)] = buffer[1].value]
      /\ bottom' = f[1]
  BY <1>1, FlushStores DEF Holds
<1>3. UNCHANGED <<top, pc, b, t, task, pushed, taken>>
  BY DEF Flush
<1>4. End' = End /\ Left' = Left
  BY <1>2, <1>3 DEF End, Left
<1>5. /\ Len(buffer) \in Nat /\ DOMAIN buffer = 1 .. Len(buffer) /\ End \in Nat /\ top \in Nat
      /\ \A i \in top .. End - 1 : i \in Nat
      /\ \A i, j \in top .. End - 1 : Slot(i) = Slot(j) => i = j
  BY Ends
<1>6. TypeOK'
  <2>a. bottom \in Int /\ buffer \in Seq(Entry) /\ slots \in [0 .. Capacity - 1 -> Int]
    BY DEF Holds, TypeOK
  <2>b. buffer[1] \in Entry
    BY <1>2, <2>a
  <2>1. buffer[1].value \in Int /\ f[1] \in Int
    BY <2>b DEF Entry
  <2>2. slots' \in [0 .. Capacity - 1 -> Int]
    BY <1>2, <2>1, <2>a, Update
  <2> QED BY <1>2, <1>3, <2>1, <2>2 DEF Holds, TypeOK
<1>7. Popping'
  <2>1. pc[Owner] # "popCas"
    <3>1. buffer # << >>
      BY DEF Flush
    <3> QED BY <3>1 DEF Holds, Popping
  <2> QED BY <1>2, <1>3, <2>1 DEF Holds, Popping
<1>8. ASSUME NEW k \in DOMAIN buffer'
      PROVE  k + 1 \in DOMAIN buffer /\ buffer'[k] = buffer[k + 1] /\ h[k - 1] = f[(k + 1) - 1]
  <2>1. \A n \in Nat : \A i \in 1 .. n - 1 : i - 1 \in Nat /\ (i - 1) + 1 = i /\ (i + 1) - 1 = i
    OBVIOUS
  <2>2. k - 1 \in Nat /\ (k - 1) + 1 = k /\ (k + 1) - 1 = k
    BY <1>2, <1>5, <2>1
  <2> QED BY <1>1, <1>2, <2>2
<1>9. Items(h, g)'
  <2>1. \A k \in DOMAIN buffer' : buffer'[k].to = "slot" =>
          h[k - 1] \in top .. End - 1 /\ buffer'[k].value = g[h[k - 1]]
    <3>1. \A k \in DOMAIN buffer : buffer[k].to = "slot" =>
            f[k - 1] \in top .. End - 1 /\ buffer[k].value = g[f[k - 1]]
      BY DEF Holds, Items
    <3> SUFFICES ASSUME NEW k \in DOMAIN buffer', buffer'[k].to = "slot"
                 PROVE  h[k - 1] \in top .. End - 1 /\ buffer'[k].value = g[h[k - 1]]
      OBVIOUS
    <3>2. k + 1 \in DOMAIN buffer /\ buffer'[k] = buffer[k + 1] /\ h[k - 1] = f[(k + 1) - 1]
      BY <1>8
    <3> QED BY <3>1, <3>2
  <2>2. f[0] = bottom /\ 1 - 1 = 0
    BY DEF Holds, Stores
  <2>3. buffer[1].to = "slot" => bottom \in top .. End - 1 /\ buffer[1].value = g[bottom]
    BY <1>2, <2>2 DEF Holds, Items
  <2>4. ASSUME NEW i \in top .. End - 1
        PROVE  \/ slots'[Slot(i)] = g[i]
               \/ \E k \in DOMAIN buffer' : buffer'[k].to = "slot" /\ h[k - 1] = i
    <3>1. Slot(i) \in 0 .. Capacity - 1
      <4>1. i \in Int
        BY <1>5
      <4> QED BY <4>1, SlotTyped
    <3>2. CASE slots[Slot(i)] = g[i]
      <4>1. CASE slots' = slots
        BY <3>2, <4>1
      <4>2. CASE /\ buffer[1].to = "slot"
                 /\ slots' = [slots EXCEPT ![Slot(bottom)] = buffer[1].value]
        <5>1. CASE i = bottom
          BY <2>3, <3>1, <4>2, <5>1 DEF Holds, TypeOK
        <5>2. CASE i # bottom
          <6>1. Slot(i) # Slot(bottom)
            BY <1>5, <2>3, <4>2, <5>2
          <6> QED BY <3>1, <3>2, <4>2, <6>1 DEF Holds, TypeOK
        <5> QED BY <5>1, <5>2
      <4> QED BY <1>2, <4>1, <4>2
    <3>3. CASE slots[Slot(i)] # g[i]
      <4>1. PICK k \in DOMAIN buffer : buffer[k].to = "slot" /\ f[k - 1] = i
        BY <3>3 DEF Holds, Items
      <4>2. CASE k = 1
        <5>1. buffer[1].to = "slot" /\ i = bottom
          BY <2>2, <4>1, <4>2
        <5>2. slots' = [slots EXCEPT ![Slot(i)] = g[i]]
          BY <1>2, <2>3, <5>1
        <5> QED BY <3>1, <5>2 DEF Holds, TypeOK
      <4>3. CASE k # 1
        <5>1. \A n \in Nat : \A j \in 1 .. n : j # 1 => j - 1 \in 1 .. n - 1 /\ (j - 1) + 1 = j
          OBVIOUS
        <5>2. k - 1 \in DOMAIN buffer' /\ (k - 1) + 1 = k
          BY <1>2, <1>5, <4>3, <5>1
        <5>3. buffer'[k - 1] = buffer[k] /\ h[(k - 1) - 1] = f[k - 1]
          BY <1>8, <5>2
        <5> QED BY <4>1, <5>2, <5>3
      <4> QED BY <4>2, <4>3
    <3> QED BY <3>2, <3>3
  <2>5. /\ top <= End /\ End <= top + Capacity /\ Left = {g[i] : i \in top .. End - 1}
        /\ \A n \in pushed + 1 .. MaxPushes : taken[n] = << >>
        /\ \A i, j \in top .. End - 1 : i < j => g[i] < g[j]
    BY DEF Holds, Items
  <2> QED BY <1>3, <1>4, <2>1, <2>4, <2>5 DEF Items
<1>10. Settled(f) => Settled(h)'
  BY <1>3, <1>4, <1>8 DEF Settled
<1>11. Racing(h, g)'
  BY <1>3, <1>10 DEF Holds, Racing
<1> QED BY <1>2, <1>3, <1>6, <1>7, <1>9, <1>11 DEF IInv, Holds, Abstract!vars

-----------------------------------------------------------------------------
(* The steps of the owner.                                                  *)

\* f continued by what one more store leaves.
LEMMA Extend ==
  ASSUME NEW f \in [Nat -> Int], NEW n \in Nat, NEW v \in Int
  PROVE  \E h : h \in [Nat -> Int] /\ h[n + 1] = v /\ \A k \in 0 .. n : h[k] = f[k]
<1> DEFINE h == [f EXCEPT ![n + 1] = v]
<1>1. h \in [Nat -> Int] /\ h[n + 1] = v /\ \A k \in 0 .. n : h[k] = f[k]
  OBVIOUS
<1> QED BY <1>1

LEMMA BottomTyped == \A v \in Int : Bottom(v) \in Entry /\ Bottom(v).to = "bottom" /\ Bottom(v).value = v
  BY DEF Bottom, Entry

\* A store of bottom does not touch the tasks.
LEMMA BottomItems ==
  ASSUME NEW f \in [Nat -> Int], NEW g \in [Nat -> Nat], Holds(f, g),
         NEW h \in [Nat -> Int], \A k \in 0 .. Len(buffer) : h[k] = f[k],
         NEW v \in Int, buffer' = Append(buffer, Bottom(v)),
         UNCHANGED <<top, slots, pushed, taken>>, End' = End
  PROVE  Items(h, g)' /\ (Settled(f) => Settled(h)')
<1> DEFINE n == Len(buffer)
<1>1. n \in Nat /\ DOMAIN buffer = 1 .. n
  BY Ends
<1>2. /\ DOMAIN buffer' = 1 .. n + 1 /\ buffer'[n + 1] = Bottom(v)
      /\ \A k \in 1 .. n : buffer'[k] = buffer[k]
  BY BottomTyped DEF Holds, TypeOK
<1>3. \A k \in 1 .. n : k \in 1 .. n + 1 /\ k - 1 \in 0 .. n
  BY <1>1
<1>a. \A m \in Nat : \A k \in 1 .. m + 1 : k # m + 1 => k \in 1 .. m
  OBVIOUS
<1>4. \A k \in 1 .. n + 1 : k # n + 1 => k \in 1 .. n
  BY <1>1, <1>a
<1>b. buffer'[n + 1].to # "slot"
  BY <1>2, BottomTyped
<1> HIDE DEF n
<1>5. \A k \in DOMAIN buffer' : buffer'[k].to = "slot" =>
        k \in DOMAIN buffer /\ buffer'[k] = buffer[k] /\ h[k - 1] = f[k - 1]
  <2> SUFFICES ASSUME NEW k \in DOMAIN buffer', buffer'[k].to = "slot"
               PROVE  k \in DOMAIN buffer /\ buffer'[k] = buffer[k] /\ h[k - 1] = f[k - 1]
    OBVIOUS
  <2>1. k \in 1 .. n
    BY <1>2, <1>4, <1>b
  <2>2. k - 1 \in 0 .. n
    BY <1>3, <2>1
  <2> QED BY <1>1, <1>2, <2>1, <2>2 DEF n
<1>6. \A k \in DOMAIN buffer : k \in DOMAIN buffer' /\ buffer'[k] = buffer[k] /\ h[k - 1] = f[k - 1]
  BY <1>1, <1>2, <1>3 DEF n
<1>7. Left' = Left
  BY DEF Left
<1>8. Items(h, g)'
  <2>1. \A k \in DOMAIN buffer' : buffer'[k].to = "slot" =>
          h[k - 1] \in top .. End - 1 /\ buffer'[k].value = g[h[k - 1]]
    BY <1>5 DEF Holds, Items
  <2>2. \A i \in top .. End - 1 :
          \/ slots[Slot(i)] = g[i]
          \/ \E k \in DOMAIN buffer' : buffer'[k].to = "slot" /\ h[k - 1] = i
    <3> SUFFICES ASSUME NEW i \in top .. End - 1, slots[Slot(i)] # g[i]
                 PROVE  \E k \in DOMAIN buffer' : buffer'[k].to = "slot" /\ h[k - 1] = i
      OBVIOUS
    <3>1. PICK k \in DOMAIN buffer : buffer[k].to = "slot" /\ f[k - 1] = i
      BY DEF Holds, Items
    <3> QED BY <1>6, <3>1
  <2>3. /\ top <= End /\ End <= top + Capacity /\ Left = {g[i] : i \in top .. End - 1}
        /\ \A m \in pushed + 1 .. MaxPushes : taken[m] = << >>
        /\ \A i, j \in top .. End - 1 : i < j => g[i] < g[j]
    BY DEF Holds, Items
  <2> QED BY <1>7, <2>1, <2>2, <2>3 DEF Items
<1>9. Settled(f) => Settled(h)'
  BY <1>5 DEF Settled
<1> QED BY <1>8, <1>9

LEMMA PushTaskHolds ==
  ASSUME NEW f \in [Nat -> Int], NEW g \in [Nat -> Nat], Holds(f, g), PushTask
  PROVE  IInv' /\ Abstract!Push
<1>1. /\ pc[Owner] = "idle" /\ pushed < MaxPushes /\ OwnBottom - top < Capacity
      /\ pushed' = pushed + 1 /\ buffer' = Append(buffer, Task(OwnBottom, pushed + 1))
      /\ pc' = [pc EXCEPT ![Owner] = "pushBottom"]
      /\ b' = [b EXCEPT ![Owner] = OwnBottom]
      /\ UNCHANGED <<bottom, top, slots, t, task, taken>>
  BY DEF PushTask, Goto
<1>2. /\ Owner \in Agents /\ Len(buffer) \in Nat /\ DOMAIN buffer = 1 .. Len(buffer)
      /\ OwnBottom = f[Len(buffer)] /\ OwnBottom \in Int /\ End \in Nat
      /\ top \in Nat /\ top <= End
      /\ \A i \in top .. End - 1 : i \in Nat /\ g[i] \in 1 .. pushed
  BY Ends
<1>3. pushed \in Nat /\ pushed + 1 \in 1 .. MaxPushes /\ buffer \in Seq(Entry)
  BY <1>1 DEF Holds, TypeOK
<1>4. End = OwnBottom
  BY <1>1 DEF End
<1>5. PICK v \in Nat : v = OwnBottom
  BY <1>2, <1>4
<1>6. PICK m \in Nat : m = pushed + 1
  BY <1>3
<1> DEFINE w == Task(v, m)
<1>7. w \in Entry /\ w.to = "slot" /\ w.at = Slot(v) /\ w.value = m
  BY SlotTyped DEF Task, Entry
<1> HIDE DEF w
<1>8. buffer' = Append(buffer, w)
  BY <1>1, <1>5, <1>6 DEF w
<1>9. PICK h \in [Nat -> Int] : h[Len(buffer) + 1] = v /\ \A k \in 0 .. Len(buffer) : h[k] = f[k]
  <2>1. v \in Int /\ Len(buffer) \in Nat
    BY <1>2
  <2>2. \E h : h \in [Nat -> Int] /\ h[Len(buffer) + 1] = v /\ \A k \in 0 .. Len(buffer) : h[k] = f[k]
    BY ONLY <2>1, f \in [Nat -> Int], Extend, Zenon
  <2> QED BY ONLY <2>2
<1>10. PICK q \in [Nat -> Nat] : q = [g EXCEPT ![v] = m]
  OBVIOUS
<1>11. Stores(h)' /\ OwnBottom' = v /\ buffer' \in Seq(Entry)
  <2>1. f[Len(buffer)] <= v /\ v = f[Len(buffer)] /\ v \in Int
    BY <1>2, <1>5
  <2>2. bottom' = bottom /\ pc[Owner] # "popTop" /\ Stores(f)
    BY <1>1 DEF Holds
  <2> QED BY <1>3, <1>7, <1>8, <1>9, <2>1, <2>2, AppendStores
<1>12. pc'[Owner] = "pushBottom" /\ \A a \in Agents : a # Owner => Still(a)
  <2>1. pc \in [Agents -> Labels]
    BY DEF Holds, TypeOK
  <2> QED BY <1>1, <1>2, <2>1 DEF Still
<1>13. End' = End + 1
  BY <1>4, <1>5, <1>11, <1>12 DEF End
<1>14. TypeOK'
  <2>1. "pushBottom" \in Labels /\ pc \in [Agents -> Labels]
    BY DEF Labels, Holds, TypeOK
  <2>2. pc' \in [Agents -> Labels]
    BY <1>1, <2>1, Update
  <2>3. pushed' \in 0 .. MaxPushes
    BY <1>1, <1>3
  <2>4. b' \in [Agents -> Int]
    <3>1. b \in [Agents -> Int]
      BY DEF Holds, TypeOK
    <3> QED BY <1>1, <1>2, <3>1, Update
  <2> QED BY <1>1, <1>11, <2>2, <2>3, <2>4 DEF Holds, TypeOK
<1>15. Popping'
  <2>1. b \in [Agents -> Int]
    BY DEF Holds, TypeOK
  <2>2. b'[Owner] = v
    BY <1>1, <1>2, <1>5, <2>1
  <2> QED BY <1>11, <1>12, <2>2 DEF Popping
<1>16. \A i \in top .. End - 1 : q[i] = g[i] /\ i # v /\ g[i] \in Nat
  BY <1>2, <1>4, <1>5, <1>10
<1>17. q[v] = m /\ v = End
  BY <1>4, <1>5, <1>10
<1>19. \A i \in top .. End' - 1 : i \in top .. End - 1 \/ i = v
  BY <1>2, <1>13, <1>17
<1>20. \A i : i \in top .. End - 1 \/ i = v => i \in top .. End' - 1
  <2>1. \A x, y \in Nat : x <= y => \A i : i \in x .. y - 1 \/ i = y => i \in x .. (y + 1) - 1
    OBVIOUS
  <2> QED BY <1>2, <1>13, <1>17, <2>1
<1>21. Left' = Left \cup {m} /\ \A n \in pushed' + 1 .. MaxPushes : taken'[n] = << >>
  <2>1. \A n \in pushed + 1 .. MaxPushes : taken[n] = << >>
    BY DEF Holds, Items
  <2>a. \A x \in Nat : \A n : n \in 1 .. x + 1 <=> n \in 1 .. x \/ n = x + 1
    OBVIOUS
  <2>b. m \in pushed + 1 .. MaxPushes
    BY <1>3, <1>6
  <2>2. m \in pushed + 1 .. MaxPushes /\ \A n : n \in 1 .. pushed + 1 <=> n \in 1 .. pushed \/ n = m
    BY <1>3, <1>6, <2>a, <2>b, Zenon
  <2>3. \A n \in pushed + 1 + 1 .. MaxPushes : n \in pushed + 1 .. MaxPushes
    BY <1>3
  <2> QED BY <1>1, <2>1, <2>2, <2>3 DEF Left
<1>22. /\ DOMAIN buffer' = 1 .. Len(buffer) + 1 /\ buffer'[Len(buffer) + 1] = w
       /\ \A k \in 1 .. Len(buffer) : buffer'[k] = buffer[k]
  BY <1>3, <1>7, <1>8
<1>23. \A k \in DOMAIN buffer' : \/ k = Len(buffer) + 1 /\ k - 1 = Len(buffer)
                                 \/ k \in DOMAIN buffer /\ k - 1 \in 0 .. Len(buffer)
  <2>1. \A n \in Nat : \A k \in 1 .. n + 1 : (k = n + 1 /\ k - 1 = n) \/ (k \in 1 .. n /\ k - 1 \in 0 .. n)
    OBVIOUS
  <2> QED BY <1>2, <1>22, <2>1
<1>24. \A k \in DOMAIN buffer : k \in DOMAIN buffer' /\ buffer'[k] = buffer[k] /\ h[k - 1] = f[k - 1]
  <2>1. \A n \in Nat : \A k \in 1 .. n : k \in 1 .. n + 1 /\ k - 1 \in 0 .. n
    OBVIOUS
  <2> QED BY <1>2, <1>9, <1>22, <2>1
<1>25. Len(buffer) + 1 \in DOMAIN buffer' /\ h[(Len(buffer) + 1) - 1] = v
  <2>1. \A n \in Nat : n \in 0 .. n /\ (n + 1) - 1 = n /\ n + 1 \in 1 .. n + 1
    OBVIOUS
  <2>2. Len(buffer) \in 0 .. Len(buffer) /\ (Len(buffer) + 1) - 1 = Len(buffer)
    BY <1>2, <2>1
  <2> QED BY <1>2, <1>5, <1>9, <1>22, <2>1, <2>2
<1>26. Items(h, q)'
  <2>0. /\ End <= top + Capacity /\ Left = {g[i] : i \in top .. End - 1}
        /\ \A i, j \in top .. End - 1 : i < j => g[i] < g[j]
        /\ \A k \in DOMAIN buffer : buffer[k].to = "slot" =>
             f[k - 1] \in top .. End - 1 /\ buffer[k].value = g[f[k - 1]]
        /\ \A i \in top .. End - 1 :
             \/ slots[Slot(i)] = g[i]
             \/ \E k \in DOMAIN buffer : buffer[k].to = "slot" /\ f[k - 1] = i
    BY DEF Holds, Items
  <2>1. top' <= End' /\ End' <= top' + Capacity
    <3>1. \A x, y, c \in Int : x <= y /\ y - x < c => x <= y + 1 /\ y + 1 <= x + c
      OBVIOUS
    <3>2. top \in Int /\ End \in Int /\ Capacity \in Int
      BY <1>2
    <3> QED BY <1>1, <1>2, <1>4, <1>13, <3>1, <3>2
  <2>2. Left' = {q[i] : i \in top' .. End' - 1}
    <3>1. Left \cup {m} = {q[i] : i \in top .. End' - 1}
      <4>1. ASSUME NEW x \in Left \cup {m} PROVE x \in {q[i] : i \in top .. End' - 1}
        <5>1. CASE x = m
          BY <1>17, <1>20, <5>1
        <5>2. CASE x \in Left
          <6>1. PICK i \in top .. End - 1 : x = g[i]
            BY <2>0, <5>2
          <6> QED BY <1>16, <1>20, <6>1
        <5> QED BY <4>1, <5>1, <5>2
      <4>2. ASSUME NEW i \in top .. End' - 1 PROVE q[i] \in Left \cup {m}
        <5>1. CASE i = v
          BY <1>17, <5>1
        <5>2. CASE i \in top .. End - 1
          BY <1>16, <2>0, <5>2
        <5> QED BY <1>19, <5>1, <5>2
      <4> QED BY <4>1, <4>2
    <3> QED BY <1>1, <1>21, <3>1
  <2>3. \A i, j \in top .. End' - 1 : i < j => q[i] < q[j]
    <3> SUFFICES ASSUME NEW i \in top .. End' - 1, NEW j \in top .. End' - 1, i < j
                 PROVE  q[i] < q[j]
      OBVIOUS
    <3>1. i \in top .. End - 1
      BY <1>2, <1>13
    <3>2. CASE j \in top .. End - 1
      BY <1>16, <2>0, <3>1, <3>2
    <3>3. CASE j = v
      <4>1. g[i] \in 1 .. pushed /\ q[i] = g[i]
        BY <1>2, <1>16, <3>1
      <4>2. g[i] < m
        <5>1. \A x \in Nat : \A y \in 1 .. x : y < x + 1
          OBVIOUS
        <5> QED BY <1>3, <1>6, <4>1, <5>1
      <4> QED BY <1>17, <3>3, <4>1, <4>2
    <3> QED BY <1>19, <3>2, <3>3
  <2>4. \A k \in DOMAIN buffer' : buffer'[k].to = "slot" =>
          h[k - 1] \in top .. End' - 1 /\ buffer'[k].value = q[h[k - 1]]
    <3> SUFFICES ASSUME NEW k \in DOMAIN buffer', buffer'[k].to = "slot"
                 PROVE  h[k - 1] \in top .. End' - 1 /\ buffer'[k].value = q[h[k - 1]]
      OBVIOUS
    <3>1. CASE k = Len(buffer) + 1
      BY <1>7, <1>17, <1>20, <1>22, <1>25, <3>1
    <3>2. CASE k \in DOMAIN buffer
      <4>1. buffer'[k] = buffer[k] /\ h[k - 1] = f[k - 1]
        BY <1>24, <3>2
      <4> QED BY <1>16, <1>20, <2>0, <3>2, <4>1
    <3> QED BY <1>23, <3>1, <3>2
  <2>5. \A i \in top .. End' - 1 :
          \/ slots[Slot(i)] = q[i]
          \/ \E k \in DOMAIN buffer' : buffer'[k].to = "slot" /\ h[k - 1] = i
    <3> SUFFICES ASSUME NEW i \in top .. End' - 1
                 PROVE  \/ slots[Slot(i)] = q[i]
                        \/ \E k \in DOMAIN buffer' : buffer'[k].to = "slot" /\ h[k - 1] = i
      OBVIOUS
    <3>1. CASE i = v
      BY <1>7, <1>22, <1>25, <3>1
    <3>2. CASE i \in top .. End - 1
      BY <1>16, <1>24, <2>0, <3>2
    <3> QED BY <1>19, <3>1, <3>2
  <2> QED BY <1>1, <1>21, <2>1, <2>2, <2>3, <2>4, <2>5 DEF Items
<1>27. Settled(f) => Settled(h)' /\ q[top] = g[top]
  <2> SUFFICES ASSUME Settled(f) PROVE Settled(h)' /\ q[top] = g[top]
    OBVIOUS
  <2>1. top < End /\ top # v /\ top \in top .. End - 1
    BY <1>2, <1>17 DEF Settled
  <2>2. top' < End'
    BY <1>1, <1>2, <1>13, <2>1
  <2>3. \A k \in DOMAIN buffer' : buffer'[k].to = "slot" => h[k - 1] # top
    BY <1>23, <1>24, <1>25, <2>1 DEF Settled
  <2> QED BY <1>1, <1>16, <2>1, <2>2, <2>3 DEF Settled
<1>28. Racing(h, q)'
  <2>1. \A a \in Thieves : pc'[a] = pc[a] /\ t'[a] = t[a] /\ task'[a] = task[a]
    BY <1>12 DEF Still, Agents
  <2> QED BY <1>1, <1>12, <1>27, <2>1, RacingKept
<1>29. Abstract!Push
  BY <1>1 DEF Abstract!Push
<1> QED BY <1>11, <1>14, <1>15, <1>26, <1>28, <1>29 DEF IInv, Holds

\* A store of bottom that leaves the end where it is.
LEMMA BottomStore ==
  ASSUME NEW f \in [Nat -> Int], NEW g \in [Nat -> Nat], Holds(f, g),
         pc[Owner] # "popTop" \/ buffer = << >>,
         NEW v \in Int, buffer' = Append(buffer, Bottom(v)),
         UNCHANGED <<bottom, top, slots, pushed, taken>>,
         \/ pc'[Owner] = "idle" /\ v = End
         \/ pc'[Owner] = "popTop" /\ v + 1 = End
  PROVE  /\ OwnBottom' = v /\ End' = End /\ buffer' \in Seq(Entry)
         /\ \E h : /\ h \in [Nat -> Int] /\ Stores(h)' /\ Items(h, g)'
                   /\ Settled(f) => Settled(h)'
<1>1. /\ Len(buffer) \in Nat /\ OwnBottom = f[Len(buffer)] /\ OwnBottom \in Int /\ End \in Nat
      /\ buffer \in Seq(Entry) /\ Stores(f)
  BY Ends DEF Holds, TypeOK
<1>2. PICK h : /\ h \in [Nat -> Int] /\ h[Len(buffer) + 1] = v
               /\ \A k \in 0 .. Len(buffer) : h[k] = f[k]
  <2>1. Len(buffer) \in Nat
    BY <1>1
  <2>2. \E h : h \in [Nat -> Int] /\ h[Len(buffer) + 1] = v /\ \A k \in 0 .. Len(buffer) : h[k] = f[k]
    BY ONLY <2>1, f \in [Nat -> Int], Extend, Zenon
  <2> QED BY ONLY <2>2
<1>3. \/ f[Len(buffer)] <= v
      \/ pc'[Owner] = "popTop" /\ f[Len(buffer)] <= v + 1
  <2>a. End = OwnBottom \/ End = OwnBottom + 1
    BY DEF End
  <2>b. \A x, y \in Int : y = x \/ y = x + 1 => x <= y
    OBVIOUS
  <2>c. OwnBottom \in Int /\ End \in Int
    BY <1>1
  <2>1. OwnBottom <= End
    BY <2>a, <2>b, <2>c
  <2> QED BY <1>1, <2>1
<1>4. Bottom(v) \in Entry /\ Bottom(v).to = "bottom" /\ Bottom(v).value = v
  BY BottomTyped
<1>5. Stores(h)' /\ OwnBottom' = v /\ buffer' \in Seq(Entry)
  <2>1. PICK w \in Entry : w = Bottom(v)
    BY <1>4
  <2>2. buffer' = Append(buffer, w) /\ w.to = "bottom" /\ w.value = v /\ bottom' = bottom
    BY <1>4, <2>1
  <2> QED BY <1>1, <1>2, <1>3, <2>1, <2>2, AppendStores
<1>6. End' = End
  BY <1>5 DEF End
<1>7. Items(h, g)' /\ (Settled(f) => Settled(h)')
  BY <1>2, <1>6, BottomItems
<1> QED BY <1>2, <1>5, <1>6, <1>7

LEMMA PushBottomHolds ==
  ASSUME NEW f \in [Nat -> Int], NEW g \in [Nat -> Nat], Holds(f, g), PushBottom
  PROVE  IInv' /\ UNCHANGED Abstract!vars
<1>1. /\ pc[Owner] = "pushBottom" /\ buffer' = Append(buffer, Bottom(OwnBottom + 1))
      /\ pc' = [pc EXCEPT ![Owner] = "idle"]
      /\ b' = [b EXCEPT ![Owner] = 0] /\ t' = [t EXCEPT ![Owner] = 0]
      /\ task' = [task EXCEPT ![Owner] = 0]
      /\ UNCHANGED <<bottom, top, slots, pushed, taken>>
  BY DEF PushBottom, Reset, Goto, Holds, Popping
<1>2. Owner \in Agents /\ OwnBottom \in Int
  BY Ends
<1>3. PICK v \in Int : v = OwnBottom + 1
  BY <1>2
<1>4. End = v
  BY <1>1, <1>3 DEF End
<1>5. pc'[Owner] = "idle" /\ \A a \in Agents : a # Owner => pc'[a] = pc[a]
  BY <1>1, <1>2 DEF Holds, TypeOK
<1>6. buffer' = Append(buffer, Bottom(v)) /\ pc[Owner] # "popTop"
  BY <1>1, <1>3
<1>7. /\ buffer' \in Seq(Entry)
      /\ \E h : /\ h \in [Nat -> Int] /\ Stores(h)' /\ Items(h, g)'
                /\ Settled(f) => Settled(h)'
  BY <1>1, <1>4, <1>5, <1>6, BottomStore
<1>8. PICK h \in [Nat -> Int] : Stores(h)' /\ Items(h, g)' /\ (Settled(f) => Settled(h)')
  BY <1>7
<1>9. TypeOK'
  <2>1. "idle" \in Labels /\ pc \in [Agents -> Labels]
    BY DEF Labels, Holds, TypeOK
  <2>2. pc' \in [Agents -> Labels]
    BY <1>1, <2>1, Update
  <2>3. b' \in [Agents -> Int] /\ t' \in [Agents -> Nat] /\ task' \in [Agents -> Int]
    BY <1>2, ResetTyped DEF PushBottom, Holds
  <2> QED BY <1>1, <1>7, <2>2, <2>3 DEF Holds, TypeOK
<1>10. Popping'
  BY <1>5 DEF Popping
<1>11. Racing(h, g)'
  <2>1. \A a \in Thieves : pc'[a] = pc[a] /\ t'[a] = t[a] /\ task'[a] = task[a]
    <3>1. \A a \in Thieves : a # Owner /\ a \in Agents
      BY DEF Agents
    <3>2. t \in [Agents -> Nat] /\ task \in [Agents -> Int]
      BY DEF Holds, TypeOK
    <3> QED BY <1>1, <1>5, <3>1, <3>2
  <2> QED BY <1>1, <1>5, <1>8, <2>1, RacingKept
<1> QED BY <1>1, <1>8, <1>9, <1>10, <1>11 DEF IInv, Holds, Abstract!vars

LEMMA PopBottomHolds ==
  ASSUME NEW f \in [Nat -> Int], NEW g \in [Nat -> Nat], Holds(f, g), PopBottom
  PROVE  IInv' /\ UNCHANGED Abstract!vars
<1>1. /\ pc[Owner] = "idle" /\ buffer' = Append(buffer, Bottom(OwnBottom - 1))
      /\ pc' = [pc EXCEPT ![Owner] = "popTop"]
      /\ b' = [b EXCEPT ![Owner] = OwnBottom - 1]
      /\ UNCHANGED <<bottom, top, slots, t, task, pushed, taken>>
  BY DEF PopBottom, Goto
<1>2. Owner \in Agents /\ OwnBottom \in Int
  BY Ends
<1>3. PICK v \in Int : v = OwnBottom - 1
  BY <1>2
<1>4. v + 1 = End
  BY <1>1, <1>2, <1>3 DEF End
<1>5. pc'[Owner] = "popTop" /\ \A a \in Agents : a # Owner => pc'[a] = pc[a]
  BY <1>1, <1>2 DEF Holds, TypeOK
<1>6. buffer' = Append(buffer, Bottom(v)) /\ pc[Owner] # "popTop"
  BY <1>1, <1>3
<1>7. /\ OwnBottom' = v /\ buffer' \in Seq(Entry)
      /\ \E h : /\ h \in [Nat -> Int] /\ Stores(h)' /\ Items(h, g)'
                /\ Settled(f) => Settled(h)'
  BY <1>1, <1>4, <1>5, <1>6, BottomStore
<1>8. PICK h \in [Nat -> Int] : Stores(h)' /\ Items(h, g)' /\ (Settled(f) => Settled(h)')
  BY <1>7
<1>9. b' = [b EXCEPT ![Owner] = v] /\ b \in [Agents -> Int]
  BY <1>1, <1>3 DEF Holds, TypeOK
<1>10. TypeOK'
  <2>1. "popTop" \in Labels /\ pc \in [Agents -> Labels]
    BY DEF Labels, Holds, TypeOK
  <2>a. b' \in [Agents -> Int]
    BY <1>9, Update
  <2>2. pc' \in [Agents -> Labels] /\ b' \in [Agents -> Int]
    BY <1>1, <2>1, <2>a, Update
  <2> QED BY <1>1, <1>7, <2>2 DEF Holds, TypeOK
<1>11. Popping'
  BY <1>2, <1>5, <1>7, <1>9 DEF Popping
<1>12. Racing(h, g)'
  <2>1. \A a \in Thieves : pc'[a] = pc[a] /\ t'[a] = t[a] /\ task'[a] = task[a]
    BY <1>1, <1>5 DEF Agents
  <2> QED BY <1>1, <1>5, <1>8, <2>1, RacingKept
<1> QED BY <1>1, <1>8, <1>10, <1>11, <1>12 DEF IInv, Holds, Abstract!vars

\* After its barrier a pop finds in memory what it has stored, and in its slot
\* the last task, if there is one.
LEMMA AfterBarrier ==
  ASSUME NEW f \in [Nat -> Int], NEW g \in [Nat -> Nat], Holds(f, g), ReadTop
  PROVE  /\ pc[Owner] = "popTop" /\ buffer = << >> /\ Owner \in Agents
         /\ b[Owner] = OwnBottom /\ b[Owner] \in Int /\ End = b[Owner] + 1
         /\ top <= b[Owner] => slots[Slot(b[Owner])] = g[b[Owner]]
<1>1. pc[Owner] = "popTop" /\ buffer = << >>
  BY DEF ReadTop, Barrier
<1>2. b[Owner] = OwnBottom /\ End = OwnBottom + 1 /\ OwnBottom \in Int /\ top \in Nat /\ Owner \in Agents
  BY <1>1, Ends DEF Holds, Popping, End
<1>3. ASSUME top <= b[Owner] PROVE slots[Slot(b[Owner])] = g[b[Owner]]
  <2>1. b[Owner] \in top .. End - 1
    BY <1>2, <1>3
  <2>2. ~ \E k \in DOMAIN buffer : TRUE
    BY <1>1
  <2> QED BY <2>1, <2>2 DEF Holds, Items
<1> QED BY <1>1, <1>2, <1>3

LEMMA PopManyHolds ==
  ASSUME NEW f \in [Nat -> Int], NEW g \in [Nat -> Nat], Holds(f, g), PopMany
  PROVE  IInv' /\ Abstract!Pop /\ taken' # taken
<1>1. /\ ReadTop /\ top < b[Owner] /\ Take(Owner, slots[Slot(b[Owner])]) /\ Reset(Owner)
      /\ UNCHANGED <<bottom, top, slots, buffer, pushed>>
  BY DEF PopMany
<1>2. /\ pc[Owner] = "popTop" /\ buffer = << >> /\ Owner \in Agents
      /\ b[Owner] = OwnBottom /\ b[Owner] \in Int /\ End = b[Owner] + 1
  BY <1>1, AfterBarrier
<1>3. top \in Nat /\ End \in Nat
  BY Ends
<1>4. slots[Slot(b[Owner])] = g[End - 1] /\ top < End
  <2>a. \A x, y, z \in Int : x < y /\ z = y + 1 => x <= y /\ z - 1 = y /\ x < z
    OBVIOUS
  <2>b. top \in Int /\ End \in Int /\ b[Owner] \in Int
    BY <1>2, <1>3
  <2>1. top <= b[Owner] /\ End - 1 = b[Owner] /\ top < End
    BY <1>1, <1>2, <2>a, <2>b
  <2> QED BY <1>1, <2>1, AfterBarrier
<1>5. /\ g[End - 1] \in Left /\ \A m \in Left : m <= g[End - 1]
      /\ Left \ {g[End - 1]} = {g[i] : i \in top .. End - 2}
  BY <1>4, Ends, TakeEnd
<1>6. /\ Left' = Left \ {g[End - 1]} /\ taken' = [taken EXCEPT ![g[End - 1]] = <<Owner>>]
      /\ taken' \in [1 .. MaxPushes -> Seq(Agents)] /\ taken' # taken
  BY <1>1, <1>2, <1>4, <1>5, TakeLeft DEF Holds
<1>7. TypeOK'
  BY <1>1, <1>2, <1>6, ResetTyped DEF Holds, TypeOK
<1>8. pc'[Owner] = "idle" /\ \A a \in Agents : a # Owner => Still(a)
  BY <1>1, <1>2 DEF Reset, Goto, Holds, TypeOK, Still
<1>9. Stores(f)' /\ OwnBottom' = OwnBottom
  BY <1>1, <1>2, SameStores DEF Holds
<1>10. End' = End - 1 /\ End' - 1 = End - 2 /\ End' \in Int
  BY <1>2, <1>8, <1>9 DEF End
<1>11. Popping'
  BY <1>8 DEF Popping
<1>12. \A i \in top .. End - 2 : i \in top .. End - 1
  BY <1>3
<1>13. Items(f, g)'
  <2>1. top' <= End' /\ End' <= top' + Capacity
    <3>1. End <= top + Capacity
      BY Ends
    <3>2. \A x, y, c \in Int : x < y /\ y <= x + c => x <= y - 1 /\ y - 1 <= x + c
      OBVIOUS
    <3>3. top \in Int /\ End \in Int /\ Capacity \in Int
      BY <1>3
    <3> QED BY <1>1, <1>4, <1>10, <3>1, <3>2, <3>3
  <2>2. Left' = {g[i] : i \in top' .. End' - 1}
    BY <1>1, <1>5, <1>6, <1>10
  <2>3. \A n \in pushed' + 1 .. MaxPushes : taken'[n] = << >>
    <3> SUFFICES ASSUME NEW n \in pushed + 1 .. MaxPushes PROVE taken'[n] = << >>
      BY <1>1
    <3>1. pushed \in Nat /\ n \notin 1 .. pushed /\ n \in 1 .. MaxPushes
      BY DEF Holds, TypeOK
    <3>2. n # g[End - 1]
      BY <1>5, <3>1 DEF Left
    <3> QED BY <1>6, <3>1, <3>2 DEF Holds, Items, TypeOK
  <2>4. \A i, j \in top' .. End' - 1 : i < j => g[i] < g[j]
    BY <1>1, <1>10, <1>12 DEF Holds, Items
  <2>5. \A k \in DOMAIN buffer' : FALSE
    BY <1>1, <1>2
  <2>6. \A i \in top' .. End' - 1 : slots'[Slot(i)] = g[i]
    <3>1. \A i \in top .. End - 1 : slots[Slot(i)] = g[i]
      BY <1>1, <2>5 DEF Holds, Items
    <3> QED BY <1>1, <1>10, <1>12, <3>1
  <2> QED BY <2>1, <2>2, <2>3, <2>4, <2>5, <2>6 DEF Items
<1>14. Settled(f) => Settled(f)'
  BY <1>1, <1>2, <1>3, <1>10 DEF Settled
<1>15. Racing(f, g)'
  <2>1. \A a \in Thieves : pc'[a] = pc[a] /\ t'[a] = t[a] /\ task'[a] = task[a]
    BY <1>8 DEF Still, Agents
  <2> QED BY <1>1, <1>8, <1>14, <2>1, RacingKept
<1>16. Abstract!Pop
  <2>1. Abstract!Contents = Left
    BY DEF Abstract!Contents, Left
  <2> QED BY <1>1, <1>5, <1>6, <2>1 DEF Abstract!Pop, Abstract!Return
<1> QED BY <1>6, <1>7, <1>9, <1>11, <1>13, <1>15, <1>16 DEF IInv, Holds

LEMMA PopLastHolds ==
  ASSUME NEW f \in [Nat -> Int], NEW g \in [Nat -> Nat], Holds(f, g), PopLast
  PROVE  IInv' /\ UNCHANGED Abstract!vars
<1>1. /\ ReadTop /\ top = b[Owner]
      /\ t' = [t EXCEPT ![Owner] = top]
      /\ task' = [task EXCEPT ![Owner] = slots[Slot(b[Owner])]]
      /\ pc' = [pc EXCEPT ![Owner] = "popCas"]
      /\ UNCHANGED <<bottom, top, slots, buffer, b, pushed, taken>>
  BY DEF PopLast, Goto
<1>2. /\ pc[Owner] = "popTop" /\ buffer = << >> /\ Owner \in Agents
      /\ b[Owner] = OwnBottom /\ b[Owner] \in Int /\ End = b[Owner] + 1
  BY <1>1, AfterBarrier
<1>3. top \in Nat /\ g \in [Nat -> Nat]
  BY Ends
<1>4. slots[Slot(b[Owner])] = g[top]
  <2>1. top <= b[Owner]
    BY <1>1, <1>2
  <2> QED BY <1>1, <2>1, AfterBarrier
<1>5. task' = [task EXCEPT ![Owner] = g[top]]
  BY <1>1, <1>4
<1>6. TypeOK'
  <2>1. "popCas" \in Labels /\ pc \in [Agents -> Labels] /\ t \in [Agents -> Nat] /\ task \in [Agents -> Int]
    BY DEF Labels, Holds, TypeOK
  <2>2. g[top] \in Int
    BY <1>3
  <2>3. pc' \in [Agents -> Labels]
    BY <1>1, <2>1, Update
  <2>4. t' \in [Agents -> Nat]
    BY <1>1, <1>3, <2>1, Update
  <2>5. task' \in [Agents -> Int]
    BY <1>5, <2>1, <2>2, Update
  <2> QED BY <1>1, <2>3, <2>4, <2>5 DEF Holds, TypeOK
<1>7. pc'[Owner] = "popCas" /\ t'[Owner] = top /\ task'[Owner] = g[top]
  BY <1>1, <1>2, <1>5 DEF Holds, TypeOK
<1>8. \A a \in Thieves : pc'[a] = pc[a] /\ t'[a] = t[a] /\ task'[a] = task[a]
  BY <1>1, <1>5 DEF Agents, Holds, TypeOK
<1>9. Stores(f)' /\ OwnBottom' = OwnBottom
  BY <1>1, <1>2, SameStores DEF Holds
<1>10. End' = End /\ Left' = Left
  BY <1>1, <1>2, <1>7, <1>9 DEF End, Left
<1>11. Popping'
  BY <1>1, <1>2, <1>7, <1>9 DEF Popping
<1>12. Items(f, g)'
  BY <1>1, <1>10 DEF Holds, Items
<1>13. Settled(f) => Settled(f)'
  BY <1>1, <1>10 DEF Settled
<1>14. Racing(f, g)'
  <2>1. t'[Owner] <= top' /\ task'[Owner] = g[top']
    BY <1>1, <1>3, <1>7
  <2> QED BY <1>1, <1>8, <1>13, <2>1 DEF Holds, Racing
<1> QED BY <1>1, <1>6, <1>9, <1>11, <1>12, <1>14 DEF IInv, Holds, Abstract!vars

LEMMA PopNoneHolds ==
  ASSUME NEW f \in [Nat -> Int], NEW g \in [Nat -> Nat], Holds(f, g), PopNone
  PROVE  IInv' /\ UNCHANGED Abstract!vars /\ Left = {}
<1>1. /\ ReadTop /\ top > b[Owner]
      /\ buffer' = Append(buffer, Bottom(top)) /\ Reset(Owner)
      /\ UNCHANGED <<bottom, top, slots, pushed, taken>>
  BY DEF PopNone
<1>2. /\ pc[Owner] = "popTop" /\ buffer = << >> /\ Owner \in Agents
      /\ b[Owner] = OwnBottom /\ b[Owner] \in Int /\ End = b[Owner] + 1
  BY <1>1, AfterBarrier
<1>3. top \in Nat /\ top <= End
  BY Ends
<1>4. End = top
  <2>1. \A x, y, z \in Int : x > y /\ z = y + 1 /\ x <= z => z = x
    OBVIOUS
  <2>2. top \in Int /\ End \in Int
    BY <1>2, <1>3
  <2> QED BY <1>1, <1>2, <1>3, <2>1, <2>2
<1>5. PICK v \in Int : v = top
  BY <1>3
<1>6. pc'[Owner] = "idle" /\ \A a \in Agents : a # Owner => Still(a)
  BY <1>1, <1>2 DEF Reset, Goto, Holds, TypeOK, Still
<1>7. /\ buffer' \in Seq(Entry)
      /\ \E h : /\ h \in [Nat -> Int] /\ Stores(h)' /\ Items(h, g)'
                /\ Settled(f) => Settled(h)'
  <2>1. buffer' = Append(buffer, Bottom(v)) /\ v = End
    BY <1>1, <1>4, <1>5
  <2> QED BY <1>1, <1>2, <1>6, <2>1, BottomStore
<1>8. PICK h \in [Nat -> Int] : Stores(h)' /\ Items(h, g)' /\ (Settled(f) => Settled(h)')
  BY <1>7
<1>9. TypeOK'
  BY <1>1, <1>2, <1>7, ResetTyped DEF Holds, TypeOK
<1>10. Popping'
  BY <1>6 DEF Popping
<1>11. Racing(h, g)'
  <2>1. \A a \in Thieves : pc'[a] = pc[a] /\ t'[a] = t[a] /\ task'[a] = task[a]
    BY <1>6 DEF Still, Agents
  <2> QED BY <1>1, <1>6, <1>8, <2>1, RacingKept
<1>12. Left = {}
  <2>1. \A i \in top .. End - 1 : FALSE
    BY <1>3, <1>4
  <2> QED BY <2>1 DEF Holds, Items
<1> QED BY <1>1, <1>8, <1>9, <1>10, <1>11, <1>12 DEF IInv, Holds, Abstract!vars

LEMMA PopCasHolds ==
  ASSUME NEW f \in [Nat -> Int], NEW g \in [Nat -> Nat], Holds(f, g), PopCas
  PROVE  IInv' /\ \/ Abstract!Pop /\ taken' # taken
                  \/ UNCHANGED Abstract!vars /\ Left = {}
<1>1. /\ pc[Owner] = "popCas" /\ buffer = << >>
      /\ buffer' = <<Bottom(t[Owner] + 1)>> /\ Reset(Owner)
      /\ UNCHANGED <<bottom, slots, pushed>>
      /\ IF top = t[Owner] THEN top' = top + 1 /\ Take(Owner, task[Owner])
                           ELSE UNCHANGED <<top, taken>>
  BY DEF PopCas
<1>2. /\ Owner \in Agents /\ b[Owner] = OwnBottom /\ t[Owner] = b[Owner] /\ End = OwnBottom + 1
      /\ t[Owner] <= top /\ (t[Owner] = top => task[Owner] = g[top]) /\ t[Owner] \in Nat
      /\ top \in Nat /\ End \in Nat /\ top <= End
  BY <1>1, Ends DEF Holds, Popping, Racing, End, TypeOK
<1>3. PICK v \in Int : v = t[Owner] + 1
  BY <1>2
<1>4. End = v
  BY <1>2, <1>3
<1>5. buffer' = Append(buffer, Bottom(v))
  BY <1>1, <1>3
<1>6. pc'[Owner] = "idle" /\ \A a \in Agents : a # Owner => Still(a)
  BY <1>1, <1>2 DEF Reset, Goto, Holds, TypeOK, Still
<1>7. Popping'
  BY <1>6 DEF Popping
<1>8. \A a \in Thieves : Still(a) /\ t[a] \in Nat
  BY <1>6 DEF Agents, Holds, TypeOK
<1>9. CASE top # t[Owner]
  <2>1. UNCHANGED <<bottom, top, slots, pushed, taken>>
    BY <1>1, <1>9
  <2>2. End = top
    <3>1. \A x, y \in Int : x <= y /\ y # x /\ y <= x + 1 => y = x + 1
      OBVIOUS
    <3>2. t[Owner] \in Int /\ top \in Int /\ top <= t[Owner] + 1
      BY <1>2, <1>3, <1>4
    <3> QED BY <1>2, <1>3, <1>4, <1>9, <3>1, <3>2
  <2>3. /\ buffer' \in Seq(Entry)
        /\ \E h : /\ h \in [Nat -> Int] /\ Stores(h)' /\ Items(h, g)'
                  /\ Settled(f) => Settled(h)'
    BY <1>1, <1>4, <1>5, <1>6, <2>1, BottomStore
  <2>4. PICK h \in [Nat -> Int] : Stores(h)' /\ Items(h, g)' /\ (Settled(f) => Settled(h)')
    BY <2>3
  <2>5. TypeOK'
    BY <1>1, <1>2, <2>1, <2>3, ResetTyped DEF Holds, TypeOK
  <2>6. Racing(h, g)'
    BY <1>6, <1>8, <2>1, <2>4, RacingKept DEF Still
  <2>7. Left = {}
    <3>1. \A i \in top .. End - 1 : FALSE
      BY <1>2, <2>2
    <3> QED BY <3>1 DEF Holds, Items
  <2> QED BY <1>7, <2>1, <2>4, <2>5, <2>6, <2>7 DEF IInv, Holds, Abstract!vars
<1>10. CASE top = t[Owner]
  <2>1. top' = top + 1 /\ Take(Owner, g[top]) /\ top < End /\ End - 1 = top /\ End = top + 1
    <3>1. End = top + 1
      BY <1>2, <1>10
    <3>2. top < top + 1 /\ (top + 1) - 1 = top
      BY <1>2
    <3> QED BY <1>1, <1>2, <1>10, <3>1, <3>2
  <2>2. g[top] \in Left /\ (\A m \in Left : m <= g[top]) /\ Left \ {g[top]} = {}
    <3>1. /\ top \in top .. End - 1 /\ \A m \in Left : m <= g[End - 1]
          /\ Left \ {g[top]} = {g[i] : i \in top + 1 .. End - 1}
      BY <2>1, TakeEnd
    <3>2. \A i \in top + 1 .. End - 1 : FALSE
      BY <1>2, <2>1
    <3>3. g[top] \in Left
      BY <3>1, Ends
    <3> QED BY <2>1, <3>1, <3>2, <3>3
  <2>3. /\ Left' = {} /\ taken' = [taken EXCEPT ![g[top]] = <<Owner>>]
        /\ taken' \in [1 .. MaxPushes -> Seq(Agents)] /\ taken' # taken
    BY <1>1, <1>2, <2>1, <2>2, TakeLeft DEF Holds
  <2>4. PICK h : /\ h \in [Nat -> Int] /\ h[Len(buffer) + 1] = v
                 /\ \A k \in 0 .. Len(buffer) : h[k] = f[k]
    <3>1. Len(buffer) \in Nat
      BY Ends
    <3>2. \E h : h \in [Nat -> Int] /\ h[Len(buffer) + 1] = v /\ \A k \in 0 .. Len(buffer) : h[k] = f[k]
      BY <3>1, Extend
    <3> QED BY <3>2
  <2>5. Bottom(v) \in Entry /\ Bottom(v).to = "bottom" /\ Bottom(v).value = v
    BY BottomTyped
  <2>6. Stores(h)' /\ OwnBottom' = v /\ buffer' \in Seq(Entry)
    <3>1. PICK w \in Entry : w = Bottom(v)
      BY <2>5
    <3>2. buffer' = Append(buffer, w) /\ w.to = "bottom" /\ w.value = v /\ bottom' = bottom
      BY <1>1, <1>5, <2>5, <3>1
    <3>3. OwnBottom = f[Len(buffer)] /\ OwnBottom \in Int /\ buffer \in Seq(Entry) /\ Stores(f)
      BY Ends DEF Holds, TypeOK
    <3>4. f[Len(buffer)] <= v
      BY <1>2, <1>3, <3>3
    <3> QED BY <1>1, <2>4, <3>1, <3>2, <3>3, <3>4, AppendStores
  <2>7. TypeOK'
    <3>1. top' \in Nat
      BY <1>2, <2>1
    <3> QED BY <1>1, <1>2, <2>3, <2>6, <3>1, ResetTyped DEF Holds, TypeOK
  <2>8. End' = top' /\ top' \in Nat
    BY <1>2, <1>4, <1>6, <2>1, <2>6 DEF End
  <2>a. \A x \in Nat : x <= x /\ x <= x + Capacity /\ \A i \in x .. x - 1 : FALSE
    OBVIOUS
  <2>9. \A i \in top' .. End' - 1 : FALSE
    BY <2>8, <2>a
  <2>10. \A k \in DOMAIN buffer' : buffer'[k].to # "slot"
    BY <1>1, <1>3, <2>5
  <2>11. Items(h, g)'
    <3>1. top' <= End' /\ End' <= top' + Capacity
      BY <2>8, <2>a
    <3>2. Left' = {g[i] : i \in top' .. End' - 1}
      BY <2>3, <2>9
    <3>3. \A n \in pushed' + 1 .. MaxPushes : taken'[n] = << >>
      <4> SUFFICES ASSUME NEW n \in pushed + 1 .. MaxPushes PROVE taken'[n] = << >>
        BY <1>1
      <4>1. pushed \in Nat /\ n \notin 1 .. pushed /\ n \in 1 .. MaxPushes
        BY DEF Holds, TypeOK
      <4>2. n # g[top]
        BY <2>2, <4>1 DEF Left
      <4> QED BY <2>3, <4>1, <4>2 DEF Holds, Items, TypeOK
    <3> QED BY <2>9, <2>10, <3>1, <3>2, <3>3 DEF Items
  <2>12. Racing(h, g)'
    <3>1. ASSUME NEW a \in Thieves, pc[a] \in {"stealBottom", "stealTask", "stealCas"}
          PROVE  t'[a] <= top' /\ t'[a] # top'
      <4>1. t[a] <= top /\ t[a] \in Nat /\ t'[a] = t[a]
        BY <1>8, <3>1 DEF Holds, Racing, Still
      <4> QED BY <1>2, <2>1, <4>1
    <3> QED BY <1>6, <1>8, <3>1 DEF Racing, Still
  <2>13. Abstract!Pop
    <3>1. Abstract!Contents = Left
      BY DEF Abstract!Contents, Left
    <3> QED BY <1>1, <2>2, <2>3, <3>1 DEF Abstract!Pop, Abstract!Return
  <2> QED BY <1>7, <2>3, <2>4, <2>6, <2>7, <2>11, <2>12, <2>13 DEF IInv, Holds
<1> QED BY <1>9, <1>10

-----------------------------------------------------------------------------
(* The theorems.                                                            *)

LEMMA InitHolds == Init => IInv
<1> SUFFICES ASSUME Init PROVE IInv
  OBVIOUS
<1>1. PICK f \in [Nat -> Int] : f = [k \in Nat |-> 0]
  <2>1. [k \in Nat |-> 0] \in [Nat -> Int]
    OBVIOUS
  <2> QED BY <2>1
<1>2. PICK g \in [Nat -> Nat] : g = [k \in Nat |-> 0]
  OBVIOUS
<1>3. /\ bottom = 0 /\ top = 0 /\ buffer = << >> /\ pushed = 0 /\ pc[Owner] = "idle"
      /\ Owner \in Agents /\ Len(buffer) = 0
      /\ \A a \in Agents : pc[a] = "idle"
      /\ taken = [n \in 1 .. MaxPushes |-> << >>]
  BY DEF Init, Agents
<1>4. TypeOK
  <2>1. slots \in [0 .. Capacity - 1 -> Int] /\ buffer \in Seq(Entry) /\ pc \in [Agents -> Labels]
    BY DEF Init, Labels
  <2>2. b \in [Agents -> Int] /\ task \in [Agents -> Int] /\ t \in [Agents -> Nat]
    BY DEF Init
  <2>3. taken \in [1 .. MaxPushes -> Seq(Agents)]
    BY <1>3
  <2>4. bottom \in Int /\ top \in Nat /\ pushed \in 0 .. MaxPushes
    BY <1>3
  <2> QED BY <2>1, <2>2, <2>3, <2>4 DEF TypeOK
<1>5. Stores(f)
  <2>1. \A j, k \in 0 .. Len(buffer) : f[j] <= f[k]
    BY <1>1, <1>3
  <2>2. \A k \in DOMAIN buffer : FALSE
    BY <1>3
  <2>3. f[0] = bottom
    BY <1>1, <1>3
  <2> QED BY <2>1, <2>2, <2>3 DEF Stores
<1>6. OwnBottom = 0
  <2>1. OwnBottom = f[Len(buffer)]
    BY <1>4, <1>5, OwnLast DEF TypeOK
  <2> QED BY <1>1, <1>3, <2>1
<1>7. End = 0
  BY <1>3, <1>6 DEF End
<1>8. Popping
  BY <1>3 DEF Popping
<1>9. Items(f, g)
  <2>1. \A i \in top .. End - 1 : FALSE
    BY <1>3, <1>7
  <2>2. \A k \in DOMAIN buffer : FALSE
    BY <1>3
  <2>3. Left = {}
    BY <1>3 DEF Left
  <2>4. top <= End /\ End <= top + Capacity
    BY <1>3, <1>7
  <2>5. \A n \in pushed + 1 .. MaxPushes : taken[n] = << >>
    BY <1>3
  <2> QED BY <2>1, <2>2, <2>3, <2>4, <2>5 DEF Items
<1>10. Racing(f, g)
  BY <1>3 DEF Racing, Agents
<1> QED BY <1>4, <1>5, <1>8, <1>9, <1>10 DEF IInv, Holds

\* What a step does: it keeps the invariant, is a step of the abstract deque or
\* leaves it, and an operation of the owner that takes nothing finds it empty.
LEMMA StepHolds ==
  ASSUME IInv, [Next]_vars
  PROVE  /\ IInv' /\ [Abstract!Next]_(Abstract!vars)
         /\ pc[Owner] \in {"popTop", "popCas"} /\ pc'[Owner] = "idle" /\ taken' = taken => Left = {}
<1>1. PICK f \in [Nat -> Int], g \in [Nat -> Nat] : Holds(f, g)
  BY DEF IInv
<1>2. CASE UNCHANGED vars
  <2> USE <1>2 DEF vars
  <2>1. OwnBottom' = OwnBottom /\ End' = End /\ Left' = Left
    BY DEF OwnBottom, End, Left
  <2>2. TypeOK'
    BY <1>1 DEF Holds, TypeOK
  <2>3. Popping'
    BY <1>1, <2>1 DEF Holds, Popping
  <2>4. Stores(f)'
    BY <1>1 DEF Holds, Stores
  <2>5. Items(f, g)'
    BY <1>1, <2>1 DEF Holds, Items
  <2>6. Racing(f, g)'
    BY <1>1, <2>1 DEF Holds, Racing, Settled
  <2> QED BY <2>2, <2>3, <2>4, <2>5, <2>6 DEF IInv, Holds, Abstract!vars
<1>3. CASE Flush
  <2>1. pc' = pc
    BY <1>3 DEF Flush
  <2> QED BY <1>1, <1>3, <2>1, FlushHolds
<1>4. CASE PushTask
  <2>1. pc[Owner] = "idle"
    BY <1>4 DEF PushTask
  <2> QED BY <1>1, <1>4, <2>1, PushTaskHolds DEF Abstract!Next
<1>5. CASE PushBottom
  <2>1. pc[Owner] = "pushBottom"
    BY <1>5 DEF PushBottom
  <2> QED BY <1>1, <1>5, <2>1, PushBottomHolds
<1>6. CASE PopBottom
  <2>1. pc[Owner] = "idle"
    BY <1>6 DEF PopBottom
  <2> QED BY <1>1, <1>6, <2>1, PopBottomHolds
<1>7. CASE PopMany
  BY <1>1, <1>7, PopManyHolds DEF Abstract!Next
<1>8. CASE PopLast
  <2>1. pc'[Owner] # "idle"
    BY <1>1, <1>8, Ends DEF PopLast, Goto, Holds, TypeOK
  <2> QED BY <1>1, <1>8, <2>1, PopLastHolds
<1>9. CASE PopNone
  BY <1>1, <1>9, PopNoneHolds
<1>10. CASE PopCas
  BY <1>1, <1>10, PopCasHolds DEF Abstract!Next
<1>11. ASSUME NEW a \in Thieves, Steal(a)
       PROVE  /\ IInv' /\ [Abstract!Next]_(Abstract!vars)
              /\ pc'[Owner] = pc[Owner]
  <2>1. pc'[Owner] = pc[Owner]
    <3>1. pc \in [Agents -> Labels] /\ Owner \in Agents /\ a # Owner
      BY <1>1 DEF Holds, TypeOK, Agents
    <3>2. \E label : pc' = [pc EXCEPT ![a] = label]
      BY <1>11 DEF Steal, StealTop, StealBottom, StealTask, StealCas, Goto, Reset
    <3> QED BY <3>1, <3>2
  <2>2. CASE StealTop(a)
    BY <1>1, <2>1, <2>2, StealTopHolds DEF IInv
  <2>3. CASE StealBottom(a)
    BY <1>1, <2>1, <2>3, StealBottomHolds DEF IInv
  <2>4. CASE StealTask(a)
    BY <1>1, <2>1, <2>4, StealTaskHolds DEF IInv
  <2>5. CASE StealCas(a)
    BY <1>1, <2>1, <2>5, StealCasHolds DEF IInv, Abstract!Next
  <2> QED BY <1>11, <2>2, <2>3, <2>4, <2>5 DEF Steal
<1> QED BY <1>2, <1>3, <1>4, <1>5, <1>6, <1>7, <1>8, <1>9, <1>10, <1>11 DEF Next, OwnerStep

\* No task of BoundedConcurrentTaskDeque is lost: while the owner is between
\* operations and its stores are in memory, the tasks pushed and not taken are
\* those between top and bottom, in the order of the pushes.
THEOREM DequeLosesNothing == Spec => []NothingLost
<1>1. IInv => NothingLost
  <2> SUFFICES ASSUME IInv, pc[Owner] = "idle", buffer = << >>
               PROVE  /\ Left = {slots[Slot(i)] : i \in top .. bottom - 1}
                      /\ \A i \in top .. bottom - 2 : slots[Slot(i)] < slots[Slot(i + 1)]
    BY DEF NothingLost
  <2>1. PICK f \in [Nat -> Int], g \in [Nat -> Nat] : Holds(f, g)
    BY DEF IInv
  <2>2. End = bottom
    <3>1. OwnBottom = f[Len(buffer)] /\ f[0] = bottom /\ Len(buffer) = 0
      BY <2>1, Ends DEF Holds, Stores
    <3> QED BY <3>1 DEF End
  <2>3. \A k \in DOMAIN buffer : FALSE
    OBVIOUS
  <2>4. \A i \in top .. bottom - 1 : slots[Slot(i)] = g[i]
    BY <2>1, <2>2, <2>3 DEF Holds, Items
  <2>5. Left = {g[i] : i \in top .. bottom - 1} /\ \A i, j \in top .. bottom - 1 : i < j => g[i] < g[j]
    BY <2>1, <2>2 DEF Holds, Items
  <2>6. \A i \in top .. bottom - 2 : i \in top .. bottom - 1 /\ i + 1 \in top .. bottom - 1 /\ i < i + 1
    <3>1. \A x, y \in Int : \A i \in x .. y - 2 : i \in x .. y - 1 /\ i + 1 \in x .. y - 1 /\ i < i + 1
      OBVIOUS
    <3>2. top \in Int /\ bottom \in Int
      BY <2>1 DEF Holds, TypeOK
    <3> QED BY <3>1, <3>2
  <2> QED BY <2>4, <2>5, <2>6
<1>2. IInv /\ [Next]_vars => IInv'
  BY StepHolds
<1> QED BY <1>1, <1>2, InitHolds, PTL DEF Spec

\* A pop of BoundedConcurrentTaskDeque returns null only when nothing is left,
\* also when it has lost the race for the last task.
THEOREM NullOnlyWhenEmpty == Spec => PopNullIsEmpty
<1>1. IInv /\ [Next]_vars =>
        [pc[Owner] \in {"popTop", "popCas"} /\ pc'[Owner] = "idle" /\ taken' = taken
           => Left = {}]_vars
  BY StepHolds
<1>2. IInv /\ [Next]_vars => IInv'
  BY StepHolds
<1> QED BY <1>1, <1>2, InitHolds, PTL DEF Spec, PopNullIsEmpty

\* BoundedConcurrentTaskDeque implements the atomic deque of DequeSpec, on the
\* store buffer of the owner's processor: each task goes to one thread, the
\* newest first to the owner and the oldest first to the thieves.
THEOREM AtomicDeque == Spec => DequeImplemented
<1>1. Init => Abstract!Init
  BY DEF Init, Abstract!Init
<1>2. IInv /\ [Next]_vars => IInv' /\ [Abstract!Next]_(Abstract!vars)
  BY StepHolds
<1> QED BY <1>1, <1>2, InitHolds, PTL DEF Spec, DequeImplemented, Abstract!Spec
=============================================================================
