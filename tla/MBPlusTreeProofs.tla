-------------------------- MODULE MBPlusTreeProofs --------------------------
(***************************************************************************)
(* The MB+ tree keeps the rows that are put into it, each where a search    *)
(* finds it, for every set of keys and every capacity of nodes and leaves.  *)
(***************************************************************************)
EXTENDS MBPlusTree, FiniteSetTheorems, WellFoundedInduction, TLAPS

USE ConstantsAssumption

-----------------------------------------------------------------------------
(* Sequences, position by position.                                         *)

LEMMA SubSeqPoints ==
  ASSUME NEW X, NEW s \in Seq(X), NEW a \in 1 .. Len(s) + 1, NEW b \in a - 1 .. Len(s)
  PROVE  /\ SubSeq(s, a, b) \in Seq(X) /\ Len(SubSeq(s, a, b)) = b - a + 1
         /\ \A j \in 1 .. b - a + 1 : SubSeq(s, a, b)[j] = s[a + j - 1]
<1>1. Len(s) \in Nat /\ DOMAIN s = 1 .. Len(s) /\ \A i \in 1 .. Len(s) : s[i] \in X OBVIOUS
<1>2. \A j \in 1 .. b - a + 1 : a + j - 1 \in 1 .. Len(s) BY <1>1
<1> QED BY <1>1, <1>2

LEMMA ConcatPoints ==
  ASSUME NEW X, NEW s \in Seq(X), NEW r \in Seq(X)
  PROVE  /\ s \o r \in Seq(X) /\ Len(s \o r) = Len(s) + Len(r)
         /\ \A j \in 1 .. Len(s) + Len(r) :
              (s \o r)[j] = IF j <= Len(s) THEN s[j] ELSE r[j - Len(s)]
OBVIOUS

LEMMA ConcatKeys ==
  ASSUME NEW s \in Seq(Nat), NEW r \in Seq(Nat)
  PROVE  s \o r \in Seq(Nat) /\ Len(s \o r) = Len(s) + Len(r)
OBVIOUS

LEMMA InsertAtPoints ==
  ASSUME NEW X, NEW s \in Seq(X), NEW e \in X, NEW i \in 1 .. Len(s) + 1
  PROVE  /\ InsertAt(s, i, e) \in Seq(X) /\ Len(InsertAt(s, i, e)) = Len(s) + 1
         /\ \A j \in 1 .. Len(s) + 1 :
              /\ j < i => InsertAt(s, i, e)[j] = s[j]
              /\ j = i => InsertAt(s, i, e)[j] = e
              /\ j > i => InsertAt(s, i, e)[j] = s[j - 1]
<1> DEFINE a == SubSeq(s, 1, i - 1)
           b == SubSeq(s, i, Len(s))
           c == a \o <<e>>
<1>1. Len(s) \in Nat /\ i \in Nat OBVIOUS
<1>2. a \in Seq(X) /\ Len(a) = i - 1 /\ \A j \in 1 .. i - 1 : a[j] = s[j]
  BY <1>1, SubSeqPoints
<1>3. b \in Seq(X) /\ Len(b) = Len(s) - i + 1 /\ \A j \in 1 .. Len(s) - i + 1 : b[j] = s[i + j - 1]
  BY <1>1, SubSeqPoints
<1> HIDE DEF a, b
<1>4. c \in Seq(X) /\ Len(c) = i /\ \A j \in 1 .. i : c[j] = IF j <= i - 1 THEN a[j] ELSE e
  BY <1>1, <1>2
<1> HIDE DEF c
<1>5. /\ c \o b \in Seq(X) /\ Len(c \o b) = Len(s) + 1
      /\ \A j \in 1 .. Len(s) + 1 : (c \o b)[j] = IF j <= i THEN c[j] ELSE b[j - i]
  <2>1. /\ c \o b \in Seq(X) /\ Len(c \o b) = Len(c) + Len(b)
        /\ \A j \in 1 .. Len(c) + Len(b) :
             (c \o b)[j] = IF j <= Len(c) THEN c[j] ELSE b[j - Len(c)]
    BY <1>3, <1>4, ConcatPoints
  <2>2. Len(c) = i /\ Len(c) + Len(b) = Len(s) + 1 BY <1>1, <1>3, <1>4
  <2> QED BY <2>1, <2>2
<1>6. ASSUME NEW j \in 1 .. Len(s) + 1
      PROVE  /\ j < i => (c \o b)[j] = s[j]
             /\ j = i => (c \o b)[j] = e
             /\ j > i => (c \o b)[j] = s[j - 1]
  <2>1. CASE j < i BY <1>1, <1>2, <1>4, <1>5, <2>1
  <2>2. CASE j = i BY <1>1, <1>2, <1>4, <1>5, <2>2
  <2>3. CASE j > i
    <3>1. j - i \in 1 .. Len(s) - i + 1 /\ i + (j - i) - 1 = j - 1 BY <1>1, <2>3
    <3>2. b[j - i] = s[j - 1] BY <1>3, <3>1
    <3>3. (c \o b)[j] = b[j - i] BY <1>1, <1>5, <2>3
    <3>4. ~ (j < i) /\ j # i BY <1>1, <2>3
    <3> QED BY <3>2, <3>3, <3>4
  <2>4. j < i \/ j = i \/ j > i BY <1>1
  <2> QED BY <2>1, <2>2, <2>3, <2>4
<1> QED BY <1>5, <1>6 DEF InsertAt, a, b, c

\* ... of keys.
LEMMA InsertAtKeys ==
  \A s \in Seq(Nat) : \A e \in Nat : \A i \in 1 .. Len(s) + 1 :
    /\ InsertAt(s, i, e) \in Seq(Nat) /\ Len(InsertAt(s, i, e)) = Len(s) + 1
    /\ \A j \in 1 .. Len(s) + 1 :
         /\ j < i => InsertAt(s, i, e)[j] = s[j]
         /\ j = i => InsertAt(s, i, e)[j] = e
         /\ j > i => InsertAt(s, i, e)[j] = s[j - 1]
<1> DEFINE Points(X) ==
      \A s \in Seq(X) : \A e \in X : \A i \in 1 .. Len(s) + 1 :
        /\ InsertAt(s, i, e) \in Seq(X) /\ Len(InsertAt(s, i, e)) = Len(s) + 1
        /\ \A j \in 1 .. Len(s) + 1 :
             /\ j < i => InsertAt(s, i, e)[j] = s[j]
             /\ j = i => InsertAt(s, i, e)[j] = e
             /\ j > i => InsertAt(s, i, e)[j] = s[j - 1]
<1>1. ASSUME NEW X PROVE Points(X)
  <2> TAKE s \in Seq(X)
  <2> TAKE e \in X
  <2> TAKE i \in 1 .. Len(s) + 1
  <2>1. InsertAt(s, i, e) \in Seq(X) BY InsertAtPoints
  <2>2. Len(InsertAt(s, i, e)) = Len(s) + 1 BY InsertAtPoints
  <2>3. \A j \in 1 .. Len(s) + 1 :
          /\ j < i => InsertAt(s, i, e)[j] = s[j]
          /\ j = i => InsertAt(s, i, e)[j] = e
          /\ j > i => InsertAt(s, i, e)[j] = s[j - 1]
    BY InsertAtPoints
  <2> QED BY <2>1, <2>2, <2>3
<1> HIDE DEF Points
<1>2. Points(Nat) BY <1>1, Zenon
<1> QED BY <1>2 DEF Points

LEMMA RemoveAtPoints ==
  ASSUME NEW X, NEW s \in Seq(X), NEW i \in 1 .. Len(s)
  PROVE  /\ RemoveAt(s, i) \in Seq(X) /\ Len(RemoveAt(s, i)) = Len(s) - 1
         /\ \A j \in 1 .. Len(s) - 1 :
              /\ j < i => RemoveAt(s, i)[j] = s[j]
              /\ j >= i => RemoveAt(s, i)[j] = s[j + 1]
<1> DEFINE a == SubSeq(s, 1, i - 1)
           b == SubSeq(s, i + 1, Len(s))
<1>1. Len(s) \in Nat /\ i \in Nat OBVIOUS
<1>2. a \in Seq(X) /\ Len(a) = i - 1 /\ \A j \in 1 .. i - 1 : a[j] = s[j]
  BY <1>1, SubSeqPoints
<1>3. b \in Seq(X) /\ Len(b) = Len(s) - i /\ \A j \in 1 .. Len(s) - i : b[j] = s[i + j]
  <2>1. i + 1 \in 1 .. Len(s) + 1 /\ Len(s) \in (i + 1) - 1 .. Len(s)
        /\ Len(s) - (i + 1) + 1 = Len(s) - i
    BY <1>1
  <2>2. \A j \in 1 .. Len(s) - i : (i + 1) + j - 1 = i + j BY <1>1
  <2>3. /\ b \in Seq(X) /\ Len(b) = Len(s) - (i + 1) + 1
        /\ \A j \in 1 .. Len(s) - (i + 1) + 1 : b[j] = s[(i + 1) + j - 1]
    BY <2>1, SubSeqPoints
  <2> HIDE DEF b
  <2> QED BY <2>1, <2>2, <2>3
<1> HIDE DEF a, b
<1>4. /\ a \o b \in Seq(X) /\ Len(a \o b) = Len(s) - 1
      /\ \A j \in 1 .. Len(s) - 1 : (a \o b)[j] = IF j <= i - 1 THEN a[j] ELSE b[j - (i - 1)]
  <2>1. /\ a \o b \in Seq(X) /\ Len(a \o b) = Len(a) + Len(b)
        /\ \A j \in 1 .. Len(a) + Len(b) :
             (a \o b)[j] = IF j <= Len(a) THEN a[j] ELSE b[j - Len(a)]
    BY <1>2, <1>3, ConcatPoints
  <2>2. Len(a) = i - 1 /\ Len(a) + Len(b) = Len(s) - 1 BY <1>1, <1>2, <1>3
  <2> QED BY <2>1, <2>2
<1>5. ASSUME NEW j \in 1 .. Len(s) - 1
      PROVE  /\ j < i => (a \o b)[j] = s[j]
             /\ j >= i => (a \o b)[j] = s[j + 1]
  <2>1. CASE j < i BY <1>1, <1>2, <1>4, <2>1
  <2>2. CASE ~ (j < i)
    <3>1. j - (i - 1) \in 1 .. Len(s) - i /\ i + (j - (i - 1)) = j + 1 BY <1>1, <2>2
    <3> QED BY <1>1, <1>3, <1>4, <2>2, <3>1
  <2> QED BY <2>1, <2>2
<1> QED BY <1>4, <1>5 DEF RemoveAt, a, b

LEMMA RemoveAtKeys ==
  \A s \in Seq(Nat) : \A i \in 1 .. Len(s) :
    /\ RemoveAt(s, i) \in Seq(Nat) /\ Len(RemoveAt(s, i)) = Len(s) - 1
    /\ \A j \in 1 .. Len(s) - 1 :
         /\ j < i => RemoveAt(s, i)[j] = s[j]
         /\ j >= i => RemoveAt(s, i)[j] = s[j + 1]
<1> DEFINE Points(X) ==
      \A s \in Seq(X) : \A i \in 1 .. Len(s) :
        /\ RemoveAt(s, i) \in Seq(X) /\ Len(RemoveAt(s, i)) = Len(s) - 1
        /\ \A j \in 1 .. Len(s) - 1 :
             /\ j < i => RemoveAt(s, i)[j] = s[j]
             /\ j >= i => RemoveAt(s, i)[j] = s[j + 1]
<1>1. ASSUME NEW X PROVE Points(X)
  <2> TAKE s \in Seq(X)
  <2> TAKE i \in 1 .. Len(s)
  <2>1. RemoveAt(s, i) \in Seq(X) BY RemoveAtPoints
  <2>2. Len(RemoveAt(s, i)) = Len(s) - 1 BY RemoveAtPoints
  <2>3. \A j \in 1 .. Len(s) - 1 :
          /\ j < i => RemoveAt(s, i)[j] = s[j]
          /\ j >= i => RemoveAt(s, i)[j] = s[j + 1]
    BY RemoveAtPoints
  <2> QED BY <2>1, <2>2, <2>3
<1> HIDE DEF Points
<1>2. Points(Nat) BY <1>1, Zenon
<1> QED BY <1>2 DEF Points

\* A nonempty set of naturals has a smallest element, which Min chooses.
LEMMA Smallest ==
  ASSUME NEW S \in SUBSET Nat, S # {}
  PROVE  Min(S) \in S /\ \A n \in S : Min(S) <= n
<1> DEFINE R == OpToRel(<, Nat)
<1>1. IsWellFoundedOn(R, Nat)
  BY NatLessThanWellFounded
<1>2. \A x, y \in Nat : <<x, y>> \in R <=> x < y
  BY DEF OpToRel
<1> HIDE DEF R
<1>3. PICK m \in S : \A n \in S : ~ (<<n, m>> \in R)
  BY <1>1, WFMin
<1>4. m \in Nat /\ \A n \in S : n \in Nat
  OBVIOUS
<1>5. \A n \in S : ~ (n < m)
  BY <1>2, <1>3, <1>4
<1>6. \A n \in S : m <= n
  BY <1>4, <1>5
<1> QED BY <1>6 DEF Min

-----------------------------------------------------------------------------
(* The keys of a node, and of the root, part the keys of rows into slots.   *)

Ascending(keys) == \A a, b \in DOMAIN keys : a < b => keys[a] <= keys[b]

\* A row with key k belongs into the j-th child.
InSlot(keys, j, k) ==
  /\ j \in 1 .. Len(keys) + 1
  /\ j > 1 => keys[j - 1] <= k
  /\ j <= Len(keys) => k < keys[j]

\* k may be a bound between children of the j-th child.
Between(keys, j, k) ==
  /\ j \in 1 .. Len(keys) + 1
  /\ j > 1 => keys[j - 1] <= k
  /\ j <= Len(keys) => k <= keys[j]

\* A search finds the slot of a key, of which there is one.
LEMMA SlotFinds ==
  ASSUME NEW keys \in Seq(Nat), NEW k \in Nat
  PROVE  InSlot(keys, Slot(keys, k), k)
<1> DEFINE S == {i \in DOMAIN keys : k < keys[i]} \cup {Len(keys) + 1}
           m == Min(S)
<1>1. Len(keys) \in Nat /\ DOMAIN keys = 1 .. Len(keys) /\ \A i \in 1 .. Len(keys) : keys[i] \in Nat
  OBVIOUS
<1>2. S \in SUBSET Nat /\ S # {} BY <1>1
<1>3. m \in S /\ \A n \in S : m <= n BY <1>2, Smallest
<1>4. Slot(keys, k) = m BY DEF Slot
<1>5. m \in 1 .. Len(keys) + 1 BY <1>1, <1>3
<1>6. m <= Len(keys) => k < keys[m] BY <1>1, <1>3
<1>7. m > 1 => keys[m - 1] <= k
  <2> SUFFICES ASSUME m > 1, ~ (keys[m - 1] <= k) PROVE FALSE
    OBVIOUS
  <2> HIDE DEF m
  <2>1. m - 1 \in 1 .. Len(keys) BY <1>1, <1>5
  <2>2. k < keys[m - 1] BY <1>1, <2>1
  <2>3. m - 1 \in S BY <1>1, <2>1, <2>2
  <2>4. m <= m - 1 BY <1>3, <2>3
  <2> QED BY <1>1, <1>5, <2>4
<1> HIDE DEF m
<1> QED BY <1>4, <1>5, <1>6, <1>7 DEF InSlot

LEMMA SlotUnique ==
  ASSUME NEW keys \in Seq(Nat), Ascending(keys), NEW k \in Nat,
         NEW i, NEW j, InSlot(keys, i, k), InSlot(keys, j, k)
  PROVE  i = j
<1>1. Len(keys) \in Nat /\ DOMAIN keys = 1 .. Len(keys) /\ \A n \in 1 .. Len(keys) : keys[n] \in Nat
  OBVIOUS
<1>2. ASSUME NEW a \in 1 .. Len(keys) + 1, NEW b \in 1 .. Len(keys) + 1, a < b,
             InSlot(keys, a, k), InSlot(keys, b, k)
      PROVE  FALSE
  <2>1. a \in 1 .. Len(keys) /\ b - 1 \in 1 .. Len(keys) /\ a <= b - 1 BY <1>1, <1>2
  <2>2. k < keys[a] /\ keys[b - 1] <= k BY <1>1, <1>2, <2>1 DEF InSlot
  <2>3. keys[a] <= keys[b - 1]
    <3>1. CASE a = b - 1 BY <1>1, <2>1, <3>1
    <3>2. CASE a # b - 1
      <4>1. a < b - 1 BY <1>1, <2>1, <3>2
      <4> QED BY <1>1, <2>1, <4>1 DEF Ascending
    <3> QED BY <3>1, <3>2
  <2> QED BY <1>1, <2>1, <2>2, <2>3
<1>3. i \in 1 .. Len(keys) + 1 /\ j \in 1 .. Len(keys) + 1 BY DEF InSlot
<1>4. ~ (i < j) BY <1>2, <1>3
<1>5. ~ (j < i) BY <1>2, <1>3
<1> QED BY <1>1, <1>3, <1>4, <1>5

\* Slots when a bound is added ...
LEMMA KeyInserted ==
  ASSUME NEW keys \in Seq(Nat), Ascending(keys), NEW cut \in Nat,
         NEW i \in 1 .. Len(keys) + 1, Between(keys, i, cut),
         NEW new, new = InsertAt(keys, i, cut)
  PROVE  /\ new \in Seq(Nat) /\ Ascending(new) /\ Len(new) = Len(keys) + 1
         /\ ToSet(new) = ToSet(keys) \cup {cut}
         /\ new[i] = cut
         /\ \A j \in 1 .. Len(keys) : new[IF j < i THEN j ELSE j + 1] = keys[j]
         /\ \A k \in Nat, j \in 1 .. Len(keys) + 1 : InSlot(keys, j, k) =>
              /\ j < i \/ (j = i /\ k < cut) => InSlot(new, j, k)
              /\ j > i \/ (j = i /\ cut <= k) => InSlot(new, j + 1, k)
         /\ \A k \in Nat, j \in 1 .. Len(keys) + 1 : Between(keys, j, k) =>
              /\ j < i \/ (j = i /\ k <= cut) => Between(new, j, k)
              /\ j > i \/ (j = i /\ cut <= k) => Between(new, j + 1, k)
<1> DEFINE n == Len(keys)
<1>1. n \in Nat /\ DOMAIN keys = 1 .. n /\ i \in Nat /\ \A j \in 1 .. n : keys[j] \in Nat
  OBVIOUS
<1>2. /\ new \in Seq(Nat) /\ Len(new) = n + 1
      /\ \A j \in 1 .. n + 1 : new[j] = IF j < i THEN keys[j] ELSE IF j = i THEN cut ELSE keys[j - 1]
  <2>1. /\ InsertAt(keys, i, cut) \in Seq(Nat) /\ Len(InsertAt(keys, i, cut)) = Len(keys) + 1
        /\ \A j \in 1 .. Len(keys) + 1 :
             /\ j < i => InsertAt(keys, i, cut)[j] = keys[j]
             /\ j = i => InsertAt(keys, i, cut)[j] = cut
             /\ j > i => InsertAt(keys, i, cut)[j] = keys[j - 1]
    <3> HIDE ConstantsAssumption
    <3> QED BY InsertAtKeys, Zenon
  <2>2. \A j \in 1 .. n + 1 : j < i \/ j = i \/ (j > i /\ ~ (j < i) /\ j # i) BY <1>1
  <2>3. /\ new \in Seq(Nat) /\ Len(new) = n + 1
        /\ \A j \in 1 .. n + 1 :
             /\ j < i => new[j] = keys[j]
             /\ j = i => new[j] = cut
             /\ j > i => new[j] = keys[j - 1]
    BY <2>1, Zenon
  <2> HIDE DEF n
  <2> QED BY <2>2, <2>3
<1>3. DOMAIN new = 1 .. n + 1 BY <1>2
<1> HIDE DEF n
<1>4. /\ i \in 1 .. n + 1 /\ (i > 1 => keys[i - 1] <= cut) /\ (i <= n => cut <= keys[i])
  BY DEF Between, n
<1>a. \A a, b \in 1 .. n : a <= b => keys[a] <= keys[b]
  <2> TAKE a, b \in 1 .. n
  <2>1. CASE a < b BY <1>1, <2>1 DEF Ascending
  <2>2. CASE a = b BY <1>1, <2>2
  <2> QED BY <2>1, <2>2
<1>b. \A a \in 1 .. n : (a < i => keys[a] <= cut) /\ (a >= i => cut <= keys[a])
  <2> TAKE a \in 1 .. n
  <2>1. ASSUME a < i PROVE keys[a] <= cut
    <3>1. i - 1 \in 1 .. n /\ a <= i - 1 BY <1>1, <1>4, <2>1
    <3> QED BY <1>1, <1>4, <1>a, <2>1, <3>1
  <2>2. ASSUME a >= i PROVE cut <= keys[a]
    <3>1. i \in 1 .. n BY <1>1, <1>4, <2>2
    <3> QED BY <1>1, <1>4, <1>a, <2>2, <3>1
  <2> QED BY <2>1, <2>2
<1>5. Ascending(new)
  <2> SUFFICES ASSUME NEW a \in 1 .. n + 1, NEW b \in 1 .. n + 1, a < b PROVE new[a] <= new[b]
    BY <1>3 DEF Ascending
  <2>1. CASE b < i
    <3>1. a \in 1 .. n /\ b \in 1 .. n /\ a < i BY <1>1, <1>4, <2>1
    <3> QED BY <1>2, <1>a, <2>1, <3>1
  <2>2. CASE b = i
    <3>1. a \in 1 .. n /\ a < i BY <1>1, <1>4, <2>2
    <3> QED BY <1>1, <1>2, <1>b, <2>2, <3>1
  <2>3. CASE b > i /\ a < i
    <3>1. a \in 1 .. n /\ b - 1 \in 1 .. n /\ a <= b - 1 /\ ~ (b < i) /\ b # i BY <1>1, <1>4, <2>3
    <3> QED BY <1>2, <1>a, <2>3, <3>1
  <2>4. CASE b > i /\ a = i
    <3>1. b - 1 \in 1 .. n /\ b - 1 >= i /\ ~ (b < i) /\ b # i BY <1>1, <1>4, <2>4
    <3> QED BY <1>1, <1>2, <1>b, <2>4, <3>1
  <2>5. CASE b > i /\ a > i
    <3>1. a - 1 \in 1 .. n /\ b - 1 \in 1 .. n /\ a - 1 <= b - 1 /\ ~ (b < i) /\ b # i
          /\ ~ (a < i) /\ a # i
      BY <1>1, <1>4, <2>5
    <3> QED BY <1>2, <1>a, <3>1
  <2>6. b < i \/ b = i \/ (b > i /\ a < i) \/ (b > i /\ a = i) \/ (b > i /\ a > i) BY <1>1
  <2> QED BY <2>1, <2>2, <2>3, <2>4, <2>5, <2>6
<1>6. new[i] = cut /\ \A j \in 1 .. n : new[IF j < i THEN j ELSE j + 1] = keys[j]
  <2>1. i < i <=> FALSE BY <1>1
  <2>2. new[i] = cut BY <1>2, <1>4, <2>1
  <2>3. ASSUME NEW j \in 1 .. n, j < i PROVE new[j] = keys[j] BY <1>1, <1>2, <2>3
  <2>4. ASSUME NEW j \in 1 .. n, ~ (j < i) PROVE new[j + 1] = keys[j]
    <3>1. j + 1 \in 1 .. n + 1 /\ ~ (j + 1 < i) /\ j + 1 # i /\ (j + 1) - 1 = j BY <1>1, <2>4
    <3> QED BY <1>2, <3>1
  <2> QED BY <2>2, <2>3, <2>4
<1>7. ToSet(new) = ToSet(keys) \cup {cut}
  <2>1. \A j \in 1 .. n + 1 : new[j] \in ToSet(keys) \cup {cut}
    <3> TAKE j \in 1 .. n + 1
    <3>1. CASE j < i
      <4>1. j \in DOMAIN keys BY <1>1, <1>4, <3>1
      <4> QED BY <1>2, <3>1, <4>1 DEF ToSet
    <3>2. CASE j = i BY <1>6, <3>2
    <3>3. CASE j > i
      <4>1. j - 1 \in DOMAIN keys /\ ~ (j < i) /\ j # i BY <1>1, <1>4, <3>3
      <4> QED BY <1>2, <4>1 DEF ToSet
    <3>4. j < i \/ j = i \/ j > i BY <1>1
    <3> QED BY <3>1, <3>2, <3>3, <3>4
  <2>2. cut \in ToSet(new) BY <1>3, <1>4, <1>6 DEF ToSet
  <2>3. \A j \in 1 .. n : keys[j] \in ToSet(new)
    <3> TAKE j \in 1 .. n
    <3>1. (IF j < i THEN j ELSE j + 1) \in DOMAIN new BY <1>1, <1>3
    <3> QED BY <1>6, <3>1 DEF ToSet
  <2> QED BY <1>1, <1>3, <2>1, <2>2, <2>3 DEF ToSet
<1>8. ASSUME NEW k \in Nat, NEW j \in 1 .. n + 1, InSlot(keys, j, k)
      PROVE  /\ j < i \/ (j = i /\ k < cut) => InSlot(new, j, k)
             /\ j > i \/ (j = i /\ cut <= k) => InSlot(new, j + 1, k)
  <2>0. (j > 1 => keys[j - 1] <= k) /\ (j <= n => k < keys[j]) BY <1>8 DEF InSlot, n
  <2>1. CASE j < i
    <3>1. j \in 1 .. n + 1 /\ j <= n /\ j - 1 < i /\ ~ (j > i) /\ j # i BY <1>1, <1>4, <2>1
    <3>2. new[j] = keys[j] BY <1>2, <2>1
    <3>3. j > 1 => j - 1 \in 1 .. n + 1 /\ new[j - 1] = keys[j - 1] BY <1>1, <1>2, <3>1
    <3> QED BY <1>1, <1>2, <2>0, <3>1, <3>2, <3>3 DEF InSlot
  <2>2. CASE j = i
    <3>1. i > 1 => i - 1 \in 1 .. n + 1 /\ i - 1 < i BY <1>1, <1>4
    <3>2. i > 1 => new[i - 1] = keys[i - 1] BY <1>2, <3>1
    <3>3. k < cut => InSlot(new, i, k) BY <1>1, <1>2, <1>4, <1>6, <2>0, <2>2, <3>2 DEF InSlot
    <3>4. i <= n => i + 1 \in 1 .. n + 1 /\ ~ (i + 1 < i) /\ i + 1 # i /\ (i + 1) - 1 = i
      BY <1>1, <1>4
    <3>5. i <= n => new[i + 1] = keys[i] BY <1>2, <3>4
    <3>6. cut <= k => InSlot(new, i + 1, k)
      <4>1. i + 1 \in 1 .. Len(new) + 1 /\ (i + 1) - 1 = i /\ (i + 1 <= Len(new) => i <= n)
        BY <1>1, <1>2, <1>4
      <4> QED BY <1>6, <2>0, <2>2, <3>5, <4>1 DEF InSlot
    <3> QED BY <1>1, <2>2, <3>3, <3>6
  <2>3. CASE j > i
    <3>1. /\ j \in 1 .. n + 1 /\ ~ (j < i) /\ j # i /\ j > 1
          /\ j + 1 \in 1 .. Len(new) + 1 /\ (j + 1) - 1 = j
      BY <1>1, <1>2, <1>4, <2>3
    <3>2. new[j] = keys[j - 1] BY <1>2, <3>1
    <3>3. j <= n => new[j + 1] = keys[j]
      <4>1. j <= n => j + 1 \in 1 .. n + 1 /\ ~ (j + 1 < i) /\ j + 1 # i BY <1>1, <2>3
      <4> QED BY <1>2, <3>1, <4>1
    <3>4. InSlot(new, j + 1, k)
      <4>1. j + 1 <= Len(new) => j <= n BY <1>1, <1>2
      <4> QED BY <2>0, <3>1, <3>2, <3>3, <4>1 DEF InSlot
    <3> QED BY <3>1, <3>4
  <2>4. j < i \/ j = i \/ j > i BY <1>1
  <2> QED BY <2>1, <2>2, <2>3, <2>4
<1>9. ASSUME NEW k \in Nat, NEW j \in 1 .. n + 1, Between(keys, j, k)
      PROVE  /\ j < i \/ (j = i /\ k <= cut) => Between(new, j, k)
             /\ j > i \/ (j = i /\ cut <= k) => Between(new, j + 1, k)
  <2>0. (j > 1 => keys[j - 1] <= k) /\ (j <= n => k <= keys[j]) BY <1>9 DEF Between, n
  <2>1. CASE j < i
    <3>1. j \in 1 .. n + 1 /\ j <= n /\ j - 1 < i /\ ~ (j > i) /\ j # i BY <1>1, <1>4, <2>1
    <3>2. new[j] = keys[j] BY <1>2, <2>1
    <3>3. j > 1 => j - 1 \in 1 .. n + 1 /\ new[j - 1] = keys[j - 1] BY <1>1, <1>2, <3>1
    <3> QED BY <1>1, <1>2, <2>0, <3>1, <3>2, <3>3 DEF Between
  <2>2. CASE j = i
    <3>1. i > 1 => i - 1 \in 1 .. n + 1 /\ i - 1 < i BY <1>1, <1>4
    <3>2. i > 1 => new[i - 1] = keys[i - 1] BY <1>2, <3>1
    <3>3. k <= cut => Between(new, i, k) BY <1>1, <1>2, <1>4, <1>6, <2>0, <2>2, <3>2 DEF Between
    <3>4. i <= n => i + 1 \in 1 .. n + 1 /\ ~ (i + 1 < i) /\ i + 1 # i /\ (i + 1) - 1 = i
      BY <1>1, <1>4
    <3>5. i <= n => new[i + 1] = keys[i] BY <1>2, <3>4
    <3>6. cut <= k => Between(new, i + 1, k)
      <4>1. i + 1 \in 1 .. Len(new) + 1 /\ (i + 1) - 1 = i /\ (i + 1 <= Len(new) => i <= n)
        BY <1>1, <1>2, <1>4
      <4> QED BY <1>6, <2>0, <2>2, <3>5, <4>1 DEF Between
    <3> QED BY <1>1, <2>2, <3>3, <3>6
  <2>3. CASE j > i
    <3>1. /\ j \in 1 .. n + 1 /\ ~ (j < i) /\ j # i /\ j > 1
          /\ j + 1 \in 1 .. Len(new) + 1 /\ (j + 1) - 1 = j
      BY <1>1, <1>2, <1>4, <2>3
    <3>2. new[j] = keys[j - 1] BY <1>2, <3>1
    <3>3. j <= n => new[j + 1] = keys[j]
      <4>1. j <= n => j + 1 \in 1 .. n + 1 /\ ~ (j + 1 < i) /\ j + 1 # i BY <1>1, <2>3
      <4> QED BY <1>2, <3>1, <4>1
    <3>4. Between(new, j + 1, k)
      <4>1. j + 1 <= Len(new) => j <= n BY <1>1, <1>2
      <4> QED BY <2>0, <3>1, <3>2, <3>3, <4>1 DEF Between
    <3> QED BY <3>1, <3>4
  <2>4. j < i \/ j = i \/ j > i BY <1>1
  <2> QED BY <2>1, <2>2, <2>3, <2>4
<1> QED BY <1>2, <1>5, <1>6, <1>7, <1>8, <1>9 DEF n

\* ... when the i-th bound is taken away, ...
LEMMA KeyRemoved ==
  ASSUME NEW keys \in Seq(Nat), Ascending(keys), NEW i \in 1 .. Len(keys),
         NEW new, new = RemoveAt(keys, i)
  PROVE  /\ new \in Seq(Nat) /\ Ascending(new) /\ Len(new) = Len(keys) - 1
         /\ ToSet(new) \subseteq ToSet(keys)
         /\ \A j \in 1 .. Len(keys) - 1 :
              (j < i => new[j] = keys[j]) /\ (j >= i => new[j] = keys[j + 1])
         /\ \A k \in Nat, j \in 1 .. Len(keys) + 1 : InSlot(keys, j, k) =>
              /\ j <= i => InSlot(new, j, k)
              /\ j > i => InSlot(new, j - 1, k)
         /\ \A k \in Nat, j \in 1 .. Len(keys) + 1 : Between(keys, j, k) =>
              /\ j <= i => Between(new, j, k)
              /\ j > i => Between(new, j - 1, k)
<1> DEFINE n == Len(keys)
<1>1. n \in Nat /\ DOMAIN keys = 1 .. n /\ i \in Nat /\ \A j \in 1 .. n : keys[j] \in Nat
  OBVIOUS
<1>2. /\ new \in Seq(Nat) /\ Len(new) = n - 1
      /\ \A j \in 1 .. n - 1 :
           /\ j < i => new[j] = keys[j]
           /\ j >= i => new[j] = keys[j + 1]
  <2>1. /\ RemoveAt(keys, i) \in Seq(Nat) /\ Len(RemoveAt(keys, i)) = Len(keys) - 1
        /\ \A j \in 1 .. Len(keys) - 1 :
             /\ j < i => RemoveAt(keys, i)[j] = keys[j]
             /\ j >= i => RemoveAt(keys, i)[j] = keys[j + 1]
    <3> HIDE ConstantsAssumption
    <3> QED BY RemoveAtKeys, Zenon
  <2> QED BY <2>1, Zenon
<1> HIDE DEF n
<1>3. DOMAIN new = 1 .. n - 1
  <2>1. DOMAIN new = 1 .. Len(new) BY <1>2
  <2> QED BY <1>2, <2>1
<1>4. i \in 1 .. n BY DEF n
<1>5. \A a, b \in 1 .. n : a <= b => keys[a] <= keys[b]
  <2> TAKE a, b \in 1 .. n
  <2>1. CASE a < b BY <1>1, <2>1 DEF Ascending
  <2>2. CASE a = b BY <1>1, <2>2
  <2> QED BY <2>1, <2>2
<1>6. Ascending(new)
  <2> SUFFICES ASSUME NEW a \in 1 .. n - 1, NEW b \in 1 .. n - 1, a < b PROVE new[a] <= new[b]
    BY <1>3 DEF Ascending
  <2>0. a \in 1 .. n /\ b \in 1 .. n /\ a + 1 \in 1 .. n /\ b + 1 \in 1 .. n BY <1>1
  <2>1. CASE b < i
    <3>1. a < i /\ a <= b BY <1>1, <2>1
    <3>2. new[a] = keys[a] /\ new[b] = keys[b] BY <1>2, <2>1, <3>1
    <3> QED BY <1>5, <2>0, <3>1, <3>2
  <2>2. CASE b >= i /\ a < i
    <3>1. a <= b + 1 BY <1>1
    <3> QED BY <1>2, <1>5, <2>0, <2>2, <3>1
  <2>3. CASE b >= i /\ a >= i
    <3>1. a + 1 <= b + 1 BY <1>1
    <3> QED BY <1>2, <1>5, <2>0, <2>3, <3>1
  <2>4. b < i \/ (b >= i /\ a < i) \/ (b >= i /\ a >= i) BY <1>1
  <2> QED BY <2>1, <2>2, <2>3, <2>4
<1>7. ToSet(new) \subseteq ToSet(keys)
  <2>1. ASSUME NEW j \in 1 .. n - 1 PROVE new[j] \in ToSet(keys)
    <3>0. j \in DOMAIN keys /\ j + 1 \in DOMAIN keys BY <1>1
    <3>1. CASE j < i BY <1>2, <3>0, <3>1 DEF ToSet
    <3>2. CASE j >= i BY <1>2, <3>0, <3>2 DEF ToSet
    <3>3. j < i \/ j >= i BY <1>1
    <3> QED BY <3>1, <3>2, <3>3
  <2> QED BY <1>3, <2>1 DEF ToSet
<1>8. ASSUME NEW j \in 1 .. n + 1, j <= i
      PROVE  /\ j \in 1 .. Len(new) + 1
             /\ j > 1 => j - 1 \in 1 .. n - 1 /\ new[j - 1] = keys[j - 1]
             /\ j <= Len(new) => j <= n /\ keys[j] <= new[j]
  <2>1. j \in 1 .. Len(new) + 1 /\ (j > 1 => j - 1 \in 1 .. n - 1 /\ j - 1 < i)
    BY <1>1, <1>2, <1>4, <1>8
  <2>2. ASSUME j <= Len(new) PROVE j <= n /\ keys[j] <= new[j]
    <3>1. j \in 1 .. n - 1 /\ j \in 1 .. n /\ j + 1 \in 1 .. n /\ j <= j + 1 BY <1>1, <1>2, <2>2
    <3>2. CASE j < i BY <1>1, <1>2, <3>1, <3>2
    <3>3. CASE j >= i BY <1>1, <1>2, <1>5, <3>1, <3>3
    <3>4. j < i \/ j >= i BY <1>1
    <3> QED BY <1>1, <3>1, <3>2, <3>3, <3>4
  <2> QED BY <1>2, <2>1, <2>2
<1>9. ASSUME NEW j \in 1 .. n + 1, j > i
      PROVE  /\ j - 1 \in 1 .. Len(new) + 1 /\ j > 1
             /\ j - 1 > 1 => (j - 1) - 1 \in 1 .. n - 1 /\ new[(j - 1) - 1] <= keys[j - 1]
             /\ j - 1 <= Len(new) => j <= n /\ new[j - 1] = keys[j]
  <2>1. j - 1 \in 1 .. Len(new) + 1 /\ j > 1 BY <1>1, <1>2, <1>4, <1>9
  <2>2. ASSUME j - 1 > 1 PROVE (j - 1) - 1 \in 1 .. n - 1 /\ new[(j - 1) - 1] <= keys[j - 1]
    <3>1. /\ (j - 1) - 1 \in 1 .. n - 1 /\ (j - 1) - 1 \in 1 .. n /\ j - 1 \in 1 .. n
          /\ (j - 1) - 1 <= j - 1 /\ ((j - 1) - 1) + 1 = j - 1
      BY <1>1, <1>2, <2>2
    <3>2. CASE (j - 1) - 1 < i BY <1>1, <1>2, <1>5, <3>1, <3>2
    <3>3. CASE (j - 1) - 1 >= i BY <1>1, <1>2, <1>5, <3>1, <3>3
    <3>4. (j - 1) - 1 < i \/ (j - 1) - 1 >= i BY <1>1
    <3> QED BY <3>1, <3>2, <3>3, <3>4
  <2>3. ASSUME j - 1 <= Len(new) PROVE j <= n /\ new[j - 1] = keys[j]
    <3>1. j - 1 \in 1 .. n - 1 /\ j - 1 >= i /\ (j - 1) + 1 = j /\ j <= n
      BY <1>1, <1>2, <1>4, <1>9, <2>3
    <3> QED BY <1>2, <3>1
  <2> QED BY <2>1, <2>2, <2>3
<1>10. Len(new) \in Nat /\ \A j \in 1 .. Len(new) : new[j] \in Nat BY <1>2
<1>11. ASSUME NEW k \in Nat, NEW j \in 1 .. n + 1, InSlot(keys, j, k)
       PROVE  (j <= i => InSlot(new, j, k)) /\ (j > i => InSlot(new, j - 1, k))
  <2>0. (j > 1 => keys[j - 1] <= k) /\ (j <= n => k < keys[j]) BY <1>11 DEF InSlot, n
  <2>1. ASSUME j <= i PROVE InSlot(new, j, k)
    <3>1. j <= Len(new) => k < new[j] BY <1>1, <1>8, <1>10, <2>0, <2>1
    <3> QED BY <1>8, <2>0, <2>1, <3>1 DEF InSlot
  <2>2. ASSUME j > i PROVE InSlot(new, j - 1, k)
    <3>1. j - 1 > 1 => new[(j - 1) - 1] <= k
      <4> SUFFICES ASSUME j - 1 > 1 PROVE new[(j - 1) - 1] <= k OBVIOUS
      <4>1. j > 1 /\ j - 1 \in 1 .. n /\ (j - 1) - 1 \in 1 .. Len(new) BY <1>1, <1>2, <1>9, <2>2
      <4>2. new[(j - 1) - 1] <= keys[j - 1] BY <1>9, <2>2
      <4>3. keys[j - 1] \in Nat /\ new[(j - 1) - 1] \in Nat BY <1>1, <1>10, <4>1
      <4> QED BY <2>0, <4>1, <4>2, <4>3
    <3> QED BY <1>9, <2>0, <2>2, <3>1 DEF InSlot
  <2> QED BY <2>1, <2>2
<1>12. ASSUME NEW k \in Nat, NEW j \in 1 .. n + 1, Between(keys, j, k)
       PROVE  (j <= i => Between(new, j, k)) /\ (j > i => Between(new, j - 1, k))
  <2>0. (j > 1 => keys[j - 1] <= k) /\ (j <= n => k <= keys[j]) BY <1>12 DEF Between, n
  <2>1. ASSUME j <= i PROVE Between(new, j, k)
    <3>1. j <= Len(new) => k <= new[j] BY <1>1, <1>8, <1>10, <2>0, <2>1
    <3> QED BY <1>8, <2>0, <2>1, <3>1 DEF Between
  <2>2. ASSUME j > i PROVE Between(new, j - 1, k)
    <3>1. j - 1 > 1 => new[(j - 1) - 1] <= k
      <4> SUFFICES ASSUME j - 1 > 1 PROVE new[(j - 1) - 1] <= k OBVIOUS
      <4>1. j > 1 /\ j - 1 \in 1 .. n /\ (j - 1) - 1 \in 1 .. Len(new) BY <1>1, <1>2, <1>9, <2>2
      <4>2. new[(j - 1) - 1] <= keys[j - 1] BY <1>9, <2>2
      <4>3. keys[j - 1] \in Nat /\ new[(j - 1) - 1] \in Nat BY <1>1, <1>10, <4>1
      <4> QED BY <2>0, <4>1, <4>2, <4>3
    <3> QED BY <1>9, <2>0, <2>2, <3>1 DEF Between
  <2> QED BY <2>1, <2>2
<1> QED BY <1>2, <1>6, <1>7, <1>11, <1>12 DEF n

\* ... and when it is moved.
LEMMA KeyMoved ==
  ASSUME NEW keys \in Seq(Nat), Ascending(keys), NEW i \in 1 .. Len(keys), NEW cut \in Nat,
         Between(keys, i, cut) \/ Between(keys, i + 1, cut),
         NEW new \in Seq(Nat), Len(new) = Len(keys), new[i] = cut,
         \A j \in 1 .. Len(keys) : j # i => new[j] = keys[j]
  PROVE  /\ Ascending(new)
         /\ ToSet(new) \subseteq ToSet(keys) \cup {cut}
         /\ \A k \in Nat, j \in 1 .. Len(keys) + 1 : InSlot(keys, j, k) =>
              /\ j # i /\ j # i + 1 => InSlot(new, j, k)
              /\ (j = i \/ j = i + 1) /\ k < cut => InSlot(new, i, k)
              /\ (j = i \/ j = i + 1) /\ cut <= k => InSlot(new, i + 1, k)
         /\ \A k \in Nat, j \in 1 .. Len(keys) + 1 : Between(keys, j, k) =>
              /\ j # i /\ j # i + 1 => Between(new, j, k)
              /\ (j = i \/ j = i + 1) /\ k <= cut => Between(new, i, k)
              /\ (j = i \/ j = i + 1) /\ cut <= k => Between(new, i + 1, k)
<1> DEFINE n == Len(keys)
<1>1. n \in Nat /\ DOMAIN keys = 1 .. n /\ i \in Nat /\ \A j \in 1 .. n : keys[j] \in Nat
  OBVIOUS
<1>2. /\ new \in Seq(Nat) /\ Len(new) = n /\ DOMAIN new = 1 .. n
      /\ new[i] = cut /\ \A j \in 1 .. n : j # i => new[j] = keys[j]
  OBVIOUS
<1> HIDE DEF n
<1>3. i \in 1 .. n BY DEF n
<1>4. \A a, b \in 1 .. n : a <= b => keys[a] <= keys[b]
  <2> TAKE a, b \in 1 .. n
  <2>1. CASE a < b BY <1>1, <2>1 DEF Ascending
  <2>2. CASE a = b BY <1>1, <2>2
  <2> QED BY <2>1, <2>2
<1>5. (i > 1 => i - 1 \in 1 .. n) /\ (i < n => i + 1 \in 1 .. n) /\ (i + 1) - 1 = i BY <1>1, <1>3
<1>6. (i > 1 => keys[i - 1] <= cut) /\ (i < n => cut <= keys[i + 1])
  <2>1. CASE Between(keys, i, cut)
    <3>1. (i > 1 => keys[i - 1] <= cut) /\ cut <= keys[i] BY <1>3, <2>1 DEF Between, n
    <3>2. i < n => keys[i] <= keys[i + 1] BY <1>1, <1>3, <1>4, <1>5
    <3> QED BY <1>1, <1>3, <1>5, <3>1, <3>2
  <2>2. CASE Between(keys, i + 1, cut)
    <3>1. keys[i] <= cut /\ (i < n => cut <= keys[i + 1]) BY <1>1, <1>3, <1>5, <2>2 DEF Between, n
    <3>2. i > 1 => keys[i - 1] <= keys[i] BY <1>1, <1>3, <1>4, <1>5
    <3> QED BY <1>1, <1>3, <1>5, <3>1, <3>2
  <2> QED BY <2>1, <2>2
<1>7. Ascending(new)
  <2> SUFFICES ASSUME NEW a \in 1 .. n, NEW b \in 1 .. n, a < b PROVE new[a] <= new[b]
    BY <1>2 DEF Ascending
  <2>1. CASE a # i /\ b # i BY <1>1, <1>2, <1>4, <2>1
  <2>2. CASE a = i
    <3>1. b # i /\ i < n /\ i + 1 <= b BY <1>1, <2>2
    <3>2. cut <= keys[i + 1] /\ keys[i + 1] <= keys[b] BY <1>4, <1>5, <1>6, <3>1
    <3> QED BY <1>1, <1>2, <1>5, <2>2, <3>1, <3>2
  <2>3. CASE b = i
    <3>1. a # i /\ i > 1 /\ a <= i - 1 BY <1>1, <2>3
    <3>2. keys[i - 1] <= cut /\ keys[a] <= keys[i - 1] BY <1>4, <1>5, <1>6, <3>1
    <3> QED BY <1>1, <1>2, <1>5, <2>3, <3>1, <3>2
  <2> QED BY <2>1, <2>2, <2>3
<1>8. ToSet(new) \subseteq ToSet(keys) \cup {cut}
  <2>1. \A j \in 1 .. n : new[j] \in ToSet(keys) \cup {cut}
    BY <1>1, <1>2 DEF ToSet
  <2> QED BY <1>2, <2>1 DEF ToSet
<1>9. ASSUME NEW j \in 1 .. n + 1, j # i, j # i + 1
      PROVE  /\ j > 1 => new[j - 1] = keys[j - 1]
             /\ j <= n => new[j] = keys[j]
  BY <1>1, <1>2, <1>9
<1>10. ASSUME NEW k \in Nat, NEW j \in 1 .. n + 1, j = i \/ j = i + 1,
              j > 1 => keys[j - 1] <= k, j <= n => k <= keys[j]
       PROVE  (i > 1 => keys[i - 1] <= k) /\ (i < n => k <= keys[i + 1])
  <2>1. CASE j = i
    <3>1. i < n => keys[i] <= keys[i + 1] BY <1>1, <1>3, <1>4, <1>5
    <3> QED BY <1>1, <1>3, <1>5, <1>10, <2>1, <3>1
  <2>2. CASE j = i + 1
    <3>1. i > 1 => keys[i - 1] <= keys[i] BY <1>1, <1>3, <1>4, <1>5
    <3>2. j > 1 /\ j - 1 = i BY <1>1, <1>3, <2>2
    <3>3. i < n => j <= n BY <1>1, <2>2
    <3> QED BY <1>1, <1>3, <1>5, <1>10, <2>2, <3>1, <3>2, <3>3
  <2> QED BY <1>10, <2>1, <2>2
<1>11. ASSUME NEW k \in Nat, NEW j \in 1 .. n + 1, InSlot(keys, j, k)
       PROVE  /\ j # i /\ j # i + 1 => InSlot(new, j, k)
              /\ (j = i \/ j = i + 1) /\ k < cut => InSlot(new, i, k)
              /\ (j = i \/ j = i + 1) /\ cut <= k => InSlot(new, i + 1, k)
  <2>0. (j > 1 => keys[j - 1] <= k) /\ (j <= n => k < keys[j]) BY <1>11 DEF InSlot, n
  <2>1. j # i /\ j # i + 1 => InSlot(new, j, k) BY <1>2, <1>9, <2>0 DEF InSlot
  <2>2. ASSUME j = i \/ j = i + 1 PROVE (i > 1 => keys[i - 1] <= k) /\ (i < n => k < keys[i + 1])
    <3>1. CASE j = i
      <4>1. i < n => keys[i] <= keys[i + 1] BY <1>1, <1>3, <1>4, <1>5
      <4> QED BY <1>1, <1>3, <1>5, <2>0, <3>1, <4>1
    <3>2. CASE j = i + 1
      <4>1. i > 1 => keys[i - 1] <= keys[i] BY <1>1, <1>3, <1>4, <1>5
      <4>2. j > 1 /\ j - 1 = i /\ (i < n => j <= n) BY <1>1, <1>3, <3>2
      <4> QED BY <1>1, <1>3, <1>5, <2>0, <3>2, <4>1, <4>2
    <3> QED BY <2>2, <3>1, <3>2
  <2>3. i > 1 => new[i - 1] = keys[i - 1] BY <1>1, <1>2, <1>5
  <2>4. i < n => new[i + 1] = keys[i + 1] BY <1>1, <1>2, <1>5
  <2>5. (j = i \/ j = i + 1) /\ k < cut => InSlot(new, i, k)
    BY <1>1, <1>2, <1>3, <2>2, <2>3 DEF InSlot
  <2>6. (j = i \/ j = i + 1) /\ cut <= k => InSlot(new, i + 1, k)
    <3>1. i + 1 \in 1 .. n + 1 /\ (i + 1 <= n => i < n) BY <1>1, <1>3
    <3> QED BY <1>2, <1>5, <2>2, <2>4, <3>1 DEF InSlot
  <2> QED BY <2>1, <2>5, <2>6
<1>12. ASSUME NEW k \in Nat, NEW j \in 1 .. n + 1, Between(keys, j, k)
       PROVE  /\ j # i /\ j # i + 1 => Between(new, j, k)
              /\ (j = i \/ j = i + 1) /\ k <= cut => Between(new, i, k)
              /\ (j = i \/ j = i + 1) /\ cut <= k => Between(new, i + 1, k)
  <2>0. (j > 1 => keys[j - 1] <= k) /\ (j <= n => k <= keys[j]) BY <1>12 DEF Between, n
  <2>1. j # i /\ j # i + 1 => Between(new, j, k) BY <1>2, <1>9, <2>0 DEF Between
  <2>2. ASSUME j = i \/ j = i + 1 PROVE (i > 1 => keys[i - 1] <= k) /\ (i < n => k <= keys[i + 1])
    BY <1>10, <2>0, <2>2
  <2>3. i > 1 => new[i - 1] = keys[i - 1] BY <1>1, <1>2, <1>5
  <2>4. i < n => new[i + 1] = keys[i + 1] BY <1>1, <1>2, <1>5
  <2>5. (j = i \/ j = i + 1) /\ k <= cut => Between(new, i, k)
    BY <1>1, <1>2, <1>3, <2>2, <2>3 DEF Between
  <2>6. (j = i \/ j = i + 1) /\ cut <= k => Between(new, i + 1, k)
    <3>1. i + 1 \in 1 .. n + 1 /\ (i + 1 <= n => i < n) BY <1>1, <1>3
    <3> QED BY <1>2, <1>5, <2>2, <2>4, <3>1 DEF Between
  <2> QED BY <2>1, <2>5, <2>6
<1> QED BY <1>2, <1>7, <1>8, <1>11, <1>12 DEF n

\* The keys on the two sides of the m-th one ...
LEMMA KeysSplit ==
  ASSUME NEW keys \in Seq(Nat), Ascending(keys), NEW m \in 1 .. Len(keys),
         NEW low \in Seq(Nat), Len(low) = m - 1, \A j \in 1 .. m - 1 : low[j] = keys[j],
         NEW high \in Seq(Nat), Len(high) = Len(keys) - m,
         \A j \in 1 .. Len(keys) - m : high[j] = keys[m + j]
  PROVE  /\ Ascending(low) /\ Ascending(high)
         /\ \A k \in ToSet(low) : k \in ToSet(keys) /\ k <= keys[m]
         /\ \A k \in ToSet(high) : k \in ToSet(keys) /\ keys[m] <= k
         /\ \A k \in Nat, j \in 1 .. Len(keys) + 1 : InSlot(keys, j, k) =>
              /\ j <= m => k < keys[m] /\ InSlot(low, j, k)
              /\ j > m => keys[m] <= k /\ InSlot(high, j - m, k)
<1> DEFINE n == Len(keys)
<1>1. n \in Nat /\ DOMAIN keys = 1 .. n /\ m \in Nat /\ \A j \in 1 .. n : keys[j] \in Nat
  OBVIOUS
<1>2. low \in Seq(Nat) /\ Len(low) = m - 1 /\ \A j \in 1 .. m - 1 : low[j] = keys[j]
  OBVIOUS
<1>3. high \in Seq(Nat) /\ Len(high) = n - m /\ \A j \in 1 .. n - m : high[j] = keys[m + j]
  OBVIOUS
<1> HIDE DEF n
<1>4. DOMAIN low = 1 .. m - 1 /\ DOMAIN high = 1 .. n - m BY <1>2, <1>3
<1>5. m \in 1 .. n BY DEF n
<1>6. \A a, b \in 1 .. n : a <= b => keys[a] <= keys[b]
  <2> TAKE a, b \in 1 .. n
  <2>1. CASE a < b BY <1>1, <2>1 DEF Ascending
  <2>2. CASE a = b BY <1>1, <2>2
  <2> QED BY <2>1, <2>2
<1>7. Ascending(low) /\ Ascending(high)
  <2>1. ASSUME NEW a \in 1 .. m - 1, NEW b \in 1 .. m - 1, a < b PROVE low[a] <= low[b]
    <3>1. a \in 1 .. n /\ b \in 1 .. n /\ a <= b BY <1>1, <1>5, <2>1
    <3> QED BY <1>2, <1>6, <3>1
  <2>2. ASSUME NEW a \in 1 .. n - m, NEW b \in 1 .. n - m, a < b PROVE high[a] <= high[b]
    <3>1. m + a \in 1 .. n /\ m + b \in 1 .. n /\ m + a <= m + b BY <1>1, <1>5, <2>2
    <3> QED BY <1>3, <1>6, <3>1
  <2> QED BY <1>4, <2>1, <2>2 DEF Ascending
<1>8. ASSUME NEW k \in ToSet(low) PROVE k \in ToSet(keys) /\ k <= keys[m]
  <2>1. PICK j \in 1 .. m - 1 : k = low[j] BY <1>4, <1>8 DEF ToSet
  <2>2. j \in 1 .. n /\ j <= m BY <1>1, <1>5
  <2> QED BY <1>1, <1>2, <1>5, <1>6, <2>1, <2>2 DEF ToSet
<1>9. ASSUME NEW k \in ToSet(high) PROVE k \in ToSet(keys) /\ keys[m] <= k
  <2>1. PICK j \in 1 .. n - m : k = high[j] BY <1>4, <1>9 DEF ToSet
  <2>2. m + j \in 1 .. n /\ m <= m + j BY <1>1, <1>5
  <2> QED BY <1>1, <1>3, <1>5, <1>6, <2>1, <2>2 DEF ToSet
<1>10. ASSUME NEW k \in Nat, NEW j \in 1 .. n + 1, InSlot(keys, j, k)
       PROVE  /\ j <= m => k < keys[m] /\ InSlot(low, j, k)
              /\ j > m => keys[m] <= k /\ InSlot(high, j - m, k)
  <2>0. (j > 1 => keys[j - 1] <= k) /\ (j <= n => k < keys[j]) BY <1>10 DEF InSlot, n
  <2>1. ASSUME j <= m PROVE k < keys[m] /\ InSlot(low, j, k)
    <3>1. j \in 1 .. n /\ j \in 1 .. (m - 1) + 1 BY <1>1, <1>5, <2>1
    <3>2. k < keys[m] BY <1>1, <1>5, <1>6, <2>0, <2>1, <3>1
    <3>3. j > 1 => low[j - 1] <= k
      <4>1. j > 1 => j - 1 \in 1 .. m - 1 BY <1>1, <3>1
      <4> QED BY <1>2, <2>0, <4>1
    <3>4. j <= m - 1 => k < low[j] BY <1>1, <1>2, <2>0, <3>1
    <3> QED BY <1>2, <3>1, <3>2, <3>3, <3>4 DEF InSlot
  <2>2. ASSUME j > m PROVE keys[m] <= k /\ InSlot(high, j - m, k)
    <3>1. j - 1 \in 1 .. n /\ m <= j - 1 /\ j > 1 /\ j - m \in 1 .. (n - m) + 1 BY <1>1, <1>5, <2>2
    <3>2. keys[m] <= k
      <4>1. keys[m] <= keys[j - 1] /\ keys[j - 1] <= k BY <1>5, <1>6, <2>0, <3>1
      <4> QED BY <1>1, <1>5, <3>1, <4>1
    <3>3. j - m > 1 => high[(j - m) - 1] <= k
      <4>1. j - m > 1 => (j - m) - 1 \in 1 .. n - m /\ m + ((j - m) - 1) = j - 1 BY <1>1, <3>1
      <4> QED BY <1>3, <2>0, <3>1, <4>1
    <3>4. j - m <= n - m => k < high[j - m]
      <4>1. j - m <= n - m => j - m \in 1 .. n - m /\ m + (j - m) = j /\ j <= n BY <1>1, <3>1
      <4> QED BY <1>3, <2>0, <4>1
    <3> QED BY <1>3, <3>1, <3>2, <3>3, <3>4 DEF InSlot
  <2> QED BY <2>1, <2>2
<1> QED BY <1>7, <1>8, <1>9, <1>10 DEF n

\* ... and the keys of two nodes with a key between them.
LEMMA KeysBefore ==
  ASSUME NEW l \in Seq(Nat), NEW c \in Nat, NEW new \in Seq(Nat), Len(new) >= Len(l) + 1,
         \A j \in 1 .. Len(l) : new[j] = l[j], new[Len(l) + 1] = c
  PROVE  \A k \in Nat, j \in 1 .. Len(l) + 1 : InSlot(l, j, k) /\ k < c => InSlot(new, j, k)
<1> DEFINE a == Len(l)
<1>1. a \in Nat OBVIOUS
<1>2. /\ new \in Seq(Nat) /\ Len(new) >= a + 1 /\ Len(new) \in Nat
      /\ \A j \in 1 .. a : new[j] = l[j]
      /\ new[a + 1] = c
  OBVIOUS
<1> HIDE DEF a
<1>8. ASSUME NEW k \in Nat, NEW j \in 1 .. a + 1, InSlot(l, j, k), k < c
      PROVE  InSlot(new, j, k)
  <2>1. (j > 1 => l[j - 1] <= k) /\ (j <= a => k < l[j]) BY <1>8 DEF InSlot, a
  <2>2. j \in 1 .. Len(new) + 1 /\ (j > 1 => j - 1 \in 1 .. a) /\ (j <= a \/ j = a + 1) BY <1>1, <1>2
  <2>3. j > 1 => new[j - 1] <= k BY <1>2, <2>1, <2>2
  <2>4. k < new[j]
    <3>1. CASE j <= a
      <4>1. j \in 1 .. a BY <1>1, <3>1
      <4> QED BY <1>2, <2>1, <3>1, <4>1
    <3>2. CASE j = a + 1 BY <1>2, <1>8, <3>2
    <3> QED BY <2>2, <3>1, <3>2
  <2> QED BY <1>2, <2>2, <2>3, <2>4 DEF InSlot
<1> QED BY <1>8 DEF a

LEMMA KeysJoined ==
  ASSUME NEW l \in Seq(Nat), Ascending(l), NEW r \in Seq(Nat), Ascending(r), NEW c \in Nat,
         \A k \in ToSet(l) : k <= c, \A k \in ToSet(r) : c <= k,
         NEW new \in Seq(Nat), Len(new) = Len(l) + 1 + Len(r),
         \A j \in 1 .. Len(l) : new[j] = l[j],
         new[Len(l) + 1] = c,
         \A j \in 1 .. Len(r) : new[Len(l) + 1 + j] = r[j]
  PROVE  /\ Ascending(new)
         /\ \A k \in Nat, j \in 1 .. Len(r) + 1 :
              InSlot(r, j, k) /\ c <= k => InSlot(new, Len(l) + 1 + j, k)
<1> DEFINE a == Len(l)
           b == Len(r)
<1>1. /\ a \in Nat /\ DOMAIN l = 1 .. a /\ \A j \in 1 .. a : l[j] \in Nat /\ l[j] <= c
      /\ b \in Nat /\ DOMAIN r = 1 .. b /\ \A j \in 1 .. b : r[j] \in Nat /\ c <= r[j]
  <2>1. a \in Nat /\ DOMAIN l = 1 .. a /\ b \in Nat /\ DOMAIN r = 1 .. b OBVIOUS
  <2>2. \A j \in 1 .. a : l[j] \in Nat /\ l[j] \in ToSet(l) BY ONLY <2>1, l \in Seq(Nat) DEF ToSet
  <2>3. \A j \in 1 .. b : r[j] \in Nat /\ r[j] \in ToSet(r)
    <3>1. \A j \in 1 .. b : r[j] \in Nat BY ONLY <2>1, r \in Seq(Nat)
    <3>2. \A j \in DOMAIN r : r[j] \in ToSet(r) BY ONLY DEF ToSet
    <3> QED BY ONLY <2>1, <3>1, <3>2
  <2> QED BY <2>1, <2>2, <2>3
<1>2. /\ new \in Seq(Nat) /\ Len(new) = a + 1 + b
      /\ \A j \in 1 .. a : new[j] = l[j]
      /\ new[a + 1] = c
      /\ \A j \in 1 .. b : new[a + 1 + j] = r[j]
  OBVIOUS
<1> HIDE DEF a, b
<1>3. DOMAIN new = 1 .. a + 1 + b
  <2>1. DOMAIN new = 1 .. Len(new) BY <1>2
  <2> QED BY <1>2, <2>1
<1>4. \A i \in 1 .. a + 1 + b :
        \/ i \in 1 .. a \/ i = a + 1
        \/ i > a + 1 /\ i - (a + 1) \in 1 .. b /\ a + 1 + (i - (a + 1)) = i
  BY <1>1
<1>5. ASSUME NEW i \in 1 .. a + 1 + b, i > a + 1
      PROVE  i - (a + 1) \in 1 .. b /\ new[i] = r[i - (a + 1)]
  <2>1. i - (a + 1) \in 1 .. b /\ a + 1 + (i - (a + 1)) = i BY <1>1, <1>5
  <2> QED BY <1>2, <2>1
<1>6. Ascending(new)
  <2> SUFFICES ASSUME NEW i \in 1 .. a + 1 + b, NEW j \in 1 .. a + 1 + b, i < j
               PROVE  new[i] <= new[j]
    BY <1>3 DEF Ascending
  <2>1. CASE j \in 1 .. a
    <3>1. i \in 1 .. a BY <1>1, <2>1
    <3> QED BY <1>1, <1>2, <2>1, <3>1 DEF Ascending
  <2>2. CASE j = a + 1
    <3>1. i \in 1 .. a BY <1>1, <2>2
    <3> QED BY <1>1, <1>2, <2>2, <3>1
  <2>3. CASE j > a + 1 /\ i \in 1 .. a
    <3>1. new[j] = r[j - (a + 1)] /\ c <= r[j - (a + 1)] /\ r[j - (a + 1)] \in Nat BY <1>1, <1>5, <2>3
    <3>2. new[i] = l[i] /\ l[i] <= c /\ l[i] \in Nat BY <1>1, <1>2, <2>3
    <3>3. l[i] <= r[j - (a + 1)] BY <3>1, <3>2
    <3> QED BY <3>1, <3>2, <3>3
  <2>4. CASE j > a + 1 /\ i = a + 1 BY <1>1, <1>2, <1>5, <2>4
  <2>5. CASE j > a + 1 /\ i > a + 1
    <3>1. i - (a + 1) < j - (a + 1) BY <1>1
    <3>2. i - (a + 1) \in DOMAIN r /\ j - (a + 1) \in DOMAIN r BY <1>1, <1>5, <2>5
    <3>3. r[i - (a + 1)] <= r[j - (a + 1)] BY <3>1, <3>2 DEF Ascending
    <3> QED BY <1>5, <2>5, <3>3
  <2>6. (j \in 1 .. a \/ j = a + 1 \/ j > a + 1) /\ (i \in 1 .. a \/ i = a + 1 \/ i > a + 1) BY <1>1
  <2> QED BY <2>1, <2>2, <2>3, <2>4, <2>5, <2>6
<1>9. ASSUME NEW k \in Nat, NEW j \in 1 .. b + 1, InSlot(r, j, k), c <= k
      PROVE  InSlot(new, a + 1 + j, k)
  <2>1. (j > 1 => r[j - 1] <= k) /\ (j <= b => k < r[j]) BY <1>9 DEF InSlot, b
  <2>2. a + 1 + j \in 1 .. (a + 1 + b) + 1 /\ a + 1 + j > 1 BY <1>1
  <2>3. new[(a + 1 + j) - 1] <= k
    <3>1. CASE j = 1
      <4>1. (a + 1 + j) - 1 = a + 1 BY <1>1, <3>1
      <4> QED BY <1>2, <1>9, <4>1
    <3>2. CASE j > 1
      <4>1. (a + 1 + j) - 1 = a + 1 + (j - 1) /\ j - 1 \in 1 .. b BY <1>1, <3>2
      <4> QED BY <1>2, <2>1, <3>2, <4>1
    <3>3. j = 1 \/ j > 1 BY <1>1
    <3> QED BY <3>1, <3>2, <3>3
  <2>4. a + 1 + j <= a + 1 + b => k < new[a + 1 + j]
    <3> SUFFICES ASSUME a + 1 + j <= a + 1 + b PROVE k < new[a + 1 + j] OBVIOUS
    <3>1. j \in 1 .. b /\ j <= b BY <1>1
    <3>2. new[a + 1 + j] = r[j] BY <1>2, <3>1
    <3> QED BY <2>1, <3>1, <3>2
  <2> QED BY <1>2, <2>2, <2>3, <2>4 DEF InSlot
<1> QED BY <1>6, <1>9 DEF a, b

-----------------------------------------------------------------------------
(* A level of the tree, of whose children only the keys of their rows and   *)
(* the bounds in them are seen.                                             *)

Level(keys, rows, seps) ==
  /\ keys \in Seq(Nat) /\ Ascending(keys)
  /\ \A j \in 1 .. Len(keys) + 1 : \A k \in rows[j] : k \in Nat /\ InSlot(keys, j, k)
  /\ \A j \in 1 .. Len(keys) + 1 : \A k \in seps[j] : k \in Nat /\ Between(keys, j, k)

All(sets, n) == UNION {sets[j] : j \in 1 .. n}

\* The i-th child is replaced.
LEMMA LevelReplaced ==
  ASSUME NEW keys, NEW R, NEW S, Level(keys, R, S), NEW i \in 1 .. Len(keys) + 1, NEW R2, NEW S2,
         \A j \in 1 .. Len(keys) + 1 : j # i => R2[j] = R[j] /\ S2[j] = S[j],
         \A k \in R2[i] : k \in Nat /\ InSlot(keys, i, k),
         \A k \in S2[i] : k \in Nat /\ Between(keys, i, k)
  PROVE  Level(keys, R2, S2)
<1> DEFINE n == Len(keys) + 1
<1>1. keys \in Seq(Nat) /\ Ascending(keys) BY DEF Level
<1>2. \A j \in 1 .. n : \A k \in R[j] : k \in Nat /\ InSlot(keys, j, k) BY DEF Level
<1>3. \A j \in 1 .. n : \A k \in S[j] : k \in Nat /\ Between(keys, j, k) BY DEF Level
<1>4. \A j \in 1 .. n : \A k \in R2[j] : k \in Nat /\ InSlot(keys, j, k) BY <1>2
<1>5. \A j \in 1 .. n : \A k \in S2[j] : k \in Nat /\ Between(keys, j, k) BY <1>3
<1> QED BY <1>1, <1>4, <1>5 DEF Level

LEMMA AllReplaced ==
  ASSUME NEW keys, NEW R, NEW S, Level(keys, R, S), NEW i \in 1 .. Len(keys) + 1, NEW R2,
         \A j \in 1 .. Len(keys) + 1 : j # i => R2[j] = R[j]
  PROVE  All(R2, Len(keys) + 1) = (All(R, Len(keys) + 1) \ R[i]) \cup R2[i]
<1> DEFINE n == Len(keys) + 1
<1>1. keys \in Seq(Nat) /\ Ascending(keys) BY DEF Level
<1>2. \A j \in 1 .. n : \A k \in R[j] : k \in Nat /\ InSlot(keys, j, k) BY DEF Level
<1>7. \A j \in 1 .. n : \A k \in R[j] : j # i => k \notin R[i]
  <2> SUFFICES ASSUME NEW j \in 1 .. n, NEW k \in R[j], k \in R[i] PROVE j = i OBVIOUS
  <2>1. k \in Nat /\ InSlot(keys, j, k) /\ InSlot(keys, i, k) BY <1>2
  <2> QED BY <1>1, <2>1, SlotUnique
<1> HIDE DEF n
<1>8. i \in 1 .. n BY DEF n
<1>9. \A j \in 1 .. n : j # i => R2[j] = R[j] BY DEF n
<1>10. All(R2, n) = (All(R, n) \ R[i]) \cup R2[i]
  BY <1>7, <1>8, <1>9 DEF All
<1> QED BY <1>10 DEF n

\* The i-th child is parted at a cut, and gets some rows.
LEMMA LevelInserted ==
  ASSUME NEW keys, NEW R, NEW S, Level(keys, R, S), NEW i \in 1 .. Len(keys) + 1,
         NEW cut \in Nat, Between(keys, i, cut), NEW new, new = InsertAt(keys, i, cut),
         NEW R2, NEW S2,
         \A j \in 1 .. Len(keys) + 1 : j < i => R2[j] = R[j] /\ S2[j] = S[j],
         \A j \in 1 .. Len(keys) + 1 : j > i => R2[j + 1] = R[j] /\ S2[j + 1] = S[j],
         \A k \in R2[i] : k \in Nat /\ InSlot(keys, i, k) /\ k < cut,
         \A k \in S2[i] : k \in Nat /\ Between(keys, i, k) /\ k <= cut,
         \A k \in R2[i + 1] : k \in Nat /\ InSlot(keys, i, k) /\ cut <= k,
         \A k \in S2[i + 1] : k \in Nat /\ Between(keys, i, k) /\ cut <= k
  PROVE  Level(new, R2, S2)
<1> DEFINE n == Len(keys) + 1
<1>1. keys \in Seq(Nat) /\ Ascending(keys) /\ n \in Nat BY DEF Level
<1>2. \A j \in 1 .. n : \A k \in R[j] : k \in Nat /\ InSlot(keys, j, k) BY DEF Level
<1>3. \A j \in 1 .. n : \A k \in S[j] : k \in Nat /\ Between(keys, j, k) BY DEF Level
<1>4. new \in Seq(Nat) /\ Ascending(new) /\ Len(new) = Len(keys) + 1
  BY <1>1, KeyInserted
<1>5. \A k \in Nat, j \in 1 .. n : InSlot(keys, j, k) =>
        /\ j < i \/ (j = i /\ k < cut) => InSlot(new, j, k)
        /\ j > i \/ (j = i /\ cut <= k) => InSlot(new, j + 1, k)
  BY <1>1, KeyInserted
<1>6. \A k \in Nat, j \in 1 .. n : Between(keys, j, k) =>
        /\ j < i \/ (j = i /\ k <= cut) => Between(new, j, k)
        /\ j > i \/ (j = i /\ cut <= k) => Between(new, j + 1, k)
  BY <1>1, KeyInserted
<1>7. Len(new) + 1 = n + 1 /\ Len(keys) + 2 = n + 1 BY <1>1, <1>4
<1>8. \A j \in 1 .. n : j < i => R2[j] = R[j] /\ S2[j] = S[j] OBVIOUS
<1>9. \A j \in 1 .. n : j > i => R2[j + 1] = R[j] /\ S2[j + 1] = S[j] OBVIOUS
<1> HIDE DEF n
<1>10. i \in 1 .. n /\ i \in Nat BY <1>1 DEF n
<1>11. \A j \in 1 .. n + 1 :
         \/ j < i /\ j \in 1 .. n
         \/ j = i \/ j = i + 1
         \/ j > i + 1 /\ j - 1 \in 1 .. n /\ j - 1 > i /\ (j - 1) + 1 = j
  BY <1>1, <1>10
<1>12. ASSUME NEW j \in 1 .. n + 1
       PROVE  /\ \A k \in R2[j] : k \in Nat /\ InSlot(new, j, k)
              /\ \A k \in S2[j] : k \in Nat /\ Between(new, j, k)
  <2>1. CASE j < i /\ j \in 1 .. n BY <1>2, <1>3, <1>5, <1>6, <1>8, <2>1
  <2>2. CASE j = i BY <1>5, <1>6, <1>10, <2>2
  <2>3. CASE j = i + 1 BY <1>5, <1>6, <1>10, <2>3
  <2>4. CASE j > i + 1 /\ j - 1 \in 1 .. n /\ j - 1 > i /\ (j - 1) + 1 = j
    <3>1. R2[j] = R[j - 1] /\ S2[j] = S[j - 1] BY <1>9, <2>4
    <3> QED BY <1>2, <1>3, <1>5, <1>6, <2>4, <3>1
  <2> QED BY <1>11, <2>1, <2>2, <2>3, <2>4
<1> QED BY <1>4, <1>7, <1>12 DEF Level

LEMMA AllInserted ==
  ASSUME NEW n \in Nat, NEW i \in 1 .. n, NEW R, NEW R2, NEW D,
         \A j \in 1 .. n : j < i => R2[j] = R[j],
         \A j \in 1 .. n : j > i => R2[j + 1] = R[j],
         \A k : k \in R2[i] \/ k \in R2[i + 1] <=> k \in R[i] \/ k \in D
  PROVE  \A k : k \in All(R2, n + 1) <=> k \in All(R, n) \/ k \in D
<1>8. \A j \in 1 .. n : j < i => R2[j] = R[j] OBVIOUS
<1>9. \A j \in 1 .. n : j > i => R2[j + 1] = R[j] OBVIOUS
<1>10. i \in 1 .. n /\ i \in Nat OBVIOUS
<1>11. \A j \in 1 .. n + 1 :
         \/ j < i /\ j \in 1 .. n
         \/ j = i \/ j = i + 1
         \/ j > i + 1 /\ j - 1 \in 1 .. n /\ j - 1 > i /\ (j - 1) + 1 = j
  BY <1>10
<1>14. ASSUME NEW k \in All(R2, n + 1) PROVE k \in All(R, n) \cup D
  <2>1. PICK j \in 1 .. n + 1 : k \in R2[j] BY <1>14 DEF All
  <2>2. CASE j < i /\ j \in 1 .. n BY <1>8, <2>1, <2>2 DEF All
  <2>3. CASE j = i \/ j = i + 1 BY <1>10, <2>1, <2>3 DEF All
  <2>4. CASE j > i + 1 /\ j - 1 \in 1 .. n /\ j - 1 > i /\ (j - 1) + 1 = j
    <3>1. R2[j] = R[j - 1] BY <1>9, <2>4
    <3> QED BY <2>1, <2>4, <3>1 DEF All
  <2> QED BY <1>11, <2>2, <2>3, <2>4
<1>15. ASSUME NEW k \in All(R, n) \cup D PROVE k \in All(R2, n + 1)
  <2>0. i \in 1 .. n + 1 /\ i + 1 \in 1 .. n + 1 /\ \A j \in 1 .. n : j \in 1 .. n + 1 /\ j + 1 \in 1 .. n + 1
    BY <1>10
  <2>1. CASE k \in R[i] \cup D BY <2>0, <2>1 DEF All
  <2>2. ASSUME NEW j \in 1 .. n, k \in R[j], j # i PROVE k \in All(R2, n + 1)
    <3>1. j < i \/ j > i BY <1>10, <2>2
    <3>2. k \in R2[j] \/ k \in R2[j + 1] BY <1>8, <1>9, <2>2, <3>1
    <3> QED BY <2>0, <3>2 DEF All
  <2>3. k \in R[i] \cup D \/ \E j \in 1 .. n : k \in R[j] /\ j # i BY <1>15 DEF All
  <2> QED BY <2>1, <2>2, <2>3
<1> QED BY <1>14, <1>15

\* Rows move between two children, and the bound between them with them.
LEMMA LevelMoved ==
  ASSUME NEW keys, NEW R, NEW S, Level(keys, R, S), NEW i \in 1 .. Len(keys),
         NEW cut \in Nat, Between(keys, i, cut) \/ Between(keys, i + 1, cut),
         NEW new \in Seq(Nat), Len(new) = Len(keys), new[i] = cut,
         \A j \in 1 .. Len(keys) : j # i => new[j] = keys[j],
         NEW R2, NEW S2,
         \A j \in 1 .. Len(keys) + 1 : j # i /\ j # i + 1 => R2[j] = R[j] /\ S2[j] = S[j],
         \A k \in R2[i] : k < cut,
         \A k \in R2[i + 1] : cut <= k,
         \A k : k \in R2[i] \/ k \in R2[i + 1] <=> k \in R[i] \/ k \in R[i + 1],
         \A k \in S2[i] :
           k \in Nat /\ (Between(keys, i, k) \/ Between(keys, i + 1, k)) /\ k <= cut,
         \A k \in S2[i + 1] :
           k \in Nat /\ (Between(keys, i, k) \/ Between(keys, i + 1, k)) /\ cut <= k
  PROVE  Level(new, R2, S2)
<1> DEFINE n == Len(keys) + 1
<1>1. keys \in Seq(Nat) /\ Ascending(keys) /\ n \in Nat BY DEF Level
<1>2. \A j \in 1 .. n : \A k \in R[j] : k \in Nat /\ InSlot(keys, j, k) BY DEF Level
<1>3. \A j \in 1 .. n : \A k \in S[j] : k \in Nat /\ Between(keys, j, k) BY DEF Level
<1>4. Ascending(new)
  BY <1>1, KeyMoved
<1>5. \A k \in Nat, j \in 1 .. n : InSlot(keys, j, k) =>
        /\ j # i /\ j # i + 1 => InSlot(new, j, k)
        /\ (j = i \/ j = i + 1) /\ k < cut => InSlot(new, i, k)
        /\ (j = i \/ j = i + 1) /\ cut <= k => InSlot(new, i + 1, k)
  BY <1>1, KeyMoved
<1>6. \A k \in Nat, j \in 1 .. n : Between(keys, j, k) =>
        /\ j # i /\ j # i + 1 => Between(new, j, k)
        /\ (j = i \/ j = i + 1) /\ k <= cut => Between(new, i, k)
        /\ (j = i \/ j = i + 1) /\ cut <= k => Between(new, i + 1, k)
  BY <1>1, KeyMoved, SMTT(30)
<1>7. \A j \in 1 .. n : j # i /\ j # i + 1 => R2[j] = R[j] /\ S2[j] = S[j] OBVIOUS
<1>8. i \in 1 .. n /\ i + 1 \in 1 .. n BY <1>1
<1>9. Len(new) + 1 = n OBVIOUS
<1> HIDE DEF n
<1>10. ASSUME NEW j \in 1 .. n
       PROVE  /\ \A k \in R2[j] : k \in Nat /\ InSlot(new, j, k)
              /\ \A k \in S2[j] : k \in Nat /\ Between(new, j, k)
  <2>1. CASE j # i /\ j # i + 1 BY <1>2, <1>3, <1>5, <1>6, <1>7, <2>1
  <2>2. CASE j = i
    <3>1. \A k \in R2[i] : k \in R[i] \/ k \in R[i + 1] OBVIOUS
    <3>2. \A k \in R2[i] : k \in Nat /\ (InSlot(keys, i, k) \/ InSlot(keys, i + 1, k)) /\ k < cut
      BY <1>2, <1>8, <3>1
    <3>3. \A k \in R2[i] : InSlot(new, i, k) BY <1>5, <1>8, <3>2
    <3>4. \A k \in S2[i] : k \in Nat /\ Between(new, i, k) BY <1>6, <1>8
    <3> QED BY <2>2, <3>2, <3>3, <3>4
  <2>3. CASE j = i + 1
    <3>1. \A k \in R2[i + 1] : k \in R[i] \/ k \in R[i + 1] OBVIOUS
    <3>2. \A k \in R2[i + 1] : k \in Nat /\ (InSlot(keys, i, k) \/ InSlot(keys, i + 1, k)) /\ cut <= k
      BY <1>2, <1>8, <3>1
    <3>3. \A k \in R2[i + 1] : InSlot(new, i + 1, k) BY <1>5, <1>8, <3>2
    <3>4. \A k \in S2[i + 1] : k \in Nat /\ Between(new, i + 1, k) BY <1>6, <1>8
    <3> QED BY <2>3, <3>2, <3>3, <3>4
  <2> QED BY <2>1, <2>2, <2>3
<1> QED BY <1>4, <1>9, <1>10 DEF Level

LEMMA AllMoved ==
  ASSUME NEW n \in Nat, NEW i \in 1 .. n - 1, NEW R, NEW R2,
         \A j \in 1 .. n : j # i /\ j # i + 1 => R2[j] = R[j],
         \A k : k \in R2[i] \/ k \in R2[i + 1] <=> k \in R[i] \/ k \in R[i + 1]
  PROVE  All(R2, n) = All(R, n)
<1>7. \A j \in 1 .. n : j # i /\ j # i + 1 => R2[j] = R[j] OBVIOUS
<1>8. i \in 1 .. n /\ i + 1 \in 1 .. n OBVIOUS
<1>12. ASSUME NEW A, NEW B,
              \A k : k \in A[i] \/ k \in A[i + 1] <=> k \in B[i] \/ k \in B[i + 1],
              \A j \in 1 .. n : j # i /\ j # i + 1 => A[j] = B[j],
              NEW k \in All(A, n)
       PROVE  k \in All(B, n)
  <2>1. PICK j \in 1 .. n : k \in A[j] BY <1>12 DEF All
  <2>2. CASE j # i /\ j # i + 1 BY <1>12, <2>1, <2>2 DEF All
  <2>3. CASE j = i \/ j = i + 1 BY <1>8, <1>12, <2>1, <2>3 DEF All
  <2> QED BY <2>2, <2>3
<1>13. \A k \in All(R2, n) : k \in All(R, n) BY <1>7, <1>12
<1>14. \A k \in All(R, n) : k \in All(R2, n) BY <1>7, <1>12
<1> QED BY <1>13, <1>14

\* A child is joined with the next one.
LEMMA LevelMerged ==
  ASSUME NEW keys, NEW R, NEW S, Level(keys, R, S), NEW i \in 1 .. Len(keys),
         NEW new, new = RemoveAt(keys, i),
         NEW R2, NEW S2,
         \A j \in 1 .. Len(keys) + 1 : j < i => R2[j] = R[j] /\ S2[j] = S[j],
         \A j \in 1 .. Len(keys) : j > i => R2[j] = R[j + 1] /\ S2[j] = S[j + 1],
         R2[i] = R[i] \cup R[i + 1],
         \A k \in S2[i] : k \in Nat /\ (Between(keys, i, k) \/ Between(keys, i + 1, k))
  PROVE  Level(new, R2, S2)
<1> DEFINE n == Len(keys)
<1>1. keys \in Seq(Nat) /\ Ascending(keys) /\ n \in Nat BY DEF Level
<1>2. \A j \in 1 .. n + 1 : \A k \in R[j] : k \in Nat /\ InSlot(keys, j, k) BY DEF Level
<1>3. \A j \in 1 .. n + 1 : \A k \in S[j] : k \in Nat /\ Between(keys, j, k) BY DEF Level
<1>4. new \in Seq(Nat) /\ Ascending(new) /\ Len(new) = Len(keys) - 1
  BY <1>1, KeyRemoved
<1>5. \A k \in Nat, j \in 1 .. n + 1 : InSlot(keys, j, k) =>
        (j <= i => InSlot(new, j, k)) /\ (j > i => InSlot(new, j - 1, k))
  BY <1>1, KeyRemoved
<1>6. \A k \in Nat, j \in 1 .. n + 1 : Between(keys, j, k) =>
        (j <= i => Between(new, j, k)) /\ (j > i => Between(new, j - 1, k))
  BY <1>1, KeyRemoved
<1>7. \A j \in 1 .. n + 1 : j < i => R2[j] = R[j] /\ S2[j] = S[j] OBVIOUS
<1>8. \A j \in 1 .. n : j > i => R2[j] = R[j + 1] /\ S2[j] = S[j + 1] OBVIOUS
<1>9. i \in 1 .. n /\ i \in Nat /\ Len(new) + 1 = n BY <1>1, <1>4
<1> HIDE DEF n
<1>10. /\ i \in 1 .. n + 1 /\ i + 1 \in 1 .. n + 1 /\ i <= i /\ i + 1 > i /\ (i + 1) - 1 = i
       /\ \A j \in 1 .. n : /\ j \in 1 .. n + 1 /\ j + 1 \in 1 .. n + 1 /\ (j + 1) - 1 = j
                            /\ j > i => j + 1 > i
                            /\ j < i \/ j = i \/ j > i
  BY <1>1, <1>9
<1>11. ASSUME NEW j \in 1 .. n
       PROVE  /\ \A k \in R2[j] : k \in Nat /\ InSlot(new, j, k)
              /\ \A k \in S2[j] : k \in Nat /\ Between(new, j, k)
  <2>1. CASE j < i
    <3>1. R2[j] = R[j] /\ S2[j] = S[j] /\ j <= i BY <1>7, <1>9, <1>10, <2>1
    <3> QED BY <1>2, <1>3, <1>5, <1>6, <1>10, <3>1
  <2>2. CASE j = i
    <3>1. \A k \in R2[i] : k \in R[i] \/ k \in R[i + 1] OBVIOUS
    <3>2. \A k \in R2[i] : k \in Nat /\ (InSlot(keys, i, k) \/ InSlot(keys, i + 1, k))
      BY <1>2, <1>10, <3>1
    <3>3. \A k \in R2[i] : InSlot(new, i, k) BY <1>5, <1>10, <3>2
    <3>4. \A k \in S2[i] : k \in Nat /\ Between(new, i, k) BY <1>6, <1>10
    <3> QED BY <2>2, <3>2, <3>3, <3>4
  <2>3. CASE j > i
    <3>1. R2[j] = R[j + 1] /\ S2[j] = S[j + 1] /\ j + 1 > i BY <1>8, <1>10, <2>3
    <3>2. \A k \in R2[j] : k \in Nat /\ InSlot(new, (j + 1) - 1, k) BY <1>2, <1>5, <1>10, <3>1
    <3>3. \A k \in S2[j] : k \in Nat /\ Between(new, (j + 1) - 1, k) BY <1>3, <1>6, <1>10, <3>1
    <3> QED BY <1>10, <3>2, <3>3
  <2> QED BY <1>10, <2>1, <2>2, <2>3
<1> QED BY <1>4, <1>9, <1>11 DEF Level

LEMMA AllMerged ==
  ASSUME NEW n \in Nat, NEW i \in 1 .. n, NEW R, NEW R2,
         \A j \in 1 .. n + 1 : j < i => R2[j] = R[j],
         \A j \in 1 .. n : j > i => R2[j] = R[j + 1],
         R2[i] = R[i] \cup R[i + 1]
  PROVE  All(R2, n) = All(R, n + 1)
<1>7. \A j \in 1 .. n + 1 : j < i => R2[j] = R[j] OBVIOUS
<1>8. \A j \in 1 .. n : j > i => R2[j] = R[j + 1] OBVIOUS
<1>9. i \in 1 .. n /\ i \in Nat OBVIOUS
<1>10. /\ i \in 1 .. n + 1 /\ i + 1 \in 1 .. n + 1
       /\ \A j \in 1 .. n : /\ j \in 1 .. n + 1 /\ j + 1 \in 1 .. n + 1
                            /\ j < i \/ j = i \/ j > i
  BY <1>9
<1>13. ASSUME NEW k \in All(R2, n) PROVE k \in All(R, n + 1)
  <2>1. PICK j \in 1 .. n : k \in R2[j] BY <1>13 DEF All
  <2>2. CASE j < i BY <1>7, <1>10, <2>1, <2>2 DEF All
  <2>3. CASE j = i BY <1>10, <2>1, <2>3 DEF All
  <2>4. CASE j > i BY <1>8, <1>10, <2>1, <2>4 DEF All
  <2> QED BY <1>10, <2>2, <2>3, <2>4
<1>14. ASSUME NEW k \in All(R, n + 1) PROVE k \in All(R2, n)
  <2>1. PICK j \in 1 .. n + 1 : k \in R[j] BY <1>14 DEF All
  <2>2. CASE j < i
    <3>1. j \in 1 .. n BY <1>9, <2>2
    <3> QED BY <1>7, <2>1, <2>2, <3>1 DEF All
  <2>3. CASE j = i \/ j = i + 1 BY <1>9, <2>1, <2>3 DEF All
  <2>4. CASE j > i + 1
    <3>1. j - 1 \in 1 .. n /\ j - 1 > i /\ (j - 1) + 1 = j BY <1>9, <2>4
    <3>2. R2[j - 1] = R[j] BY <1>8, <3>1
    <3> QED BY <2>1, <3>1, <3>2 DEF All
  <2>5. j < i \/ j = i \/ j = i + 1 \/ j > i + 1 BY <1>9
  <2> QED BY <2>2, <2>3, <2>4, <2>5
<1> QED BY <1>13, <1>14

-----------------------------------------------------------------------------
(* Inner nodes.                                                             *)

\* A leaf fits into its array of rows.
Leaves == {l \in [rows : SUBSET Keys, order : Orders] :
             IsFiniteSet(l.rows) /\ Cardinality(l.rows) <= MaxRows}
Nodes == [keys : Seq(Nat), kids : Seq(Leaves)]

NoSeps == [j \in Nat |-> {}]
LeafRows(n) == [j \in 1 .. Len(n.keys) + 1 |-> n.kids[j].rows]
RowsOf(n) == All(LeafRows(n), Len(n.keys) + 1)

\* A search in the node finds each of its rows.
NodeGood(n) ==
  /\ n \in Nodes /\ Len(n.kids) = Len(n.keys) + 1
  /\ Level(n.keys, LeafRows(n), NoSeps)

LEMMA NodeFacts ==
  ASSUME NEW n, NodeGood(n)
  PROVE  /\ n.keys \in Seq(Nat) /\ n.kids \in Seq(Leaves) /\ Ascending(n.keys)
         /\ Len(n.keys) \in Nat /\ Len(n.kids) = Len(n.keys) + 1
         /\ \A j \in 1 .. Len(n.keys) + 1 :
              /\ n.kids[j] \in Leaves /\ n.kids[j].rows \subseteq Keys
              /\ \A k \in n.kids[j].rows : k \in Nat /\ InSlot(n.keys, j, k)
         /\ RowsOf(n) \subseteq Keys
         /\ \A k : k \in RowsOf(n) <=> \E j \in 1 .. Len(n.keys) + 1 : k \in n.kids[j].rows
<1>1. n.keys \in Seq(Nat) /\ n.kids \in Seq(Leaves) BY DEF NodeGood, Nodes
<1>2. Ascending(n.keys) /\ Len(n.kids) = Len(n.keys) + 1 BY DEF NodeGood, Level
<1>3. Len(n.keys) \in Nat BY <1>1
<1>4. \A j \in 1 .. Len(n.keys) + 1 : n.kids[j] \in Leaves BY <1>1, <1>2, <1>3
<1>5. \A j \in 1 .. Len(n.keys) + 1 : n.kids[j].rows \subseteq Keys BY <1>4 DEF Leaves
<1>6. \A j \in 1 .. Len(n.keys) + 1 : LeafRows(n)[j] = n.kids[j].rows BY DEF LeafRows
<1>7. \A j \in 1 .. Len(n.keys) + 1 : \A k \in n.kids[j].rows : k \in Nat /\ InSlot(n.keys, j, k)
  BY <1>6 DEF NodeGood, Level
<1>8. \A k : k \in RowsOf(n) <=> \E j \in 1 .. Len(n.keys) + 1 : k \in n.kids[j].rows
  BY <1>6 DEF RowsOf, All
<1>9. RowsOf(n) \subseteq Keys BY <1>5, <1>8
<1> QED BY <1>1, <1>2, <1>3, <1>4, <1>5, <1>7, <1>8, <1>9

LEMMA NodeReplaced ==
  ASSUME NEW n, NodeGood(n), NEW j \in 1 .. Len(n.keys) + 1,
         NEW m \in Nodes, m.keys = n.keys, Len(m.kids) = Len(n.kids),
         \A i \in 1 .. Len(n.keys) + 1 : i # j => m.kids[i].rows = n.kids[i].rows,
         \A k \in m.kids[j].rows : InSlot(n.keys, j, k)
  PROVE  /\ NodeGood(m)
         /\ RowsOf(m) = (RowsOf(n) \ n.kids[j].rows) \cup m.kids[j].rows
<1> DEFINE keys == n.keys
           R == LeafRows(n)
           R2 == LeafRows(m)
<1>1. keys \in Seq(Nat) /\ Level(keys, R, NoSeps) /\ Len(n.kids) = Len(keys) + 1 /\ Len(keys) \in Nat
  BY NodeFacts DEF NodeGood
<1>2. \A i \in 1 .. Len(keys) + 1 : R[i] = n.kids[i].rows /\ R2[i] = m.kids[i].rows BY DEF LeafRows
<1>3. m.kids[j] \in Leaves BY <1>1 DEF Nodes
<1>4. \A k \in m.kids[j].rows : k \in Nat BY <1>3 DEF Leaves
<1>5. \A i \in Nat : NoSeps[i] = {} BY DEF NoSeps
<1>6. m.keys = keys /\ j \in 1 .. Len(keys) + 1 /\ j \in Nat OBVIOUS
<1>7. \A i \in 1 .. Len(keys) + 1 : i # j => R2[i] = R[i] BY <1>2
<1>8. \A k \in R2[j] : k \in Nat /\ InSlot(keys, j, k) BY <1>2, <1>4, <1>6
<1>9. \A k \in NoSeps[j] : k \in Nat /\ Between(keys, j, k) BY <1>5, <1>6
<1>10. RowsOf(n) = All(R, Len(keys) + 1) /\ RowsOf(m) = All(R2, Len(keys) + 1) BY DEF RowsOf
<1>11. R[j] = n.kids[j].rows /\ R2[j] = m.kids[j].rows BY <1>2, <1>6
<1>12. Len(m.kids) = Len(keys) + 1 BY <1>1
<1> HIDE DEF keys, R, R2
<1>13. Level(keys, R2, NoSeps) BY <1>1, <1>6, <1>7, <1>8, <1>9, LevelReplaced
<1>14. All(R2, Len(keys) + 1) = (All(R, Len(keys) + 1) \ R[j]) \cup R2[j]
  BY <1>1, <1>6, <1>7, AllReplaced
<1> QED BY <1>6, <1>10, <1>11, <1>12, <1>13, <1>14 DEF NodeGood, R2

LEMMA NodeInserted ==
  ASSUME NEW n, NodeGood(n), NEW j \in 1 .. Len(n.keys) + 1,
         NEW cut \in Nat, Between(n.keys, j, cut),
         NEW m \in Nodes, m.keys = InsertAt(n.keys, j, cut), Len(m.kids) = Len(n.kids) + 1,
         \A i \in 1 .. Len(n.keys) + 1 : i < j => m.kids[i].rows = n.kids[i].rows,
         \A i \in 1 .. Len(n.keys) + 1 : i > j => m.kids[i + 1].rows = n.kids[i].rows,
         \A k \in m.kids[j].rows : InSlot(n.keys, j, k) /\ k < cut,
         \A k \in m.kids[j + 1].rows : InSlot(n.keys, j, k) /\ cut <= k,
         NEW D, m.kids[j].rows \cup m.kids[j + 1].rows = n.kids[j].rows \cup D
  PROVE  NodeGood(m) /\ RowsOf(m) = RowsOf(n) \cup D
<1> DEFINE keys == n.keys
           R == LeafRows(n)
           R2 == LeafRows(m)
           new == m.keys
<1>1. keys \in Seq(Nat) /\ Ascending(keys) /\ Level(keys, R, NoSeps) /\ Len(n.kids) = Len(keys) + 1
      /\ Len(keys) \in Nat
  BY NodeFacts DEF NodeGood
<1>2. Len(new) = Len(keys) + 1 BY <1>1, KeyInserted
<1>3. Len(m.kids) = Len(keys) + 2 /\ Len(new) + 1 = Len(keys) + 2 BY <1>1, <1>2
<1>4. \A i \in 1 .. Len(keys) + 1 : R[i] = n.kids[i].rows BY DEF LeafRows
<1>5. \A i \in 1 .. Len(keys) + 2 : R2[i] = m.kids[i].rows BY <1>3 DEF LeafRows
<1>6. \A i \in 1 .. Len(keys) + 2 : m.kids[i] \in Leaves BY <1>3 DEF Nodes
<1>7. \A i \in 1 .. Len(keys) + 2 : \A k \in m.kids[i].rows : k \in Nat BY <1>6 DEF Leaves
<1>8. /\ j \in 1 .. Len(keys) + 1 /\ j \in 1 .. Len(keys) + 2 /\ j + 1 \in 1 .. Len(keys) + 2
      /\ j \in Nat /\ j + 1 \in Nat
      /\ \A i \in 1 .. Len(keys) + 1 : i \in Nat /\ i + 1 \in Nat
           /\ i \in 1 .. Len(keys) + 2 /\ i + 1 \in 1 .. Len(keys) + 2
  BY <1>1
<1>9. \A i \in Nat : NoSeps[i] = {} BY DEF NoSeps
<1>10. \A i \in 1 .. Len(keys) + 1 : i < j => R2[i] = R[i] /\ NoSeps[i] = NoSeps[i]
  BY <1>4, <1>5, <1>8
<1>11. \A i \in 1 .. Len(keys) + 1 : i > j => R2[i + 1] = R[i] /\ NoSeps[i + 1] = NoSeps[i]
  BY <1>4, <1>5, <1>8, <1>9
<1>12. \A k \in R2[j] : k \in Nat /\ InSlot(keys, j, k) /\ k < cut BY <1>5, <1>7, <1>8
<1>13. \A k \in R2[j + 1] : k \in Nat /\ InSlot(keys, j, k) /\ cut <= k BY <1>5, <1>7, <1>8
<1>14. \A k \in NoSeps[j] : k \in Nat /\ Between(keys, j, k) /\ k <= cut BY <1>8, <1>9
<1>15. \A k \in NoSeps[j + 1] : k \in Nat /\ Between(keys, j, k) /\ cut <= k BY <1>8, <1>9
<1>16. \A k : k \in R2[j] \/ k \in R2[j + 1] <=> k \in R[j] \/ k \in D BY <1>4, <1>5, <1>8
<1>17. RowsOf(n) = All(R, Len(keys) + 1) /\ RowsOf(m) = All(R2, Len(keys) + 2)
  BY <1>3 DEF RowsOf
<1>18. new = InsertAt(keys, j, cut) /\ Between(keys, j, cut) OBVIOUS
<1> HIDE DEF keys, R, R2, new
<1>19. Level(new, R2, NoSeps)
  BY ONLY <1>1, <1>8, <1>10, <1>11, <1>12, <1>13, <1>14, <1>15, <1>18, LevelInserted
<1>20. All(R2, Len(keys) + 2) = All(R, Len(keys) + 1) \cup D
  <2> DEFINE c == Len(keys) + 1
  <2>1. c \in Nat /\ c + 1 = Len(keys) + 2 BY <1>1
  <2>2. /\ \A i \in 1 .. c : i < j => R2[i] = R[i]
        /\ \A i \in 1 .. c : i > j => R2[i + 1] = R[i]
        /\ j \in 1 .. c
    BY <1>8, <1>10, <1>11
  <2> HIDE DEF c
  <2>3. \A k : k \in All(R2, c + 1) <=> k \in All(R, c) \/ k \in D
    BY ONLY <1>16, <2>1, <2>2, AllInserted
  <2> QED BY <2>1, <2>3 DEF c
<1> QED BY <1>3, <1>17, <1>19, <1>20 DEF NodeGood, R2, new

LEMMA NodeMoved ==
  ASSUME NEW n, NodeGood(n), NEW j \in 1 .. Len(n.keys),
         NEW cut \in Nat, Between(n.keys, j, cut) \/ Between(n.keys, j + 1, cut),
         NEW m \in Nodes, Len(m.keys) = Len(n.keys), Len(m.kids) = Len(n.kids),
         m.keys[j] = cut, \A i \in 1 .. Len(n.keys) : i # j => m.keys[i] = n.keys[i],
         \A i \in 1 .. Len(n.keys) + 1 : i # j /\ i # j + 1 => m.kids[i].rows = n.kids[i].rows,
         \A k \in m.kids[j].rows : k < cut,
         \A k \in m.kids[j + 1].rows : cut <= k,
         m.kids[j].rows \cup m.kids[j + 1].rows = n.kids[j].rows \cup n.kids[j + 1].rows
  PROVE  NodeGood(m) /\ RowsOf(m) = RowsOf(n)
<1> DEFINE keys == n.keys
           R == LeafRows(n)
           R2 == LeafRows(m)
           new == m.keys
<1>1. keys \in Seq(Nat) /\ Level(keys, R, NoSeps) /\ Len(n.kids) = Len(keys) + 1
      /\ Len(keys) \in Nat
  BY NodeFacts DEF NodeGood
<1>2. new \in Seq(Nat) /\ Len(new) = Len(keys) /\ new[j] = cut
      /\ \A i \in 1 .. Len(keys) : i # j => new[i] = keys[i]
  BY DEF Nodes
<1>3. Len(m.kids) = Len(new) + 1 BY <1>1, <1>2
<1>4. \A i \in 1 .. Len(keys) + 1 : R[i] = n.kids[i].rows /\ R2[i] = m.kids[i].rows
  BY <1>2 DEF LeafRows
<1>5. /\ j \in 1 .. Len(keys) /\ j \in 1 .. Len(keys) + 1 /\ j + 1 \in 1 .. Len(keys) + 1
      /\ j \in Nat /\ j + 1 \in Nat
  BY <1>1
<1>6. \A i \in Nat : NoSeps[i] = {} BY DEF NoSeps
<1>7. \A i \in 1 .. Len(keys) + 1 : i # j /\ i # j + 1 => R2[i] = R[i] /\ NoSeps[i] = NoSeps[i]
  BY <1>4
<1>8. (\A k \in R2[j] : k < cut) /\ (\A k \in R2[j + 1] : cut <= k) BY <1>4, <1>5
<1>9. \A k : k \in R2[j] \/ k \in R2[j + 1] <=> k \in R[j] \/ k \in R[j + 1] BY <1>4, <1>5
<1>10. NoSeps[j] = {} /\ NoSeps[j + 1] = {} BY <1>5, <1>6
<1>11. /\ \A k \in NoSeps[j] :
            k \in Nat /\ (Between(keys, j, k) \/ Between(keys, j + 1, k)) /\ k <= cut
       /\ \A k \in NoSeps[j + 1] :
            k \in Nat /\ (Between(keys, j, k) \/ Between(keys, j + 1, k)) /\ cut <= k
  BY <1>10
<1>12. RowsOf(n) = All(R, Len(keys) + 1) /\ RowsOf(m) = All(R2, Len(keys) + 1)
  BY <1>2 DEF RowsOf
<1>13. Between(keys, j, cut) \/ Between(keys, j + 1, cut) OBVIOUS
<1> HIDE DEF keys, R, R2, new
<1>14. Level(new, R2, NoSeps)
  BY <1>1, <1>2, <1>5, <1>7, <1>8, <1>9, <1>11, <1>13, LevelMoved
<1>15. All(R2, Len(keys) + 1) = All(R, Len(keys) + 1)
  <2> DEFINE c == Len(keys) + 1
  <2>1. c \in Nat /\ j \in 1 .. c - 1 BY <1>1, <1>5
  <2>2. \A i \in 1 .. c : i # j /\ i # j + 1 => R2[i] = R[i] BY <1>7
  <2> HIDE DEF c
  <2>3. All(R2, c) = All(R, c) BY <1>9, <2>1, <2>2, AllMoved
  <2> QED BY <2>3 DEF c
<1> QED BY <1>3, <1>12, <1>14, <1>15 DEF NodeGood, R2, new

LEMMA NodeMerged ==
  ASSUME NEW n, NodeGood(n), NEW j \in 1 .. Len(n.keys),
         NEW m \in Nodes, m.keys = RemoveAt(n.keys, j), Len(m.kids) = Len(n.kids) - 1,
         \A i \in 1 .. Len(n.keys) + 1 : i < j => m.kids[i].rows = n.kids[i].rows,
         \A i \in 1 .. Len(n.keys) : i > j => m.kids[i].rows = n.kids[i + 1].rows,
         m.kids[j].rows = n.kids[j].rows \cup n.kids[j + 1].rows
  PROVE  NodeGood(m) /\ RowsOf(m) = RowsOf(n)
<1> DEFINE keys == n.keys
           R == LeafRows(n)
           R2 == LeafRows(m)
           new == m.keys
<1>1. keys \in Seq(Nat) /\ Ascending(keys) /\ Level(keys, R, NoSeps) /\ Len(n.kids) = Len(keys) + 1
      /\ Len(keys) \in Nat
  BY NodeFacts DEF NodeGood
<1>2. Len(new) = Len(keys) - 1 BY <1>1, KeyRemoved
<1>3. Len(m.kids) = Len(keys) /\ Len(new) + 1 = Len(keys) BY <1>1, <1>2
<1>4. \A i \in 1 .. Len(keys) + 1 : R[i] = n.kids[i].rows BY DEF LeafRows
<1>5. \A i \in 1 .. Len(keys) : R2[i] = m.kids[i].rows BY <1>3 DEF LeafRows
<1>6. /\ j \in 1 .. Len(keys) /\ j \in 1 .. Len(keys) + 1 /\ j + 1 \in 1 .. Len(keys) + 1
      /\ \A i \in 1 .. Len(keys) : i \in Nat /\ i + 1 \in Nat /\ i + 1 \in 1 .. Len(keys) + 1
      /\ \A i \in 1 .. Len(keys) + 1 : i < j => i \in 1 .. Len(keys)
      /\ j \in Nat
  BY <1>1
<1>7. \A i \in Nat : NoSeps[i] = {} BY DEF NoSeps
<1>8. \A i \in 1 .. Len(keys) + 1 : i < j => R2[i] = R[i] /\ NoSeps[i] = NoSeps[i]
  BY <1>4, <1>5, <1>6
<1>9. \A i \in 1 .. Len(keys) : i > j => R2[i] = R[i + 1] /\ NoSeps[i] = NoSeps[i + 1]
  BY <1>4, <1>5, <1>6, <1>7
<1>10. R2[j] = R[j] \cup R[j + 1] BY <1>4, <1>5, <1>6
<1>11. \A k \in NoSeps[j] : k \in Nat /\ (Between(keys, j, k) \/ Between(keys, j + 1, k))
  BY <1>6, <1>7
<1>12. RowsOf(n) = All(R, Len(keys) + 1) /\ RowsOf(m) = All(R2, Len(keys))
  BY <1>3 DEF RowsOf
<1>13. new = RemoveAt(keys, j) OBVIOUS
<1> HIDE DEF keys, R, R2, new
<1>14. Level(new, R2, NoSeps)
  BY <1>1, <1>6, <1>8, <1>9, <1>10, <1>11, <1>13, LevelMerged
<1>15. All(R2, Len(keys)) = All(R, Len(keys) + 1)
  <2> DEFINE c == Len(keys)
  <2>1. c \in Nat /\ j \in 1 .. c BY <1>1, <1>6
  <2>2. /\ \A i \in 1 .. c + 1 : i < j => R2[i] = R[i]
        /\ \A i \in 1 .. c : i > j => R2[i] = R[i + 1]
    BY <1>8, <1>9
  <2> HIDE DEF c
  <2>3. All(R2, c) = All(R, c + 1) BY <1>10, <2>1, <2>2, AllMerged
  <2> QED BY <2>3 DEF c
<1> QED BY <1>3, <1>12, <1>14, <1>15 DEF NodeGood, R2, new

\* What makes a node good.
LEMMA NodeIntro ==
  ASSUME NEW x \in Nodes, Ascending(x.keys), Len(x.kids) = Len(x.keys) + 1,
         \A j \in 1 .. Len(x.keys) + 1 : \A k \in x.kids[j].rows : k \in Nat /\ InSlot(x.keys, j, k)
  PROVE  NodeGood(x)
<1>1. x.keys \in Seq(Nat) BY DEF Nodes
<1>2. \A j \in 1 .. Len(x.keys) + 1 : LeafRows(x)[j] = x.kids[j].rows /\ NoSeps[j] = {}
  <2>1. \A j \in 1 .. Len(x.keys) + 1 : j \in Nat BY <1>1
  <2> QED BY <2>1 DEF LeafRows, NoSeps
<1> QED BY <1>1, <1>2 DEF NodeGood, Level

\* A node parts at its c-th key ...
Parts(n, c, l, h) ==
  /\ l = [keys |-> SubSeq(n.keys, 1, c - 1), kids |-> SubSeq(n.kids, 1, c)]
  /\ h = [keys |-> SubSeq(n.keys, c + 1, Len(n.keys)), kids |-> SubSeq(n.kids, c + 1, Len(n.kids))]

LEMMA NodeSplit ==
  ASSUME NEW n, NodeGood(n), NEW c \in 1 .. Len(n.keys),
         NEW l, NEW h, Parts(n, c, l, h)
  PROVE  /\ NodeGood(l) /\ NodeGood(h)
         /\ Len(l.keys) = c - 1 /\ Len(h.keys) = Len(n.keys) - c
         /\ \A j \in 1 .. c - 1 : l.keys[j] = n.keys[j]
         /\ \A j \in 1 .. Len(n.keys) - c : h.keys[j] = n.keys[c + j]
         /\ \A j \in 1 .. c : l.kids[j] = n.kids[j]
         /\ \A j \in 1 .. Len(n.keys) - c + 1 : h.kids[j] = n.kids[c + j]
         /\ \A k \in ToSet(l.keys) : k \in ToSet(n.keys) /\ k <= n.keys[c]
         /\ \A k \in ToSet(h.keys) : k \in ToSet(n.keys) /\ n.keys[c] <= k
         /\ \A k \in RowsOf(l) : k < n.keys[c]
         /\ \A k \in RowsOf(h) : n.keys[c] <= k
         /\ RowsOf(n) = RowsOf(l) \cup RowsOf(h)
<1> DEFINE keys == n.keys
           kids == n.kids
           e == Len(n.keys)
           low == l.keys
           high == h.keys
<1>1. keys \in Seq(Nat) /\ kids \in Seq(Leaves) /\ Ascending(keys) /\ e \in Nat /\ Len(kids) = e + 1
  BY NodeFacts
<1>2. \A j \in 1 .. e + 1 : \A k \in kids[j].rows : k \in Nat /\ InSlot(keys, j, k)
  BY NodeFacts
<1>3. c \in 1 .. e /\ c \in Nat /\ Len(keys) = e BY <1>1
<1>4. low = SubSeq(keys, 1, c - 1) /\ high = SubSeq(keys, c + 1, Len(keys)) BY DEF Parts
<1>5. l.kids = SubSeq(kids, 1, c) /\ h.kids = SubSeq(kids, c + 1, e + 1) BY <1>1 DEF Parts
<1>6. l = [keys |-> low, kids |-> l.kids] /\ h = [keys |-> high, kids |-> h.kids] BY DEF Parts
<1> HIDE DEF keys, kids, e, low, high
<1>a. /\ SubSeq(keys, 1, c - 1) \in Seq(Nat) /\ Len(SubSeq(keys, 1, c - 1)) = c - 1
      /\ \A j \in 1 .. c - 1 : SubSeq(keys, 1, c - 1)[j] = keys[j]
  <2>1. c - 1 \in 1 - 1 .. Len(keys) /\ 1 \in 1 .. Len(keys) + 1 /\ (c - 1) - 1 + 1 = c - 1
    BY <1>1, <1>3
  <2>2. \A j \in 1 .. c - 1 : 1 + j - 1 = j BY <1>3
  <2> QED BY ONLY <1>1, <1>3, <2>1, <2>2
<1>b. /\ SubSeq(keys, c + 1, Len(keys)) \in Seq(Nat) /\ Len(SubSeq(keys, c + 1, Len(keys))) = Len(keys) - c
      /\ \A j \in 1 .. Len(keys) - c : SubSeq(keys, c + 1, Len(keys))[j] = keys[c + j]
  <2>1. Len(keys) \in (c + 1) - 1 .. Len(keys) /\ c + 1 \in 1 .. Len(keys) + 1 BY <1>1, <1>3
  <2>2. \A j \in 1 .. Len(keys) - c : (c + 1) + j - 1 = c + j BY <1>1, <1>3
  <2> QED BY ONLY <1>1, <1>3, <2>1, <2>2
<1>c. /\ low \in Seq(Nat) /\ Len(low) = c - 1 /\ \A j \in 1 .. c - 1 : low[j] = keys[j]
      /\ high \in Seq(Nat) /\ Len(high) = e - c /\ \A j \in 1 .. e - c : high[j] = keys[c + j]
  BY ONLY <1>3, <1>4, <1>a, <1>b
<1>7. /\ Ascending(low) /\ Ascending(high)
      /\ \A k \in ToSet(low) : k \in ToSet(keys) /\ k <= keys[c]
      /\ \A k \in ToSet(high) : k \in ToSet(keys) /\ keys[c] <= k
  BY ONLY <1>1, <1>3, <1>c, KeysSplit
<1>8. \A k \in Nat, j \in 1 .. e + 1 : InSlot(keys, j, k) =>
        /\ j <= c => k < keys[c] /\ InSlot(low, j, k)
        /\ j > c => keys[c] <= k /\ InSlot(high, j - c, k)
  BY ONLY <1>1, <1>3, <1>c, KeysSplit
<1>9. /\ SubSeq(kids, 1, c) \in Seq(Leaves) /\ Len(SubSeq(kids, 1, c)) = c
      /\ \A j \in 1 .. c : SubSeq(kids, 1, c)[j] = kids[j]
  <2>1. 1 \in 1 .. Len(kids) + 1 /\ c \in 1 - 1 .. Len(kids) /\ c - 1 + 1 = c BY <1>1, <1>3
  <2>2. \A j \in 1 .. c : 1 + j - 1 = j BY <1>3
  <2>3. /\ SubSeq(kids, 1, c) \in Seq(Leaves) /\ Len(SubSeq(kids, 1, c)) = c - 1 + 1
        /\ \A j \in 1 .. c - 1 + 1 : SubSeq(kids, 1, c)[j] = kids[1 + j - 1]
    BY ONLY <1>1, <2>1, SubSeqPoints
  <2> QED BY ONLY <2>1, <2>2, <2>3
<1>10. /\ SubSeq(kids, c + 1, e + 1) \in Seq(Leaves) /\ Len(SubSeq(kids, c + 1, e + 1)) = e - c + 1
       /\ \A j \in 1 .. e - c + 1 : SubSeq(kids, c + 1, e + 1)[j] = kids[c + j]
  <2>1. /\ c + 1 \in 1 .. Len(kids) + 1 /\ e + 1 \in (c + 1) - 1 .. Len(kids)
        /\ (e + 1) - (c + 1) + 1 = e - c + 1
    BY <1>1, <1>3
  <2>2. \A j \in 1 .. e - c + 1 : (c + 1) + j - 1 = c + j BY <1>1, <1>3
  <2>3. /\ SubSeq(kids, c + 1, e + 1) \in Seq(Leaves)
        /\ Len(SubSeq(kids, c + 1, e + 1)) = (e + 1) - (c + 1) + 1
        /\ \A j \in 1 .. (e + 1) - (c + 1) + 1 :
             SubSeq(kids, c + 1, e + 1)[j] = kids[(c + 1) + j - 1]
    BY ONLY <1>1, <2>1, SubSeqPoints
  <2> QED BY ONLY <2>1, <2>2, <2>3
<1>11. /\ l.kids \in Seq(Leaves) /\ Len(l.kids) = c /\ \A j \in 1 .. c : l.kids[j] = kids[j]
       /\ h.kids \in Seq(Leaves) /\ Len(h.kids) = e - c + 1
       /\ \A j \in 1 .. e - c + 1 : h.kids[j] = kids[c + j]
  BY ONLY <1>5, <1>9, <1>10
<1>12. /\ Len(low) + 1 = c /\ Len(high) + 1 = e - c + 1
       /\ \A j \in 1 .. c : j \in 1 .. e + 1 /\ j <= c
       /\ \A j \in 1 .. e - c + 1 : c + j \in 1 .. e + 1 /\ c + j > c /\ (c + j) - c = j
  BY ONLY <1>1, <1>3, <1>c
<1>13. \A j \in 1 .. c : \A k \in l.kids[j].rows : k \in Nat /\ k < keys[c] /\ InSlot(low, j, k)
  BY ONLY <1>2, <1>8, <1>11, <1>12
<1>14. \A j \in 1 .. e - c + 1 : \A k \in h.kids[j].rows :
         k \in Nat /\ keys[c] <= k /\ InSlot(high, j, k)
  <2> TAKE j \in 1 .. e - c + 1
  <2> TAKE k \in h.kids[j].rows
  <2>1. k \in kids[c + j].rows BY <1>11
  <2>2. k \in Nat /\ InSlot(keys, c + j, k) BY ONLY <1>2, <1>12, <2>1
  <2>3. keys[c] <= k /\ InSlot(high, (c + j) - c, k) BY ONLY <1>8, <1>12, <2>2
  <2> QED BY ONLY <1>12, <2>2, <2>3
<1>16. l \in Nodes /\ h \in Nodes BY ONLY <1>6, <1>c, <1>11 DEF Nodes
<1>17. NodeGood(l)
  <2>1. l.keys = low BY DEF low
  <2> QED BY ONLY <1>7, <1>11, <1>12, <1>13, <1>16, <2>1, NodeIntro
<1>18. NodeGood(h)
  <2>1. h.keys = high BY DEF high
  <2> QED BY ONLY <1>7, <1>11, <1>12, <1>14, <1>16, <2>1, NodeIntro
<1>19. \A k : k \in RowsOf(l) <=> \E j \in 1 .. c : k \in l.kids[j].rows
  <2>1. Len(l.keys) + 1 = c BY <1>12 DEF low
  <2>2. \A k : k \in RowsOf(l) <=> \E j \in 1 .. Len(l.keys) + 1 : k \in l.kids[j].rows
    BY <1>17, NodeFacts
  <2> QED BY ONLY <2>1, <2>2
<1>20. \A k : k \in RowsOf(h) <=> \E j \in 1 .. e - c + 1 : k \in h.kids[j].rows
  <2>1. Len(h.keys) + 1 = e - c + 1 BY <1>12 DEF high
  <2>2. \A k : k \in RowsOf(h) <=> \E j \in 1 .. Len(h.keys) + 1 : k \in h.kids[j].rows
    BY <1>18, NodeFacts
  <2> QED BY ONLY <2>1, <2>2
<1>21. \A k : k \in RowsOf(n) <=> \E j \in 1 .. e + 1 : k \in kids[j].rows
  BY NodeFacts DEF e, kids
<1>22. \A k \in RowsOf(l) : k < keys[c] /\ k \in RowsOf(n)
  BY ONLY <1>11, <1>12, <1>13, <1>19, <1>21
<1>23. \A k \in RowsOf(h) : keys[c] <= k /\ k \in RowsOf(n)
  BY ONLY <1>11, <1>12, <1>14, <1>20, <1>21
<1>24. ASSUME NEW k \in RowsOf(n) PROVE k \in RowsOf(l) \/ k \in RowsOf(h)
  <2>1. PICK j \in 1 .. e + 1 : k \in kids[j].rows BY <1>21
  <2>2. CASE j <= c
    <3>1. j \in 1 .. c BY <1>1, <1>3, <2>2
    <3> QED BY ONLY <1>11, <1>19, <2>1, <3>1
  <2>3. CASE j > c
    <3>1. j - c \in 1 .. e - c + 1 /\ c + (j - c) = j BY <1>1, <1>3, <2>3
    <3>2. h.kids[j - c] = kids[j] BY ONLY <1>11, <3>1
    <3> QED BY ONLY <1>20, <2>1, <3>1, <3>2
  <2>4. j <= c \/ j > c BY <1>3
  <2> QED BY <2>2, <2>3, <2>4
<1>25. RowsOf(n) = RowsOf(l) \cup RowsOf(h) BY ONLY <1>22, <1>23, <1>24
<1> QED BY <1>7, <1>c, <1>11, <1>17, <1>18, <1>22, <1>23, <1>25 DEF keys, kids, e, low, high

\* ... and two nodes join with a key between them.
Apart(l, r, c) ==
  /\ NodeGood(l) /\ NodeGood(r) /\ c \in Nat
  /\ \A k \in ToSet(l.keys) : k <= c
  /\ \A k \in ToSet(r.keys) : c <= k
  /\ \A k \in RowsOf(l) : k < c
  /\ \A k \in RowsOf(r) : c <= k

Joined(l, r, c, m) == m = [keys |-> l.keys \o <<c>> \o r.keys, kids |-> l.kids \o r.kids]

Chained(l, r, c, new) ==
  /\ Len(new) = Len(l) + 1 + Len(r)
  /\ \A j \in 1 .. Len(l) : new[j] = l[j]
  /\ new[Len(l) + 1] = c
  /\ \A j \in 1 .. Len(r) : new[Len(l) + 1 + j] = r[j]

LEMMA NodeJoined ==
  ASSUME NEW l, NEW r, NEW c, Apart(l, r, c), NEW m, Joined(l, r, c, m)
  PROVE  /\ NodeGood(m) /\ RowsOf(m) = RowsOf(l) \cup RowsOf(r)
         /\ Chained(l.keys, r.keys, c, m.keys)
         /\ \A k \in ToSet(m.keys) : k \in ToSet(l.keys) \/ k = c \/ k \in ToSet(r.keys)
<1> DEFINE lk == l.keys
           rk == r.keys
           lc == l.kids
           rc == r.kids
           a == Len(l.keys)
           b == Len(r.keys)
           new == m.keys
           kids == m.kids
<1>0. NodeGood(l) /\ NodeGood(r) /\ c \in Nat BY DEF Apart
<1>1. lk \in Seq(Nat) /\ Ascending(lk) /\ lc \in Seq(Leaves) /\ a \in Nat /\ Len(lc) = a + 1 /\ Len(lk) = a
  BY <1>0, NodeFacts
<1>2. rk \in Seq(Nat) /\ Ascending(rk) /\ rc \in Seq(Leaves) /\ b \in Nat /\ Len(rc) = b + 1 /\ Len(rk) = b
  BY <1>0, NodeFacts
<1>3. \A j \in 1 .. a + 1 : \A k \in lc[j].rows : k \in Nat /\ InSlot(lk, j, k) /\ k \in RowsOf(l)
  BY <1>0, NodeFacts
<1>4. \A j \in 1 .. b + 1 : \A k \in rc[j].rows : k \in Nat /\ InSlot(rk, j, k) /\ k \in RowsOf(r)
  BY <1>0, NodeFacts
<1>5. /\ \A k \in ToSet(lk) : k <= c
      /\ \A k \in ToSet(rk) : c <= k
      /\ \A k \in RowsOf(l) : k < c
      /\ \A k \in RowsOf(r) : c <= k
  BY DEF Apart
<1>6. new = lk \o <<c>> \o rk /\ kids = lc \o rc BY DEF Joined
<1>7. m = [keys |-> new, kids |-> kids] BY DEF Joined
<1>8. \A k : k \in RowsOf(l) <=> \E j \in 1 .. a + 1 : k \in lc[j].rows BY <1>0, NodeFacts
<1>9. \A k : k \in RowsOf(r) <=> \E j \in 1 .. b + 1 : k \in rc[j].rows BY <1>0, NodeFacts
<1> HIDE DEF lk, rk, lc, rc, a, b, new, kids
<1>10. /\ new \in Seq(Nat) /\ Len(new) = a + 1 + b
       /\ \A j \in 1 .. a : new[j] = lk[j]
       /\ new[a + 1] = c
       /\ \A j \in 1 .. b : new[a + 1 + j] = rk[j]
  <2> DEFINE h == lk \o <<c>>
  <2>1. /\ h \in Seq(Nat) /\ Len(h) = a + 1 /\ h[a + 1] = c
        /\ \A j \in 1 .. a : h[j] = lk[j]
    BY <1>0, <1>1
  <2> HIDE DEF h
  <2>2. new = h \o rk BY <1>6 DEF h
  <2>3. Len(rk) = b BY <1>2
  <2>4. new \in Seq(Nat) /\ Len(new) = a + 1 + b
    <3>1. h \o rk \in Seq(Nat) /\ Len(h \o rk) = Len(h) + Len(rk) BY <1>2, <2>1, ConcatKeys
    <3>2. Len(new) = (a + 1) + b BY <2>1, <2>2, <2>3, <3>1
    <3> QED BY <1>1, <2>2, <3>1, <3>2
  <2>5. ASSUME NEW j \in 1 .. a + 1 PROVE new[j] = h[j]
    <3>1. j \in 1 .. Len(h) BY <2>1
    <3> QED BY <2>1, <2>2, <3>1
  <2>6. ASSUME NEW j \in 1 .. b PROVE new[a + 1 + j] = rk[j]
    <3>1. a + 1 + j \in Len(h) + 1 .. Len(h) + Len(rk) /\ (a + 1 + j) - Len(h) = j BY <1>1, <1>2, <2>1, <2>3
    <3> QED BY <2>1, <2>2, <3>1
  <2>7. a + 1 \in 1 .. a + 1 /\ \A j \in 1 .. a : j \in 1 .. a + 1 BY <1>1
  <2> QED BY <2>1, <2>4, <2>5, <2>6, <2>7
<1>a. Ascending(new)
  BY ONLY <1>1, <1>2, <1>5, <1>10, KeysJoined, <1>0
<1>b. ASSUME NEW k \in ToSet(new) PROVE k \in ToSet(lk) \/ k = c \/ k \in ToSet(rk)
  <2>1. DOMAIN new = 1 .. Len(new) /\ DOMAIN lk = 1 .. a /\ DOMAIN rk = 1 .. b
    BY ONLY <1>1, <1>2, <1>10
  <2>2. PICK i \in 1 .. a + 1 + b : k = new[i] BY <1>10, <1>b, <2>1 DEF ToSet
  <2>3. CASE i \in 1 .. a BY ONLY <1>10, <2>1, <2>2, <2>3 DEF ToSet
  <2>4. CASE i = a + 1 BY <1>10, <2>2, <2>4
  <2>5. CASE i - (a + 1) \in 1 .. b /\ a + 1 + (i - (a + 1)) = i
    <3>1. new[i] = rk[i - (a + 1)] BY <1>10, <2>5
    <3> QED BY ONLY <2>1, <2>2, <2>5, <3>1 DEF ToSet
  <2>6. i \in 1 .. a \/ i = a + 1 \/ (i - (a + 1) \in 1 .. b /\ a + 1 + (i - (a + 1)) = i)
    BY ONLY <1>1, <1>2, <2>2
  <2> QED BY <2>3, <2>4, <2>5, <2>6
<1>11. /\ \A k \in Nat, j \in 1 .. a + 1 : InSlot(lk, j, k) /\ k < c => InSlot(new, j, k)
       /\ \A k \in Nat, j \in 1 .. b + 1 : InSlot(rk, j, k) /\ c <= k => InSlot(new, a + 1 + j, k)
  <2>1. /\ new \in Seq(Nat) /\ Len(new) = Len(lk) + 1 + Len(rk)
        /\ \A j \in 1 .. Len(lk) : new[j] = lk[j]
        /\ new[Len(lk) + 1] = c
        /\ \A j \in 1 .. Len(rk) : new[Len(lk) + 1 + j] = rk[j]
    BY ONLY <1>1, <1>2, <1>10
  <2>2. \A k \in Nat, j \in 1 .. Len(lk) + 1 : InSlot(lk, j, k) /\ k < c => InSlot(new, j, k)
    <3>1. Len(new) >= Len(lk) + 1 BY ONLY <1>1, <1>2, <2>1
    <3> QED BY ONLY <1>1, <2>1, <3>1, KeysBefore, <1>0
  <2>3. \A k \in Nat, j \in 1 .. Len(rk) + 1 :
          InSlot(rk, j, k) /\ c <= k => InSlot(new, Len(lk) + 1 + j, k)
    BY ONLY <1>1, <1>2, <1>5, <2>1, KeysJoined, <1>0
  <2> QED BY ONLY <1>1, <1>2, <2>2, <2>3
<1>12. /\ kids \in Seq(Leaves) /\ Len(kids) = (a + 1) + (b + 1)
       /\ \A j \in 1 .. a + 1 : kids[j] = lc[j]
       /\ \A j \in 1 .. b + 1 : kids[a + 1 + j] = rc[j]
  <2>1. /\ lc \o rc \in Seq(Leaves) /\ Len(lc \o rc) = Len(lc) + Len(rc)
        /\ \A j \in 1 .. Len(lc) + Len(rc) :
             (lc \o rc)[j] = IF j <= Len(lc) THEN lc[j] ELSE rc[j - Len(lc)]
    BY ONLY <1>1, <1>2, ConcatPoints
  <2>2. ASSUME NEW j \in 1 .. a + 1 PROVE kids[j] = lc[j]
    <3>1. j \in 1 .. Len(lc) + Len(rc) /\ j <= Len(lc) BY ONLY <1>1, <1>2, j \in 1 .. a + 1
    <3> QED BY ONLY <1>6, <2>1, <3>1
  <2>3. ASSUME NEW j \in 1 .. b + 1 PROVE kids[a + 1 + j] = rc[j]
    <3>1. /\ a + 1 + j \in 1 .. Len(lc) + Len(rc) /\ ~ (a + 1 + j <= Len(lc))
          /\ (a + 1 + j) - Len(lc) = j
      BY ONLY <1>1, <1>2, j \in 1 .. b + 1
    <3> QED BY ONLY <1>6, <2>1, <3>1
  <2> QED BY ONLY <1>1, <1>2, <1>6, <2>1, <2>2, <2>3
<1>13. Len(new) + 1 = (a + 1) + (b + 1) BY ONLY <1>1, <1>2, <1>10
<1>14. \A j \in 1 .. (a + 1) + (b + 1) :
         \/ j \in 1 .. a + 1
         \/ j - (a + 1) \in 1 .. b + 1 /\ a + 1 + (j - (a + 1)) = j
  BY ONLY <1>1, <1>2
<1>15. \A j \in 1 .. a + 1 : \A k \in kids[j].rows : k \in Nat /\ InSlot(new, j, k) /\ k \in RowsOf(l)
  BY ONLY <1>3, <1>5, <1>11, <1>12
<1>16. \A j \in 1 .. b + 1 : \A k \in kids[a + 1 + j].rows :
         k \in Nat /\ InSlot(new, a + 1 + j, k) /\ k \in RowsOf(r)
  BY ONLY <1>4, <1>5, <1>11, <1>12
<1>17. ASSUME NEW j \in 1 .. Len(new) + 1, NEW k \in kids[j].rows
       PROVE  k \in Nat /\ InSlot(new, j, k) /\ k \in RowsOf(l) \cup RowsOf(r)
  <2>1. CASE j \in 1 .. a + 1 BY <1>15, <1>17, <2>1
  <2>2. CASE j - (a + 1) \in 1 .. b + 1 /\ a + 1 + (j - (a + 1)) = j
    <3> DEFINE i == j - (a + 1)
    <3>1. i \in 1 .. b + 1 /\ a + 1 + i = j BY <2>2
    <3> HIDE DEF i
    <3>2. k \in kids[a + 1 + i].rows BY <3>1
    <3>3. k \in Nat /\ InSlot(new, a + 1 + i, k) /\ k \in RowsOf(r) BY ONLY <1>16, <3>1, <3>2
    <3> QED BY ONLY <3>1, <3>3
  <2>3. j \in 1 .. (a + 1) + (b + 1) BY <1>13
  <2> QED BY <1>14, <2>1, <2>2, <2>3
<1>18. m \in Nodes BY ONLY <1>7, <1>10, <1>12 DEF Nodes
<1>19. m.keys = new /\ m.kids = kids BY DEF new, kids
<1>20. Len(kids) = Len(new) + 1 BY ONLY <1>12, <1>13
<1>21. NodeGood(m) BY ONLY <1>a, <1>17, <1>18, <1>19, <1>20, NodeIntro
<1>22. \A k : k \in RowsOf(m) <=> \E j \in 1 .. Len(new) + 1 : k \in kids[j].rows
  BY <1>19, <1>21, NodeFacts
<1>23. \A k \in RowsOf(m) : k \in RowsOf(l) \cup RowsOf(r) BY ONLY <1>17, <1>22
<1>24. \A k \in RowsOf(l) : k \in RowsOf(m)
  <2>1. \A j \in 1 .. a + 1 : j \in 1 .. Len(new) + 1 BY ONLY <1>1, <1>2, <1>13
  <2> QED BY ONLY <1>8, <1>12, <1>22, <2>1
<1>25. \A k \in RowsOf(r) : k \in RowsOf(m)
  <2>1. \A j \in 1 .. b + 1 : a + 1 + j \in 1 .. Len(new) + 1 BY ONLY <1>1, <1>2, <1>13
  <2> QED BY ONLY <1>9, <1>12, <1>22, <2>1
<1>26. RowsOf(m) = RowsOf(l) \cup RowsOf(r) BY ONLY <1>23, <1>24, <1>25
<1>27. Chained(lk, rk, c, new) BY ONLY <1>1, <1>2, <1>10 DEF Chained
<1> QED BY ONLY <1>b, <1>21, <1>26, <1>27 DEF lk, rk, new

-----------------------------------------------------------------------------
(* The tree.                                                                *)

Trees == [keys : Seq(Nat), kids : Seq(Nodes)]

SubRows(t) == [i \in 1 .. Len(t.keys) + 1 |-> RowsOf(t.kids[i])]
SubKeys(t) == [i \in 1 .. Len(t.keys) + 1 |-> ToSet(t.kids[i].keys)]

\* A search from the root finds each row, and no node outgrows its array.
TreeGood(t) ==
  /\ t \in Trees /\ Len(t.kids) = Len(t.keys) + 1
  /\ \A i \in 1 .. Len(t.keys) + 1 : NodeGood(t.kids[i]) /\ Len(t.kids[i].keys) <= MaxKeys
  /\ Level(t.keys, SubRows(t), SubKeys(t))

LEMMA TreeFacts ==
  ASSUME NEW t, TreeGood(t)
  PROVE  /\ t.keys \in Seq(Nat) /\ t.kids \in Seq(Nodes) /\ Ascending(t.keys)
         /\ Len(t.keys) \in Nat /\ Len(t.kids) = Len(t.keys) + 1
         /\ Level(t.keys, SubRows(t), SubKeys(t))
         /\ \A i \in 1 .. Len(t.keys) + 1 :
              /\ NodeGood(t.kids[i]) /\ Len(t.kids[i].keys) <= MaxKeys
              /\ SubRows(t)[i] = RowsOf(t.kids[i]) /\ SubKeys(t)[i] = ToSet(t.kids[i].keys)
              /\ \A k \in RowsOf(t.kids[i]) : k \in Nat /\ InSlot(t.keys, i, k)
              /\ \A k \in ToSet(t.kids[i].keys) : k \in Nat /\ Between(t.keys, i, k)
<1>1. t.keys \in Seq(Nat) /\ t.kids \in Seq(Nodes) BY DEF TreeGood, Trees
<1>2. Ascending(t.keys) /\ Len(t.kids) = Len(t.keys) + 1 BY DEF TreeGood, Level
<1>3. Len(t.keys) \in Nat BY <1>1
<1>4. \A i \in 1 .. Len(t.keys) + 1 :
        SubRows(t)[i] = RowsOf(t.kids[i]) /\ SubKeys(t)[i] = ToSet(t.kids[i].keys)
  BY DEF SubRows, SubKeys
<1>5. \A i \in 1 .. Len(t.keys) + 1 : \A k \in RowsOf(t.kids[i]) : k \in Nat /\ InSlot(t.keys, i, k)
  BY <1>4 DEF TreeGood, Level
<1>6. \A i \in 1 .. Len(t.keys) + 1 :
        \A k \in ToSet(t.kids[i].keys) : k \in Nat /\ Between(t.keys, i, k)
  BY <1>4 DEF TreeGood, Level
<1>7. Level(t.keys, SubRows(t), SubKeys(t))
      /\ \A i \in 1 .. Len(t.keys) + 1 : NodeGood(t.kids[i]) /\ Len(t.kids[i].keys) <= MaxKeys
  BY DEF TreeGood
<1> QED BY <1>1, <1>2, <1>3, <1>4, <1>5, <1>6, <1>7

LEMMA ContentsRows ==
  ASSUME NEW t, TreeGood(t)
  PROVE  /\ Contents(t) = All(SubRows(t), Len(t.keys) + 1)
         /\ \A k : k \in Contents(t)
              <=> \E i \in 1 .. Len(t.keys) + 1 : k \in RowsOf(t.kids[i])
         /\ Contents(t) \subseteq Keys
<1>1. DOMAIN t.kids = 1 .. Len(t.keys) + 1 BY TreeFacts
<1>2. \A i \in 1 .. Len(t.keys) + 1 : NodeGood(t.kids[i]) BY TreeFacts
<1>3. ASSUME NEW i \in 1 .. Len(t.keys) + 1
      PROVE  /\ DOMAIN t.kids[i].kids = 1 .. Len(t.kids[i].keys) + 1
             /\ \A k : k \in RowsOf(t.kids[i])
                  <=> \E j \in 1 .. Len(t.kids[i].keys) + 1 : k \in t.kids[i].kids[j].rows
             /\ RowsOf(t.kids[i]) \subseteq Keys
  <2>1. PICK n : n = t.kids[i] OBVIOUS
  <2>2. NodeGood(n) BY <1>2, <2>1
  <2>3. DOMAIN n.kids = 1 .. Len(n.keys) + 1 BY <2>2, NodeFacts
  <2>4. RowsOf(n) \subseteq Keys /\ \A k : k \in RowsOf(n)
                  <=> \E j \in 1 .. Len(n.keys) + 1 : k \in n.kids[j].rows
    BY <2>2, NodeFacts
  <2> QED BY ONLY <2>1, <2>3, <2>4
<1>4. ASSUME NEW k \in Contents(t) PROVE \E i \in 1 .. Len(t.keys) + 1 : k \in RowsOf(t.kids[i])
  <2>1. PICK x \in Positions(t) : k \in t.kids[x[1]].kids[x[2]].rows BY <1>4 DEF Contents
  <2>2. PICK i \in DOMAIN t.kids : x \in {i} \X DOMAIN t.kids[i].kids BY <2>1 DEF Positions
  <2>3. x[1] = i /\ x[2] \in DOMAIN t.kids[i].kids BY <2>2
  <2>4. PICK j : j = x[2] OBVIOUS
  <2>5. i \in 1 .. Len(t.keys) + 1 /\ j \in DOMAIN t.kids[i].kids /\ k \in t.kids[i].kids[j].rows
    BY ONLY <1>1, <2>1, <2>2, <2>3, <2>4
  <2>6. k \in RowsOf(t.kids[i]) BY ONLY <1>3, <2>5
  <2> QED BY <2>5, <2>6
<1>5. ASSUME NEW i \in 1 .. Len(t.keys) + 1, NEW k \in RowsOf(t.kids[i]) PROVE k \in Contents(t)
  <2>1. PICK j \in 1 .. Len(t.kids[i].keys) + 1 : k \in t.kids[i].kids[j].rows BY <1>3
  <2>2. <<i, j>> \in Positions(t) BY <1>1, <1>3, <2>1 DEF Positions
  <2>3. k \in t.kids[<<i, j>>[1]].kids[<<i, j>>[2]].rows BY <2>1
  <2> QED BY <2>2, <2>3 DEF Contents
<1>6. \A k : k \in Contents(t) <=> \E i \in 1 .. Len(t.keys) + 1 : k \in RowsOf(t.kids[i])
  BY ONLY <1>4, <1>5
<1>7. \A i \in 1 .. Len(t.keys) + 1 : SubRows(t)[i] = RowsOf(t.kids[i]) BY TreeFacts
<1>8. \A k : k \in All(SubRows(t), Len(t.keys) + 1)
              <=> \E i \in 1 .. Len(t.keys) + 1 : k \in RowsOf(t.kids[i])
  BY ONLY <1>7 DEF All
<1>9. Contents(t) = All(SubRows(t), Len(t.keys) + 1) BY ONLY <1>6, <1>8
<1>10. Contents(t) \subseteq Keys BY ONLY <1>3, <1>6
<1> QED BY <1>6, <1>9, <1>10

LEMMA KeysAreNat == \A s \in Seq(Nat) : \A k \in ToSet(s) : k \in Nat
BY DEF ToSet

\* What may be done to the nodes of a tree.
LEMMA TreeReplaced ==
  ASSUME NEW t, TreeGood(t), NEW i \in 1 .. Len(t.keys) + 1,
         NEW u \in Trees, u.keys = t.keys, Len(u.kids) = Len(t.kids),
         \A j \in 1 .. Len(t.keys) + 1 : j # i => u.kids[j] = t.kids[j],
         NodeGood(u.kids[i]), Len(u.kids[i].keys) <= MaxKeys,
         \A k \in RowsOf(u.kids[i]) : InSlot(t.keys, i, k),
         \A k \in ToSet(u.kids[i].keys) : Between(t.keys, i, k)
  PROVE  /\ TreeGood(u)
         /\ Contents(u) = (Contents(t) \ RowsOf(t.kids[i])) \cup RowsOf(u.kids[i])
<1> DEFINE keys == t.keys
           R == SubRows(t)
           S == SubKeys(t)
           R2 == SubRows(u)
           S2 == SubKeys(u)
           n == Len(t.keys) + 1
<1>1. keys \in Seq(Nat) /\ Level(keys, R, S) /\ Len(t.kids) = n /\ n = Len(keys) + 1 BY TreeFacts
<1>2. \A j \in 1 .. n : NodeGood(t.kids[j]) /\ Len(t.kids[j].keys) <= MaxKeys BY TreeFacts
<1>3. \A j \in 1 .. n : /\ R[j] = RowsOf(t.kids[j]) /\ S[j] = ToSet(t.kids[j].keys)
                        /\ R2[j] = RowsOf(u.kids[j]) /\ S2[j] = ToSet(u.kids[j].keys)
  BY DEF SubRows, SubKeys
<1>4. i \in 1 .. n /\ u.keys = keys /\ Len(u.kids) = n BY <1>1
<1>5. \A j \in 1 .. n : NodeGood(u.kids[j]) /\ Len(u.kids[j].keys) <= MaxKeys
  <2> TAKE j \in 1 .. n
  <2>1. CASE j = i BY <2>1
  <2>2. CASE j # i
    <3>1. u.kids[j] = t.kids[j] BY <2>2
    <3> QED BY <1>2, <3>1
  <2> QED BY <2>1, <2>2
<1>6. \A k \in RowsOf(u.kids[i]) : k \in Nat /\ InSlot(keys, i, k)
  <2>1. RowsOf(u.kids[i]) \subseteq Keys BY NodeFacts
  <2> QED BY <2>1
<1>7. \A k \in ToSet(u.kids[i].keys) : k \in Nat /\ Between(keys, i, k)
  <2>1. u.kids[i].keys \in Seq(Nat) BY NodeFacts
  <2>2. \A k \in ToSet(u.kids[i].keys) : k \in Nat BY <2>1 DEF ToSet
  <2> QED BY <2>2
<1>8. \A j \in 1 .. n : j # i => R2[j] = R[j] /\ S2[j] = S[j] BY <1>3
<1>9. \A k \in R2[i] : k \in Nat /\ InSlot(keys, i, k) BY <1>3, <1>4, <1>6
<1>10. \A k \in S2[i] : k \in Nat /\ Between(keys, i, k) BY <1>3, <1>4, <1>7
<1> HIDE DEF keys, R, S, R2, S2, n
<1>11. Level(keys, R2, S2)
  <2>1. Level(keys, R, S) /\ i \in 1 .. Len(keys) + 1 BY ONLY <1>1, <1>4
  <2>2. \A j \in 1 .. Len(keys) + 1 : j # i => R2[j] = R[j] /\ S2[j] = S[j] BY ONLY <1>1, <1>8
  <2> QED BY ONLY <2>1, <2>2, <1>9, <1>10, LevelReplaced, Zenon
<1>12. All(R2, n) = (All(R, n) \ R[i]) \cup R2[i]
  <2>1. \A j \in 1 .. Len(keys) + 1 : j # i => R2[j] = R[j] BY <1>1, <1>8
  <2>2. i \in 1 .. Len(keys) + 1 BY <1>1, <1>4
  <2>3. All(R2, Len(keys) + 1) = (All(R, Len(keys) + 1) \ R[i]) \cup R2[i]
    BY ONLY <1>1, <2>1, <2>2, AllReplaced
  <2> QED BY ONLY <1>1, <2>3
<1>13. TreeGood(u) BY <1>1, <1>4, <1>5, <1>11 DEF TreeGood, n, R2, S2
<1>14. Contents(t) = All(R, n) BY ContentsRows DEF R, n
<1>15. Contents(u) = All(R2, n)
  <2>1. Len(u.keys) + 1 = n BY <1>1, <1>4
  <2> QED BY <1>13, <2>1, ContentsRows DEF R2
<1> QED BY <1>3, <1>4, <1>12, <1>13, <1>14, <1>15

LEMMA TreeInserted ==
  ASSUME NEW t, TreeGood(t), NEW i \in 1 .. Len(t.keys) + 1,
         NEW cut \in Nat, Between(t.keys, i, cut),
         NEW u \in Trees, u.keys = InsertAt(t.keys, i, cut), Len(u.kids) = Len(t.kids) + 1,
         \A j \in 1 .. Len(t.keys) + 1 : j < i => u.kids[j] = t.kids[j],
         \A j \in 1 .. Len(t.keys) + 1 : j > i => u.kids[j + 1] = t.kids[j],
         NodeGood(u.kids[i]), Len(u.kids[i].keys) <= MaxKeys,
         NodeGood(u.kids[i + 1]), Len(u.kids[i + 1].keys) <= MaxKeys,
         \A k \in RowsOf(u.kids[i]) : InSlot(t.keys, i, k) /\ k < cut,
         \A k \in ToSet(u.kids[i].keys) : Between(t.keys, i, k) /\ k <= cut,
         \A k \in RowsOf(u.kids[i + 1]) : InSlot(t.keys, i, k) /\ cut <= k,
         \A k \in ToSet(u.kids[i + 1].keys) : Between(t.keys, i, k) /\ cut <= k,
         NEW D,
         \A k : k \in RowsOf(u.kids[i]) \/ k \in RowsOf(u.kids[i + 1])
                  <=> k \in RowsOf(t.kids[i]) \/ k \in D
  PROVE  /\ TreeGood(u)
         /\ \A k : k \in Contents(u) <=> k \in Contents(t) \/ k \in D
<1> DEFINE keys == t.keys
           R == SubRows(t)
           S == SubKeys(t)
           R2 == SubRows(u)
           S2 == SubKeys(u)
           n == Len(t.keys) + 1
           new == u.keys
<1>1. /\ keys \in Seq(Nat) /\ Ascending(keys) /\ Level(keys, R, S) /\ Len(t.kids) = n
      /\ n = Len(keys) + 1 /\ Len(keys) \in Nat
  BY TreeFacts
<1>2. \A j \in 1 .. n : NodeGood(t.kids[j]) /\ Len(t.kids[j].keys) <= MaxKeys BY TreeFacts
<1>3. i \in 1 .. Len(keys) + 1 /\ new = InsertAt(keys, i, cut) /\ Between(keys, i, cut) OBVIOUS
<1>4. Len(new) = Len(keys) + 1 BY <1>1, <1>3, KeyInserted
<1>5. Len(new) + 1 = n + 1 /\ n \in Nat /\ i \in 1 .. n /\ Len(u.kids) = n + 1 BY <1>1, <1>4
<1>6. /\ \A j \in 1 .. n : R[j] = RowsOf(t.kids[j]) /\ S[j] = ToSet(t.kids[j].keys)
      /\ \A j \in 1 .. n + 1 : R2[j] = RowsOf(u.kids[j]) /\ S2[j] = ToSet(u.kids[j].keys)
  BY <1>5 DEF SubRows, SubKeys
<1>7. /\ \A j \in 1 .. n : j \in 1 .. n + 1 /\ j + 1 \in 1 .. n + 1
      /\ \A j \in 1 .. n + 1 : \/ j = i \/ j = i + 1
                               \/ j \in 1 .. n /\ j < i
                               \/ j - 1 \in 1 .. n /\ j - 1 > i /\ (j - 1) + 1 = j
  BY <1>5
<1>8. /\ \A j \in 1 .. n : j < i => u.kids[j] = t.kids[j]
      /\ \A j \in 1 .. n : j > i => u.kids[j + 1] = t.kids[j]
  OBVIOUS
<1>9. /\ NodeGood(u.kids[i]) /\ Len(u.kids[i].keys) <= MaxKeys
      /\ NodeGood(u.kids[i + 1]) /\ Len(u.kids[i + 1].keys) <= MaxKeys
  OBVIOUS
<1>10. \A j \in 1 .. n + 1 : NodeGood(u.kids[j]) /\ Len(u.kids[j].keys) <= MaxKeys
  <2> HIDE DEF n
  <2> TAKE j \in 1 .. n + 1
  <2>1. CASE j = i \/ j = i + 1 BY ONLY <1>9, <2>1
  <2>2. CASE j \in 1 .. n /\ j < i BY ONLY <1>2, <1>8, <2>2
  <2>3. CASE j - 1 \in 1 .. n /\ j - 1 > i /\ (j - 1) + 1 = j
    <3>1. PICK b : b = j - 1 OBVIOUS
    <3>2. b \in 1 .. n /\ b > i /\ b + 1 = j BY ONLY <2>3, <3>1
    <3>3. u.kids[j] = t.kids[b] BY ONLY <1>8, <3>2
    <3> QED BY ONLY <1>2, <3>2, <3>3
  <2> QED BY <1>7, <2>1, <2>2, <2>3
<1>11. /\ \A k \in R2[i] : k \in Nat /\ InSlot(keys, i, k) /\ k < cut
       /\ \A k \in R2[i + 1] : k \in Nat /\ InSlot(keys, i, k) /\ cut <= k
  <2>1. RowsOf(u.kids[i]) \subseteq Keys /\ RowsOf(u.kids[i + 1]) \subseteq Keys
    <3>1. PICK x : x = u.kids[i] OBVIOUS
    <3>2. PICK y : y = u.kids[i + 1] OBVIOUS
    <3>3. RowsOf(x) \subseteq Keys /\ RowsOf(y) \subseteq Keys BY ONLY <1>9, <3>1, <3>2, NodeFacts
    <3> QED BY <3>1, <3>2, <3>3
  <2> QED BY <1>5, <1>6, <1>7, <2>1
<1>12. /\ \A k \in S2[i] : k \in Nat /\ Between(keys, i, k) /\ k <= cut
       /\ \A k \in S2[i + 1] : k \in Nat /\ Between(keys, i, k) /\ cut <= k
  <2>1. u.kids[i].keys \in Seq(Nat) /\ u.kids[i + 1].keys \in Seq(Nat)
    <3>1. PICK x : x = u.kids[i] OBVIOUS
    <3>2. PICK y : y = u.kids[i + 1] OBVIOUS
    <3>3. x.keys \in Seq(Nat) /\ y.keys \in Seq(Nat) BY ONLY <1>9, <3>1, <3>2, NodeFacts
    <3> QED BY <3>1, <3>2, <3>3
  <2>2. /\ \A k \in ToSet(u.kids[i].keys) : k \in Nat
        /\ \A k \in ToSet(u.kids[i + 1].keys) : k \in Nat
    BY ONLY <2>1, KeysAreNat
  <2> QED BY <1>5, <1>6, <1>7, <2>2
<1>13. /\ \A j \in 1 .. n : j < i => R2[j] = R[j] /\ S2[j] = S[j]
       /\ \A j \in 1 .. n : j > i => R2[j + 1] = R[j] /\ S2[j + 1] = S[j]
  BY ONLY <1>6, <1>7, <1>8
<1>14. \A k : k \in R2[i] \/ k \in R2[i + 1] <=> k \in R[i] \/ k \in D
  BY <1>5, <1>6, <1>7
<1> HIDE DEF keys, R, S, R2, S2, n, new
<1>15. Level(new, R2, S2)
  <2>1. /\ \A j \in 1 .. Len(keys) + 1 : j < i => R2[j] = R[j] /\ S2[j] = S[j]
        /\ \A j \in 1 .. Len(keys) + 1 : j > i => R2[j + 1] = R[j] /\ S2[j + 1] = S[j]
    BY ONLY <1>1, <1>13
  <2> QED BY ONLY <1>1, <1>3, <1>11, <1>12, <2>1, LevelInserted, cut \in Nat
<1>16. \A k : k \in All(R2, n + 1) <=> k \in All(R, n) \/ k \in D
  BY ONLY <1>5, <1>13, <1>14, AllInserted
<1>17. TreeGood(u) BY <1>1, <1>5, <1>10, <1>15 DEF TreeGood, n, R2, S2, new
<1>18. Contents(t) = All(R, n) BY ContentsRows DEF R, n
<1>19. Contents(u) = All(R2, n + 1)
  <2>1. Len(u.keys) + 1 = n + 1 BY <1>5 DEF new
  <2> QED BY <1>17, <2>1, ContentsRows DEF R2
<1> QED BY ONLY <1>16, <1>17, <1>18, <1>19

LEMMA TreeMoved ==
  ASSUME NEW t, TreeGood(t), NEW i \in 1 .. Len(t.keys),
         NEW cut \in Nat, Between(t.keys, i, cut) \/ Between(t.keys, i + 1, cut),
         NEW u \in Trees, Len(u.keys) = Len(t.keys), Len(u.kids) = Len(t.kids),
         u.keys[i] = cut, \A j \in 1 .. Len(t.keys) : j # i => u.keys[j] = t.keys[j],
         \A j \in 1 .. Len(t.keys) + 1 : j # i /\ j # i + 1 => u.kids[j] = t.kids[j],
         NodeGood(u.kids[i]), Len(u.kids[i].keys) <= MaxKeys,
         NodeGood(u.kids[i + 1]), Len(u.kids[i + 1].keys) <= MaxKeys,
         \A k \in RowsOf(u.kids[i]) : k < cut,
         \A k \in ToSet(u.kids[i].keys) :
           (Between(t.keys, i, k) \/ Between(t.keys, i + 1, k)) /\ k <= cut,
         \A k \in RowsOf(u.kids[i + 1]) : cut <= k,
         \A k \in ToSet(u.kids[i + 1].keys) :
           (Between(t.keys, i, k) \/ Between(t.keys, i + 1, k)) /\ cut <= k,
         \A k : k \in RowsOf(u.kids[i]) \/ k \in RowsOf(u.kids[i + 1])
                  <=> k \in RowsOf(t.kids[i]) \/ k \in RowsOf(t.kids[i + 1])
  PROVE  TreeGood(u) /\ Contents(u) = Contents(t)
<1> DEFINE keys == t.keys
           R == SubRows(t)
           S == SubKeys(t)
           R2 == SubRows(u)
           S2 == SubKeys(u)
           n == Len(t.keys) + 1
           new == u.keys
<1>1. /\ keys \in Seq(Nat) /\ Ascending(keys) /\ Level(keys, R, S) /\ Len(t.kids) = n
      /\ n = Len(keys) + 1 /\ Len(keys) \in Nat
  BY TreeFacts
<1>2. \A j \in 1 .. n : NodeGood(t.kids[j]) /\ Len(t.kids[j].keys) <= MaxKeys BY TreeFacts
<1>3. /\ new \in Seq(Nat) /\ Len(new) = Len(keys) /\ new[i] = cut
      /\ \A j \in 1 .. Len(keys) : j # i => new[j] = keys[j]
      /\ Between(keys, i, cut) \/ Between(keys, i + 1, cut)
  BY DEF Trees
<1>4. i \in 1 .. Len(keys) /\ Len(new) + 1 = n /\ n \in Nat /\ i \in 1 .. n - 1 /\ i \in 1 .. n
      /\ i + 1 \in 1 .. n /\ Len(u.kids) = n
  BY <1>1, <1>3
<1>5. /\ \A j \in 1 .. n : R[j] = RowsOf(t.kids[j]) /\ S[j] = ToSet(t.kids[j].keys)
      /\ \A j \in 1 .. n : R2[j] = RowsOf(u.kids[j]) /\ S2[j] = ToSet(u.kids[j].keys)
  BY <1>4 DEF SubRows, SubKeys
<1>6. \A j \in 1 .. n : j # i /\ j # i + 1 => u.kids[j] = t.kids[j] OBVIOUS
<1>7. /\ NodeGood(u.kids[i]) /\ Len(u.kids[i].keys) <= MaxKeys
      /\ NodeGood(u.kids[i + 1]) /\ Len(u.kids[i + 1].keys) <= MaxKeys
  OBVIOUS
<1>8. \A j \in 1 .. n : NodeGood(u.kids[j]) /\ Len(u.kids[j].keys) <= MaxKeys
  <2> HIDE DEF n
  <2> TAKE j \in 1 .. n
  <2>1. CASE j = i \/ j = i + 1 BY ONLY <1>7, <2>1
  <2>2. CASE j # i /\ j # i + 1 BY ONLY <1>2, <1>6, <2>2, j \in 1 .. n
  <2> QED BY <2>1, <2>2
<1>9. /\ \A k \in R2[i] : k < cut
      /\ \A k \in R2[i + 1] : cut <= k
      /\ \A k : k \in R2[i] \/ k \in R2[i + 1] <=> k \in R[i] \/ k \in R[i + 1]
  BY <1>4, <1>5
<1>10. /\ \A k \in S2[i] :
            k \in Nat /\ (Between(keys, i, k) \/ Between(keys, i + 1, k)) /\ k <= cut
       /\ \A k \in S2[i + 1] :
            k \in Nat /\ (Between(keys, i, k) \/ Between(keys, i + 1, k)) /\ cut <= k
  <2>1. u.kids[i].keys \in Seq(Nat) /\ u.kids[i + 1].keys \in Seq(Nat)
    <3>1. PICK x : x = u.kids[i] OBVIOUS
    <3>2. PICK y : y = u.kids[i + 1] OBVIOUS
    <3>3. x.keys \in Seq(Nat) /\ y.keys \in Seq(Nat) BY ONLY <1>7, <3>1, <3>2, NodeFacts
    <3> QED BY <3>1, <3>2, <3>3
  <2>2. /\ \A k \in ToSet(u.kids[i].keys) : k \in Nat
        /\ \A k \in ToSet(u.kids[i + 1].keys) : k \in Nat
    BY ONLY <2>1, KeysAreNat
  <2> QED BY <1>4, <1>5, <2>2
<1>11. \A j \in 1 .. n : j # i /\ j # i + 1 => R2[j] = R[j] /\ S2[j] = S[j]
  BY ONLY <1>5, <1>6
<1> HIDE DEF keys, R, S, R2, S2, n, new
<1>12. Level(new, R2, S2)
  <2>1. \A j \in 1 .. Len(keys) + 1 : j # i /\ j # i + 1 => R2[j] = R[j] /\ S2[j] = S[j]
    BY ONLY <1>1, <1>11
  <2>2. i \in 1 .. Len(keys) BY <1>4
  <2>3. Level(keys, R, S) BY <1>1
  <2> QED BY ONLY <1>3, <1>9, <1>10, <2>1, <2>2, <2>3, LevelMoved, cut \in Nat
<1>13. All(R2, n) = All(R, n)
  <2>1. \A j \in 1 .. n : j # i /\ j # i + 1 => R2[j] = R[j] BY <1>11
  <2>2. \A k : k \in R2[i] \/ k \in R2[i + 1] <=> k \in R[i] \/ k \in R[i + 1] BY <1>9
  <2>3. n \in Nat /\ i \in 1 .. n - 1 BY <1>4
  <2> QED BY ONLY <2>1, <2>2, <2>3, AllMoved
<1>14. TreeGood(u) BY <1>1, <1>4, <1>8, <1>12 DEF TreeGood, n, R2, S2, new
<1>15. Contents(t) = All(R, n) BY ContentsRows DEF R, n
<1>16. Contents(u) = All(R2, n)
  <2>1. Len(u.keys) + 1 = n BY <1>4 DEF new
  <2> QED BY <1>14, <2>1, ContentsRows DEF R2
<1> QED BY ONLY <1>13, <1>14, <1>15, <1>16

LEMMA TreeMerged ==
  ASSUME NEW t, TreeGood(t), NEW i \in 1 .. Len(t.keys),
         NEW u \in Trees, u.keys = RemoveAt(t.keys, i), Len(u.kids) = Len(t.kids) - 1,
         \A j \in 1 .. Len(t.keys) + 1 : j < i => u.kids[j] = t.kids[j],
         \A j \in 1 .. Len(t.keys) : j > i => u.kids[j] = t.kids[j + 1],
         NodeGood(u.kids[i]), Len(u.kids[i].keys) <= MaxKeys,
         \A k \in ToSet(u.kids[i].keys) : Between(t.keys, i, k) \/ Between(t.keys, i + 1, k),
         RowsOf(u.kids[i]) = RowsOf(t.kids[i]) \cup RowsOf(t.kids[i + 1])
  PROVE  TreeGood(u) /\ Contents(u) = Contents(t)
<1> DEFINE keys == t.keys
           R == SubRows(t)
           S == SubKeys(t)
           R2 == SubRows(u)
           S2 == SubKeys(u)
           n == Len(t.keys)
           new == u.keys
<1>1. /\ keys \in Seq(Nat) /\ Ascending(keys) /\ Level(keys, R, S) /\ Len(t.kids) = n + 1
      /\ n = Len(keys) /\ n \in Nat
  BY TreeFacts
<1>2. \A j \in 1 .. n + 1 : NodeGood(t.kids[j]) /\ Len(t.kids[j].keys) <= MaxKeys BY TreeFacts
<1>3. i \in 1 .. Len(keys) /\ new = RemoveAt(keys, i) OBVIOUS
<1>4. Len(new) = Len(keys) - 1 BY <1>1, <1>3, KeyRemoved
<1>5. Len(new) + 1 = n /\ i \in 1 .. n /\ i \in 1 .. n + 1 /\ i + 1 \in 1 .. n + 1 /\ Len(u.kids) = n
  BY <1>1, <1>3, <1>4
<1>6. /\ \A j \in 1 .. n + 1 : R[j] = RowsOf(t.kids[j]) /\ S[j] = ToSet(t.kids[j].keys)
      /\ \A j \in 1 .. n : R2[j] = RowsOf(u.kids[j]) /\ S2[j] = ToSet(u.kids[j].keys)
  BY <1>5 DEF SubRows, SubKeys
<1>7. /\ \A j \in 1 .. n : j \in 1 .. n + 1 /\ j + 1 \in 1 .. n + 1 /\ (j < i \/ j = i \/ j > i)
      /\ \A j \in 1 .. n + 1 : j < i => j \in 1 .. n
  BY <1>5
<1>8. /\ \A j \in 1 .. n + 1 : j < i => u.kids[j] = t.kids[j]
      /\ \A j \in 1 .. n : j > i => u.kids[j] = t.kids[j + 1]
  OBVIOUS
<1>9. NodeGood(u.kids[i]) /\ Len(u.kids[i].keys) <= MaxKeys OBVIOUS
<1>10. \A j \in 1 .. n : NodeGood(u.kids[j]) /\ Len(u.kids[j].keys) <= MaxKeys
  <2> HIDE DEF n
  <2> TAKE j \in 1 .. n
  <2>1. CASE j = i BY ONLY <1>9, <2>1
  <2>2. CASE j < i BY ONLY <1>2, <1>7, <1>8, <2>2, j \in 1 .. n
  <2>3. CASE j > i
    <3>1. u.kids[j] = t.kids[j + 1] BY ONLY <1>8, <2>3, j \in 1 .. n
    <3> QED BY ONLY <1>2, <1>7, <3>1, j \in 1 .. n
  <2> QED BY <1>7, <2>1, <2>2, <2>3
<1>11. R2[i] = R[i] \cup R[i + 1] BY <1>5, <1>6
<1>12. \A k \in S2[i] : k \in Nat /\ (Between(keys, i, k) \/ Between(keys, i + 1, k))
  <2>1. u.kids[i].keys \in Seq(Nat)
    <3>1. PICK x : x = u.kids[i] OBVIOUS
    <3>2. x.keys \in Seq(Nat) BY ONLY <1>9, <3>1, NodeFacts
    <3> QED BY <3>1, <3>2
  <2>2. \A k \in ToSet(u.kids[i].keys) : k \in Nat BY ONLY <2>1, KeysAreNat
  <2> QED BY <1>5, <1>6, <2>2
<1>13. /\ \A j \in 1 .. n + 1 : j < i => R2[j] = R[j] /\ S2[j] = S[j]
       /\ \A j \in 1 .. n : j > i => R2[j] = R[j + 1] /\ S2[j] = S[j + 1]
  BY ONLY <1>6, <1>7, <1>8
<1> HIDE DEF keys, R, S, R2, S2, n, new
<1>14. Level(new, R2, S2)
  <2>1. /\ \A j \in 1 .. Len(keys) + 1 : j < i => R2[j] = R[j] /\ S2[j] = S[j]
        /\ \A j \in 1 .. Len(keys) : j > i => R2[j] = R[j + 1] /\ S2[j] = S[j + 1]
    BY ONLY <1>1, <1>13
  <2>2. Level(keys, R, S) BY <1>1
  <2> QED BY ONLY <1>3, <1>11, <1>12, <2>1, <2>2, LevelMerged
<1>15. All(R2, n) = All(R, n + 1)
  <2>1. /\ \A j \in 1 .. n + 1 : j < i => R2[j] = R[j]
        /\ \A j \in 1 .. n : j > i => R2[j] = R[j + 1]
    BY <1>13
  <2> QED BY ONLY <1>1, <1>5, <1>11, <2>1, AllMerged
<1>16. TreeGood(u)
  <2>1. Len(u.kids) = Len(u.keys) + 1 BY <1>5 DEF new
  <2> QED BY <1>5, <1>10, <1>14, <2>1 DEF TreeGood, R2, S2, new
<1>17. Contents(t) = All(R, n + 1) BY ContentsRows DEF R, n
<1>18. Contents(u) = All(R2, n)
  <2>1. Len(u.keys) + 1 = n BY <1>5 DEF new
  <2> QED BY <1>16, <2>1, ContentsRows DEF R2
<1> QED BY ONLY <1>15, <1>16, <1>17, <1>18

-----------------------------------------------------------------------------
(* The cached path of a range operation.                                    *)

Paths == [root : Nat, inner : Nat, innerBound : Nat, leafBound : Nat, rowKey : Keys]

\* The row is in a slot with this upper bound.
Leads(keys, outer, slot, bound, k) ==
  InSlot(keys, slot, k) /\ bound = UpperBound(keys, slot, outer)

\* The path is the one that a search for its key finds.
Fresh(t, p) ==
  /\ p \in Paths
  /\ Leads(t.keys, MinKey, p.root, p.innerBound, p.rowKey)
  /\ Leads(t.kids[p.root].keys, p.innerBound, p.inner, p.leafBound, p.rowKey)

LEMMA Bounded ==
  \A keys \in Seq(Nat) : \A slot, outer \in Nat : UpperBound(keys, slot, outer) \in Nat
BY DEF UpperBound

LEMMA FreshFacts ==
  ASSUME NEW t, TreeGood(t), NEW p, Fresh(t, p), NEW n, n = t.kids[p.root]
  PROVE  /\ p \in Paths /\ p.rowKey \in Keys /\ p.rowKey \in Nat
         /\ p.root \in 1 .. Len(t.keys) + 1 /\ p.root \in Nat /\ p.root \in DOMAIN t.kids
         /\ NodeGood(n) /\ Len(n.keys) <= MaxKeys
         /\ p.inner \in 1 .. Len(n.keys) + 1 /\ p.inner \in Nat /\ p.inner \in DOMAIN n.kids
         /\ LeafAt(t, p) = n.kids[p.inner] /\ LeafAt(t, p) \in Leaves
<1>1. p \in Paths /\ p.rowKey \in Keys /\ p.rowKey \in Nat /\ p.root \in Nat /\ p.inner \in Nat
  BY DEF Fresh, Leads, Paths
<1>2. p.root \in 1 .. Len(t.keys) + 1 BY DEF Fresh, Leads, InSlot
<1>3. DOMAIN t.kids = 1 .. Len(t.keys) + 1 BY TreeFacts
<1>4. NodeGood(n) /\ Len(n.keys) <= MaxKeys BY <1>2, TreeFacts
<1>5. p.inner \in 1 .. Len(n.keys) + 1 BY DEF Fresh, Leads, InSlot
<1>6. DOMAIN n.kids = 1 .. Len(n.keys) + 1 /\ n.kids[p.inner] \in Leaves BY <1>4, <1>5, NodeFacts
<1>7. LeafAt(t, p) = n.kids[p.inner] BY DEF LeafAt
<1> QED BY <1>1, <1>2, <1>3, <1>4, <1>5, <1>6, <1>7

LEMMA FindLeafFresh ==
  ASSUME NEW t, TreeGood(t), NEW p \in Paths, NEW key \in Keys, InSlot(t.keys, p.root, key),
         p.innerBound = UpperBound(t.keys, p.root, MinKey),
         NEW q, q = [FindLeaf(t, p, key) EXCEPT !.rowKey = key]
  PROVE  Fresh(t, q) /\ q.rowKey = key
<1>1. PICK n : n = t.kids[p.root] OBVIOUS
<1>2. p.root \in 1 .. Len(t.keys) + 1 BY DEF InSlot
<1>3. NodeGood(n) BY <1>1, <1>2, TreeFacts
<1>4. n.keys \in Seq(Nat) /\ Len(n.keys) \in Nat /\ key \in Nat BY <1>3, NodeFacts
<1>5. PICK slot : slot = Slot(n.keys, key) OBVIOUS
<1>6. InSlot(n.keys, slot, key) BY <1>4, <1>5, SlotFinds
<1>7. slot \in Nat BY <1>4, <1>6 DEF InSlot
<1>8. p.innerBound \in Nat BY DEF Paths
<1>9. UpperBound(n.keys, slot, p.innerBound) \in Nat BY <1>4, <1>7, <1>8, Bounded
<1>10. q = [[p EXCEPT !.inner = slot, !.leafBound = UpperBound(n.keys, slot, p.innerBound)]
              EXCEPT !.rowKey = key]
  BY <1>1, <1>5 DEF FindLeaf
<1>11. /\ q \in Paths /\ q.root = p.root /\ q.innerBound = p.innerBound /\ q.inner = slot
       /\ q.leafBound = UpperBound(n.keys, slot, p.innerBound) /\ q.rowKey = key
  BY <1>7, <1>9, <1>10 DEF Paths
<1> QED BY <1>1, <1>6, <1>11 DEF Fresh, Leads

LEMMA FindInnerFresh ==
  ASSUME NEW t, TreeGood(t), NEW p \in Paths, NEW key \in Keys,
         NEW q, q = FindInner(t, p, key)
  PROVE  /\ q \in Paths /\ InSlot(t.keys, q.root, key)
         /\ q.innerBound = UpperBound(t.keys, q.root, MinKey)
<1>1. t.keys \in Seq(Nat) /\ Len(t.keys) \in Nat /\ key \in Nat BY TreeFacts
<1>2. PICK slot : slot = Slot(t.keys, key) OBVIOUS
<1>3. InSlot(t.keys, slot, key) BY <1>1, <1>2, SlotFinds
<1>4. slot \in Nat BY <1>1, <1>3 DEF InSlot
<1>5. UpperBound(t.keys, slot, MinKey) \in Nat BY <1>1, <1>4, Bounded DEF MinKey
<1>6. q = [p EXCEPT !.root = slot, !.innerBound = UpperBound(t.keys, slot, MinKey)]
  BY <1>2 DEF FindInner
<1>7. q \in Paths /\ q.root = slot /\ q.innerBound = UpperBound(t.keys, slot, MinKey)
  BY <1>4, <1>5, <1>6 DEF Paths
<1> QED BY <1>3, <1>7

\* updateLeaf may use a cached path, in any order of keys.
LEMMA UpdateLeafFresh ==
  ASSUME NEW t, TreeGood(t), NEW p \in Paths, p.innerBound = 0 \/ Fresh(t, p), NEW key \in Keys,
         NEW q, q = UpdateLeaf(t, p, key)
  PROVE  Fresh(t, q) /\ q.rowKey = key
<1>1. key \in Nat /\ t.keys \in Seq(Nat) /\ Len(t.keys) \in Nat BY TreeFacts
<1>2. p.innerBound \in Nat /\ p.leafBound \in Nat /\ p.rowKey \in Nat BY DEF Paths
<1>3. CASE key >= p.innerBound \/ key < p.rowKey
  <2>1. PICK r : r = FindInner(t, p, key) OBVIOUS
  <2>2. r \in Paths /\ InSlot(t.keys, r.root, key) /\ r.innerBound = UpperBound(t.keys, r.root, MinKey)
    BY <2>1, FindInnerFresh
  <2>3. q = [FindLeaf(t, r, key) EXCEPT !.rowKey = key] BY <1>3, <2>1 DEF UpdateLeaf
  <2> QED BY <2>2, <2>3, FindLeafFresh
<1>4. CASE ~ (key >= p.innerBound \/ key < p.rowKey)
  <2>1. key < p.innerBound /\ p.rowKey <= key BY <1>1, <1>2, <1>4
  <2>2. Fresh(t, p) BY <1>1, <2>1
  <2>3. InSlot(t.keys, p.root, key)
    <3>1. /\ InSlot(t.keys, p.root, p.rowKey) /\ p.innerBound = UpperBound(t.keys, p.root, MinKey)
          /\ DOMAIN t.keys = 1 .. Len(t.keys)
      BY <1>1, <2>2 DEF Fresh, Leads
    <3>2. p.root > 1 => t.keys[p.root - 1] <= key
      <4>1. p.root > 1 => t.keys[p.root - 1] \in Nat BY <1>1, <3>1 DEF InSlot
      <4> QED BY <1>1, <1>2, <2>1, <3>1, <4>1 DEF InSlot
    <3>3. p.root \in 1 .. Len(t.keys) + 1 BY <3>1 DEF InSlot
    <3>4. p.root <= Len(t.keys) => p.innerBound = t.keys[p.root]
      <4>1. p.root <= Len(t.keys) => p.root \in DOMAIN t.keys BY <1>1, <3>1, <3>3
      <4> QED BY <3>1, <4>1 DEF UpperBound
    <3> QED BY <2>1, <3>2, <3>3, <3>4 DEF InSlot
  <2>4. CASE key >= p.leafBound
    <3>1. q = [FindLeaf(t, p, key) EXCEPT !.rowKey = key] BY <1>4, <2>4 DEF UpdateLeaf
    <3>2. p.innerBound = UpperBound(t.keys, p.root, MinKey) BY <2>2 DEF Fresh, Leads
    <3> QED BY <2>3, <3>1, <3>2, FindLeafFresh
  <2>5. CASE ~ (key >= p.leafBound)
    <3>1. q = [p EXCEPT !.rowKey = key] BY <1>4, <2>5 DEF UpdateLeaf
    <3>2. /\ q \in Paths /\ q.root = p.root /\ q.innerBound = p.innerBound /\ q.inner = p.inner
          /\ q.leafBound = p.leafBound /\ q.rowKey = key
      BY <3>1 DEF Paths
    <3>3. PICK n : n = t.kids[p.root] OBVIOUS
    <3>4. n.keys \in Seq(Nat) /\ Len(n.keys) \in Nat /\ DOMAIN n.keys = 1 .. Len(n.keys)
      <4>1. NodeGood(n) BY <2>2, <3>3, FreshFacts
      <4> QED BY <4>1, NodeFacts
    <3>5. InSlot(n.keys, p.inner, p.rowKey) /\ p.leafBound = UpperBound(n.keys, p.inner, p.innerBound)
      BY <2>2, <3>3 DEF Fresh, Leads
    <3>6. p.inner > 1 => n.keys[p.inner - 1] <= key
      <4>1. p.inner > 1 => n.keys[p.inner - 1] \in Nat BY <3>4, <3>5 DEF InSlot
      <4> QED BY <1>1, <1>2, <2>1, <3>5, <4>1 DEF InSlot
    <3>7. p.inner \in 1 .. Len(n.keys) + 1 BY <3>5 DEF InSlot
    <3>8. p.inner <= Len(n.keys) => p.leafBound = n.keys[p.inner]
      <4>1. p.inner <= Len(n.keys) => p.inner \in DOMAIN n.keys BY <3>4, <3>7
      <4> QED BY <3>5, <4>1 DEF UpperBound
    <3>9. key < p.leafBound BY <1>1, <1>2, <2>5
    <3>10. InSlot(n.keys, p.inner, key) BY <3>6, <3>7, <3>8, <3>9 DEF InSlot
    <3> QED BY <2>2, <2>3, <3>2, <3>3, <3>5, <3>10 DEF Fresh, Leads
  <2> QED BY <2>4, <2>5
<1> QED BY <1>3, <1>4

\* How a cached slot and its bound change with the keys.
LEMMA LeadsInserted ==
  ASSUME NEW keys \in Seq(Nat), Ascending(keys), NEW cut \in Nat,
         NEW i \in 1 .. Len(keys) + 1, Between(keys, i, cut),
         NEW new, new = InsertAt(keys, i, cut),
         NEW outer, NEW b, NEW k \in Nat, Leads(keys, outer, i, b, k)
  PROVE  /\ k < cut => Leads(new, outer, i, cut, k)
         /\ cut <= k => Leads(new, outer, i + 1, b, k)
<1>1. /\ new \in Seq(Nat) /\ Len(new) = Len(keys) + 1 /\ new[i] = cut
      /\ \A j \in 1 .. Len(keys) : new[IF j < i THEN j ELSE j + 1] = keys[j]
      /\ \A x \in Nat, j \in 1 .. Len(keys) + 1 : InSlot(keys, j, x) =>
           /\ j < i \/ (j = i /\ x < cut) => InSlot(new, j, x)
           /\ j > i \/ (j = i /\ cut <= x) => InSlot(new, j + 1, x)
  BY KeyInserted
<1>2. InSlot(keys, i, k) /\ b = UpperBound(keys, i, outer) BY DEF Leads
<1>3. /\ k < cut => InSlot(new, i, k)
      /\ cut <= k => InSlot(new, i + 1, k)
  BY ONLY <1>1, <1>2, i \in 1 .. Len(keys) + 1, k \in Nat
<1>4. Len(keys) \in Nat /\ DOMAIN keys = 1 .. Len(keys) /\ DOMAIN new = 1 .. Len(keys) + 1
  BY <1>1
<1>5. UpperBound(new, i, outer) = cut BY <1>1, <1>4 DEF UpperBound
<1>6. UpperBound(new, i + 1, outer) = UpperBound(keys, i, outer)
  <2>1. CASE i \in DOMAIN keys
    <3>1. i \in 1 .. Len(keys) /\ ~ (i < i) /\ i + 1 \in 1 .. Len(keys) + 1 BY <1>4, <2>1
    <3>2. new[i + 1] = keys[i] BY ONLY <1>1, <3>1
    <3> QED BY ONLY <1>4, <2>1, <3>1, <3>2 DEF UpperBound
  <2>2. CASE i \notin DOMAIN keys
    <3>1. i + 1 \notin DOMAIN new BY <1>4, <2>2
    <3> QED BY ONLY <2>2, <3>1 DEF UpperBound
  <2> QED BY <2>1, <2>2
<1> QED BY ONLY <1>2, <1>3, <1>5, <1>6 DEF Leads

LEMMA LeadsRemoved ==
  ASSUME NEW keys \in Seq(Nat), Ascending(keys), NEW i \in 1 .. Len(keys),
         NEW new, new = RemoveAt(keys, i),
         NEW outer, NEW b, NEW k \in Nat
  PROVE  /\ Leads(keys, outer, i, b, k) => Leads(new, outer, i, UpperBound(keys, i + 1, outer), k)
         /\ Leads(keys, outer, i + 1, b, k) => Leads(new, outer, i, b, k)
<1>1. /\ new \in Seq(Nat) /\ Len(new) = Len(keys) - 1
      /\ \A j \in 1 .. Len(keys) - 1 :
           (j < i => new[j] = keys[j]) /\ (j >= i => new[j] = keys[j + 1])
      /\ \A x \in Nat, j \in 1 .. Len(keys) + 1 : InSlot(keys, j, x) =>
           /\ j <= i => InSlot(new, j, x)
           /\ j > i => InSlot(new, j - 1, x)
  BY KeyRemoved
<1>2. /\ Len(keys) \in Nat /\ DOMAIN keys = 1 .. Len(keys) /\ DOMAIN new = 1 .. Len(keys) - 1
      /\ i \in 1 .. Len(keys) + 1 /\ i + 1 \in 1 .. Len(keys) + 1 /\ i <= i /\ i >= i /\ i + 1 > i
      /\ (i + 1) - 1 = i /\ (i + 1 \in 1 .. Len(keys) <=> i \in 1 .. Len(keys) - 1)
  BY <1>1
<1>3. InSlot(keys, i, k) => InSlot(new, i, k) BY ONLY <1>1, <1>2, k \in Nat
<1>4. InSlot(keys, i + 1, k) => InSlot(new, i, k)
  <2>1. InSlot(keys, i + 1, k) => InSlot(new, (i + 1) - 1, k) BY ONLY <1>1, <1>2, k \in Nat
  <2> QED BY ONLY <1>2, <2>1
<1>5. UpperBound(new, i, outer) = UpperBound(keys, i + 1, outer)
  BY ONLY <1>1, <1>2 DEF UpperBound
<1> QED BY ONLY <1>3, <1>4, <1>5 DEF Leads

LEMMA LeadsMoved ==
  ASSUME NEW keys \in Seq(Nat), Ascending(keys), NEW i \in 1 .. Len(keys), NEW cut \in Nat,
         Between(keys, i, cut) \/ Between(keys, i + 1, cut),
         NEW new \in Seq(Nat), Len(new) = Len(keys), new[i] = cut,
         \A j \in 1 .. Len(keys) : j # i => new[j] = keys[j],
         NEW outer, NEW b, NEW k \in Nat
  PROVE  /\ Leads(keys, outer, i, b, k) /\ k < cut => Leads(new, outer, i, cut, k)
         /\ Leads(keys, outer, i + 1, b, k) /\ cut <= k => Leads(new, outer, i + 1, b, k)
<1>1. \A x \in Nat, j \in 1 .. Len(keys) + 1 : InSlot(keys, j, x) =>
        /\ (j = i \/ j = i + 1) /\ x < cut => InSlot(new, i, x)
        /\ (j = i \/ j = i + 1) /\ cut <= x => InSlot(new, i + 1, x)
  BY KeyMoved
<1>2. /\ Len(keys) \in Nat /\ DOMAIN keys = 1 .. Len(keys) /\ DOMAIN new = 1 .. Len(keys)
      /\ i \in 1 .. Len(keys) + 1 /\ i + 1 \in 1 .. Len(keys) + 1 /\ i + 1 # i
  OBVIOUS
<1>3. /\ InSlot(keys, i, k) /\ k < cut => InSlot(new, i, k)
      /\ InSlot(keys, i + 1, k) /\ cut <= k => InSlot(new, i + 1, k)
  BY ONLY <1>1, <1>2, k \in Nat
<1>4. UpperBound(new, i, outer) = cut BY <1>2 DEF UpperBound
<1>5. UpperBound(new, i + 1, outer) = UpperBound(keys, i + 1, outer) BY <1>2 DEF UpperBound
<1> QED BY ONLY <1>3, <1>4, <1>5 DEF Leads

LEMMA LeadsSplit ==
  ASSUME NEW keys \in Seq(Nat), Ascending(keys), NEW m \in 1 .. Len(keys),
         NEW low \in Seq(Nat), Len(low) = m - 1, \A j \in 1 .. m - 1 : low[j] = keys[j],
         NEW high \in Seq(Nat), Len(high) = Len(keys) - m,
         \A j \in 1 .. Len(keys) - m : high[j] = keys[m + j],
         NEW outer, NEW b, NEW k \in Nat, NEW j \in 1 .. Len(keys) + 1, Leads(keys, outer, j, b, k)
  PROVE  /\ j <= m => k < keys[m] /\ Leads(low, keys[m], j, b, k)
         /\ j > m => keys[m] <= k /\ Leads(high, outer, j - m, b, k)
<1>1. InSlot(keys, j, k) /\ b = UpperBound(keys, j, outer) BY DEF Leads
<1>2. /\ j <= m => k < keys[m] /\ InSlot(low, j, k)
      /\ j > m => keys[m] <= k /\ InSlot(high, j - m, k)
  BY <1>1, KeysSplit
<1>3. /\ Len(keys) \in Nat /\ DOMAIN keys = 1 .. Len(keys) /\ DOMAIN low = 1 .. m - 1
      /\ DOMAIN high = 1 .. Len(keys) - m
  OBVIOUS
<1>4. j <= m => b = UpperBound(low, j, keys[m]) BY <1>1, <1>3 DEF UpperBound
<1>5. j > m => b = UpperBound(high, j - m, outer)
  <2> SUFFICES ASSUME j > m PROVE b = UpperBound(high, j - m, outer) OBVIOUS
  <2>1. CASE j \in DOMAIN keys
    <3>1. j - m \in 1 .. Len(keys) - m /\ m + (j - m) = j
      <4>1. j \in 1 .. Len(keys) BY <1>3, <2>1
      <4> QED BY ONLY <1>3, <4>1, m \in 1 .. Len(keys), j > m
    <3>2. high[j - m] = keys[j] BY <3>1
    <3> QED BY ONLY <1>1, <1>3, <2>1, <3>1, <3>2 DEF UpperBound
  <2>2. CASE j \notin DOMAIN keys
    <3>1. j - m \notin DOMAIN high BY <1>3, <2>2
    <3> QED BY ONLY <1>1, <2>2, <3>1 DEF UpperBound
  <2> QED BY <2>1, <2>2
<1> QED BY ONLY <1>2, <1>4, <1>5 DEF Leads

LEMMA LeadsJoined ==
  ASSUME NEW l \in Seq(Nat), Ascending(l), NEW r \in Seq(Nat), Ascending(r), NEW c \in Nat,
         \A k \in ToSet(l) : k <= c, \A k \in ToSet(r) : c <= k,
         NEW new \in Seq(Nat), Chained(l, r, c, new),
         NEW outer, NEW b, NEW k \in Nat, NEW j
  PROVE  /\ Leads(l, c, j, b, k) /\ k < c => Leads(new, outer, j, b, k)
         /\ Leads(r, outer, j, b, k) /\ c <= k => Leads(new, outer, Len(l) + 1 + j, b, k)
<1>a. /\ Len(new) = Len(l) + 1 + Len(r)
      /\ \A i \in 1 .. Len(l) : new[i] = l[i]
      /\ new[Len(l) + 1] = c
      /\ \A i \in 1 .. Len(r) : new[Len(l) + 1 + i] = r[i]
  BY DEF Chained
<1>1. /\ Len(l) \in Nat /\ Len(r) \in Nat /\ DOMAIN l = 1 .. Len(l) /\ DOMAIN r = 1 .. Len(r)
      /\ DOMAIN new = 1 .. Len(l) + 1 + Len(r)
  BY <1>a
<1>2. ASSUME Leads(l, c, j, b, k), k < c PROVE Leads(new, outer, j, b, k)
  <2>1. InSlot(l, j, k) /\ b = UpperBound(l, j, c) BY <1>2 DEF Leads
  <2>2. j \in 1 .. Len(l) + 1 BY <2>1 DEF InSlot
  <2>3. InSlot(new, j, k)
    <3>1. Len(new) >= Len(l) + 1 BY <1>1, <1>a
    <3> QED BY <1>2, <2>1, <2>2, <1>a, <3>1, KeysBefore
  <2>4. CASE j <= Len(l)
    <3>1. j \in 1 .. Len(l) /\ j \in DOMAIN new BY <1>1, <2>2, <2>4
    <3>2. new[j] = l[j] BY <1>a, <3>1
    <3> QED BY ONLY <1>1, <2>1, <2>3, <3>1, <3>2 DEF Leads, UpperBound
  <2>5. CASE j = Len(l) + 1
    <3>1. j \notin DOMAIN l /\ j \in DOMAIN new /\ new[j] = c BY <1>1, <1>a, <2>5
    <3> QED BY ONLY <2>1, <2>3, <3>1 DEF Leads, UpperBound
  <2>6. j <= Len(l) \/ j = Len(l) + 1 BY ONLY <1>1, <2>2
  <2> QED BY <2>4, <2>5, <2>6
<1>3. ASSUME Leads(r, outer, j, b, k), c <= k PROVE Leads(new, outer, Len(l) + 1 + j, b, k)
  <2>1. InSlot(r, j, k) /\ b = UpperBound(r, j, outer) BY <1>3 DEF Leads
  <2>2. j \in 1 .. Len(r) + 1 BY <2>1 DEF InSlot
  <2>3. InSlot(new, Len(l) + 1 + j, k) BY <1>3, <2>1, <2>2, <1>a, KeysJoined
  <2>4. CASE j \in DOMAIN r
    <3>1. j \in 1 .. Len(r) BY <1>1, <2>4
    <3>2. Len(l) + 1 + j \in DOMAIN new BY ONLY <1>1, <3>1
    <3>3. new[Len(l) + 1 + j] = r[j] BY <1>a, <3>1
    <3> QED BY ONLY <2>1, <2>3, <2>4, <3>2, <3>3 DEF Leads, UpperBound
  <2>5. CASE j \notin DOMAIN r
    <3>1. Len(l) + 1 + j \notin DOMAIN new BY <1>1, <2>2, <2>5
    <3> QED BY ONLY <2>1, <2>3, <2>5, <3>1 DEF Leads, UpperBound
  <2> QED BY <2>4, <2>5
<1> QED BY <1>2, <1>3

-----------------------------------------------------------------------------
(* Growing.                                                                 *)

Put(n, j, cut, leaf, m) == m = PutLeaf(n, cut, leaf, j + 1)

LEMMA NodePut ==
  ASSUME NEW n, NodeGood(n), NEW j \in 1 .. Len(n.keys) + 1,
         NEW cut \in Nat, InSlot(n.keys, j, cut), NEW leaf \in Leaves,
         \A k \in n.kids[j].rows : k < cut,
         \A k \in leaf.rows : InSlot(n.keys, j, k) /\ cut <= k,
         NEW m, Put(n, j, cut, leaf, m)
  PROVE  /\ NodeGood(m) /\ Len(m.keys) = Len(n.keys) + 1
         /\ ToSet(m.keys) = ToSet(n.keys) \cup {cut}
         /\ RowsOf(m) = RowsOf(n) \cup leaf.rows
         /\ m.kids[j] = n.kids[j] /\ m.kids[j + 1] = leaf
         /\ \A outer, b : \A k \in Nat : Leads(n.keys, outer, j, b, k) =>
              /\ k < cut => Leads(m.keys, outer, j, cut, k)
              /\ cut <= k => Leads(m.keys, outer, j + 1, b, k)
<1> DEFINE keys == n.keys
           kids == n.kids
           c == Len(n.keys)
<1>1. /\ keys \in Seq(Nat) /\ Ascending(keys) /\ kids \in Seq(Leaves)
      /\ c \in Nat /\ Len(kids) = c + 1 /\ Len(keys) = c
      /\ \A i \in 1 .. c + 1 : \A k \in kids[i].rows : k \in Nat /\ InSlot(keys, i, k)
  BY NodeFacts
<1>2. j \in 1 .. c + 1 /\ (j + 1) - 1 = j /\ j + 1 \in 1 .. Len(kids) + 1 BY <1>1
<1>3. m = [keys |-> InsertAt(keys, (j + 1) - 1, cut), kids |-> InsertAt(kids, j + 1, leaf)]
  BY DEF Put, PutLeaf
<1>4. m.keys = InsertAt(keys, j, cut) /\ m.kids = InsertAt(kids, j + 1, leaf)
      /\ m = [keys |-> m.keys, kids |-> m.kids]
  BY ONLY <1>2, <1>3
<1>5. Between(keys, j, cut)
  <2>1. InSlot(keys, j, cut) OBVIOUS
  <2> QED BY <1>1, <2>1 DEF InSlot, Between
<1>6. m.keys \in Seq(Nat) /\ Len(m.keys) = c + 1 /\ ToSet(m.keys) = ToSet(keys) \cup {cut}
  <2>1. j \in 1 .. Len(keys) + 1 BY <1>1
  <2> HIDE DEF keys
  <2>2. PICK new : new = m.keys OBVIOUS
  <2>3. new \in Seq(Nat) /\ Len(new) = Len(keys) + 1 /\ ToSet(new) = ToSet(keys) \cup {cut}
    BY ONLY <1>1, <1>4, <1>5, <2>1, <2>2, cut \in Nat, KeyInserted
  <2> QED BY <1>1, <2>2, <2>3
<1>7. /\ m.kids \in Seq(Leaves) /\ Len(m.kids) = c + 2
      /\ \A i \in 1 .. c + 2 : /\ i < j + 1 => m.kids[i] = kids[i]
                               /\ i = j + 1 => m.kids[i] = leaf
                               /\ i > j + 1 => m.kids[i] = kids[i - 1]
  <2>1. c + 2 = (c + 1) + 1 BY <1>1
  <2>2. /\ InsertAt(kids, j + 1, leaf) \in Seq(Leaves)
        /\ Len(InsertAt(kids, j + 1, leaf)) = Len(kids) + 1
        /\ \A i \in 1 .. Len(kids) + 1 :
             /\ i < j + 1 => InsertAt(kids, j + 1, leaf)[i] = kids[i]
             /\ i = j + 1 => InsertAt(kids, j + 1, leaf)[i] = leaf
             /\ i > j + 1 => InsertAt(kids, j + 1, leaf)[i] = kids[i - 1]
    <3>1. kids \in Seq(Leaves) /\ j + 1 \in 1 .. Len(kids) + 1 BY <1>1, <1>2
    <3> HIDE DEF kids
    <3> QED BY ONLY <3>1, leaf \in Leaves, InsertAtPoints
  <2> QED BY ONLY <1>1, <1>4, <2>1, <2>2
<1>8. m \in Nodes BY ONLY <1>4, <1>6, <1>7 DEF Nodes
<1>9. /\ \A i \in 1 .. c + 1 : i < j => m.kids[i].rows = kids[i].rows
      /\ \A i \in 1 .. c + 1 : i > j => m.kids[i + 1].rows = kids[i].rows
      /\ m.kids[j] = kids[j] /\ m.kids[j + 1] = leaf
  <2>1. \A i \in 1 .. c + 1 : /\ i \in 1 .. c + 2 /\ i + 1 \in 1 .. c + 2 /\ (i + 1) - 1 = i
                              /\ i < j => i < j + 1
                              /\ i > j => i + 1 > j + 1
                              /\ j < j + 1
    BY ONLY <1>1, <1>2
  <2> QED BY ONLY <1>2, <1>7, <2>1
<1>10. /\ \A k \in m.kids[j].rows : InSlot(keys, j, k) /\ k < cut
       /\ \A k \in m.kids[j + 1].rows : InSlot(keys, j, k) /\ cut <= k
  BY <1>1, <1>9
<1>11. m.kids[j].rows \cup m.kids[j + 1].rows = kids[j].rows \cup leaf.rows BY <1>9
<1>12. NodeGood(m) /\ RowsOf(m) = RowsOf(n) \cup leaf.rows
  <2>1. /\ m.keys = InsertAt(n.keys, j, cut) /\ Len(m.kids) = Len(n.kids) + 1
        /\ Between(n.keys, j, cut)
        /\ \A i \in 1 .. Len(n.keys) + 1 : i < j => m.kids[i].rows = n.kids[i].rows
        /\ \A i \in 1 .. Len(n.keys) + 1 : i > j => m.kids[i + 1].rows = n.kids[i].rows
        /\ \A k \in m.kids[j].rows : InSlot(n.keys, j, k) /\ k < cut
        /\ \A k \in m.kids[j + 1].rows : InSlot(n.keys, j, k) /\ cut <= k
        /\ m.kids[j].rows \cup m.kids[j + 1].rows = n.kids[j].rows \cup leaf.rows
    BY <1>1, <1>4, <1>5, <1>7, <1>9, <1>10, <1>11
  <2>2. PICK D : D = leaf.rows OBVIOUS
  <2>3. m.kids[j].rows \cup m.kids[j + 1].rows = n.kids[j].rows \cup D BY <2>1, <2>2
  <2>4. NodeGood(m) /\ RowsOf(m) = RowsOf(n) \cup D
    BY ONLY <1>8, <2>1, <2>3, NodeGood(n), cut \in Nat, j \in 1 .. Len(n.keys) + 1, NodeInserted
  <2> QED BY <2>2, <2>4
<1>13. ASSUME NEW outer, NEW b, NEW k \in Nat, Leads(keys, outer, j, b, k)
       PROVE  /\ k < cut => Leads(m.keys, outer, j, cut, k)
              /\ cut <= k => Leads(m.keys, outer, j + 1, b, k)
  <2>1. PICK new : new = m.keys OBVIOUS
  <2>2. j \in 1 .. Len(keys) + 1 BY <1>1
  <2>3. /\ k < cut => Leads(new, outer, j, cut, k)
        /\ cut <= k => Leads(new, outer, j + 1, b, k)
    BY ONLY <1>1, <1>4, <1>5, <1>13, <2>1, <2>2, cut \in Nat, k \in Nat, LeadsInserted
  <2> QED BY ONLY <2>1, <2>3
<1> QED BY <1>1, <1>6, <1>9, <1>12, <1>13

LEMMA NodeSplitSlots ==
  ASSUME NEW n, NodeGood(n), NEW c \in 1 .. Len(n.keys),
         NEW l, NEW h, Parts(n, c, l, h)
  PROVE  /\ \A k \in Nat, j \in 1 .. Len(n.keys) + 1 : InSlot(n.keys, j, k) =>
              /\ j <= c => k < n.keys[c] /\ InSlot(l.keys, j, k)
              /\ j > c => n.keys[c] <= k /\ InSlot(h.keys, j - c, k)
         /\ \A outer, b : \A k \in Nat, j \in 1 .. Len(n.keys) + 1 : Leads(n.keys, outer, j, b, k) =>
              /\ j <= c => Leads(l.keys, n.keys[c], j, b, k)
              /\ j > c => Leads(h.keys, outer, j - c, b, k)
<1> DEFINE keys == n.keys
           low == l.keys
           high == h.keys
<1>1. keys \in Seq(Nat) /\ Ascending(keys) /\ c \in 1 .. Len(keys) BY NodeFacts
<1>2. /\ NodeGood(l) /\ NodeGood(h)
      /\ Len(low) = c - 1 /\ Len(high) = Len(keys) - c
      /\ \A j \in 1 .. c - 1 : low[j] = keys[j]
      /\ \A j \in 1 .. Len(keys) - c : high[j] = keys[c + j]
  BY ONLY NodeGood(n), c \in 1 .. Len(n.keys), Parts(n, c, l, h), NodeSplit
<1>3. low \in Seq(Nat) /\ high \in Seq(Nat) BY <1>2, NodeFacts
<1> HIDE DEF keys, low, high
<1>4. \A k \in Nat, j \in 1 .. Len(keys) + 1 : InSlot(keys, j, k) =>
        /\ j <= c => k < keys[c] /\ InSlot(low, j, k)
        /\ j > c => keys[c] <= k /\ InSlot(high, j - c, k)
  BY ONLY <1>1, <1>2, <1>3, KeysSplit
<1>5. ASSUME NEW outer, NEW b, NEW k \in Nat, NEW j \in 1 .. Len(keys) + 1, Leads(keys, outer, j, b, k)
      PROVE  /\ j <= c => Leads(low, keys[c], j, b, k)
             /\ j > c => Leads(high, outer, j - c, b, k)
  BY ONLY <1>1, <1>2, <1>3, <1>5, LeadsSplit, k \in Nat, j \in 1 .. Len(keys) + 1
<1> QED BY ONLY <1>4, <1>5 DEF keys, low, high

\* rootInsert: a node gives way to two.
Divided(t, i, mid, l, h, u) ==
  u = [keys |-> InsertAt(t.keys, i, mid), kids |-> InsertAt(ReplaceAt(t.kids, i, l), i + 1, h)]

LEMMA RootSplit ==
  ASSUME NEW t, TreeGood(t), NEW i \in 1 .. Len(t.keys) + 1,
         NEW mid \in Nat, Between(t.keys, i, mid),
         NEW l, NodeGood(l), Len(l.keys) <= MaxKeys,
         NEW h, NodeGood(h), Len(h.keys) <= MaxKeys,
         \A k \in RowsOf(l) : InSlot(t.keys, i, k) /\ k < mid,
         \A k \in ToSet(l.keys) : Between(t.keys, i, k) /\ k <= mid,
         \A k \in RowsOf(h) : InSlot(t.keys, i, k) /\ mid <= k,
         \A k \in ToSet(h.keys) : Between(t.keys, i, k) /\ mid <= k,
         RowsOf(t.kids[i]) \subseteq RowsOf(l) \cup RowsOf(h),
         NEW u, Divided(t, i, mid, l, h, u)
  PROVE  /\ TreeGood(u) /\ u.keys = InsertAt(t.keys, i, mid) /\ u.kids[i] = l /\ u.kids[i + 1] = h
         /\ Contents(u) = Contents(t) \cup RowsOf(l) \cup RowsOf(h)
<1> DEFINE keys == t.keys
           kids == t.kids
           c == Len(t.keys)
           mids == ReplaceAt(t.kids, i, l)
<1>1. /\ keys \in Seq(Nat) /\ Ascending(keys) /\ kids \in Seq(Nodes)
      /\ c \in Nat /\ Len(kids) = c + 1 /\ Len(keys) = c
  BY TreeFacts
<1>2. i \in 1 .. c + 1 /\ i + 1 \in 1 .. (c + 1) + 1 /\ c + 2 = (c + 1) + 1 BY <1>1
<1>3. u.keys = InsertAt(keys, i, mid) /\ u.kids = InsertAt(mids, i + 1, h)
      /\ u = [keys |-> u.keys, kids |-> u.kids]
  BY DEF Divided
<1>4. l \in Nodes /\ h \in Nodes BY DEF NodeGood
<1>5. /\ mids \in Seq(Nodes) /\ Len(mids) = c + 1 /\ mids[i] = l
      /\ \A j \in 1 .. c + 1 : j # i => mids[j] = kids[j]
  BY <1>1, <1>4 DEF ReplaceAt
<1>6. u.keys \in Seq(Nat) /\ Len(u.keys) = c + 1
  <2>1. i \in 1 .. Len(keys) + 1 /\ mid \in Nat BY <1>1
  <2> QED BY ONLY <1>1, <1>3, <2>1, InsertAtKeys
<1> HIDE DEF mids
<1>7. /\ u.kids \in Seq(Nodes) /\ Len(u.kids) = c + 2
      /\ \A j \in 1 .. c + 2 : /\ j < i + 1 => u.kids[j] = mids[j]
                               /\ j = i + 1 => u.kids[j] = h
                               /\ j > i + 1 => u.kids[j] = mids[j - 1]
  <2>1. i + 1 \in 1 .. Len(mids) + 1 BY <1>2, <1>5
  <2>2. /\ InsertAt(mids, i + 1, h) \in Seq(Nodes)
        /\ Len(InsertAt(mids, i + 1, h)) = Len(mids) + 1
        /\ \A j \in 1 .. Len(mids) + 1 :
             /\ j < i + 1 => InsertAt(mids, i + 1, h)[j] = mids[j]
             /\ j = i + 1 => InsertAt(mids, i + 1, h)[j] = h
             /\ j > i + 1 => InsertAt(mids, i + 1, h)[j] = mids[j - 1]
    <3>1. mids \in Seq(Nodes) /\ h \in Nodes BY <1>4, <1>5
    <3>2. PICK a : a = i + 1 OBVIOUS
    <3>3. a \in 1 .. Len(mids) + 1 BY ONLY <2>1, <3>2
    <3>4. /\ InsertAt(mids, a, h) \in Seq(Nodes)
          /\ Len(InsertAt(mids, a, h)) = Len(mids) + 1
          /\ \A j \in 1 .. Len(mids) + 1 :
               /\ j < a => InsertAt(mids, a, h)[j] = mids[j]
               /\ j = a => InsertAt(mids, a, h)[j] = h
               /\ j > a => InsertAt(mids, a, h)[j] = mids[j - 1]
      BY ONLY <3>1, <3>3, InsertAtPoints
    <3> QED BY ONLY <3>2, <3>4
  <2> QED BY ONLY <1>2, <1>3, <1>5, <2>2
<1>8. u \in Trees BY ONLY <1>3, <1>6, <1>7 DEF Trees
<1>9. /\ \A j \in 1 .. c + 1 : j < i => u.kids[j] = kids[j]
      /\ \A j \in 1 .. c + 1 : j > i => u.kids[j + 1] = kids[j]
      /\ u.kids[i] = l /\ u.kids[i + 1] = h
  <2>1. \A j \in 1 .. c + 1 : /\ j \in 1 .. c + 2 /\ j + 1 \in 1 .. c + 2 /\ (j + 1) - 1 = j
                              /\ j < i => j < i + 1 /\ j # i
                              /\ j > i => j + 1 > i + 1 /\ j # i
    BY ONLY <1>1, <1>2
  <2>2. i < i + 1 BY <1>1
  <2> QED BY ONLY <1>2, <1>5, <1>7, <2>1, <2>2
<1>10. /\ Len(u.kids) = Len(t.kids) + 1
       /\ \A j \in 1 .. Len(t.keys) + 1 : j < i => u.kids[j] = t.kids[j]
       /\ \A j \in 1 .. Len(t.keys) + 1 : j > i => u.kids[j + 1] = t.kids[j]
       /\ u.keys = InsertAt(t.keys, i, mid)
  BY <1>1, <1>3, <1>7, <1>9
<1>11. /\ NodeGood(u.kids[i]) /\ Len(u.kids[i].keys) <= MaxKeys
       /\ \A k \in RowsOf(u.kids[i]) : InSlot(t.keys, i, k) /\ k < mid
       /\ \A k \in ToSet(u.kids[i].keys) : Between(t.keys, i, k) /\ k <= mid
  <2>1. u.kids[i] = l BY <1>9
  <2> QED BY <2>1
<1>12. /\ NodeGood(u.kids[i + 1]) /\ Len(u.kids[i + 1].keys) <= MaxKeys
       /\ \A k \in RowsOf(u.kids[i + 1]) : InSlot(t.keys, i, k) /\ mid <= k
       /\ \A k \in ToSet(u.kids[i + 1].keys) : Between(t.keys, i, k) /\ mid <= k
  <2>1. u.kids[i + 1] = h BY <1>9
  <2> QED BY <2>1
<1> DEFINE D == RowsOf(l) \cup RowsOf(h)
<1>13. \A k : k \in RowsOf(u.kids[i]) \/ k \in RowsOf(u.kids[i + 1])
                <=> k \in RowsOf(t.kids[i]) \/ k \in D
  BY <1>9
<1> HIDE DEF D
<1>14. TreeGood(u) /\ \A k : k \in Contents(u) <=> k \in Contents(t) \/ k \in D
  <2>1. Between(t.keys, i, mid) OBVIOUS
  <2> QED BY ONLY <1>8, <1>10, <1>11, <1>12, <1>13, <2>1, TreeGood(t), mid \in Nat,
                  i \in 1 .. Len(t.keys) + 1, TreeInserted
<1> QED BY <1>9, <1>10, <1>14 DEF D

SetKid(t, i, m, u) == u = [t EXCEPT !.kids[i] = m]

LEMMA KidReplaced ==
  ASSUME NEW t \in Trees, Len(t.kids) = Len(t.keys) + 1, NEW i \in DOMAIN t.kids,
         NEW m \in Nodes, NEW u, SetKid(t, i, m, u)
  PROVE  /\ u \in Trees /\ u.keys = t.keys /\ Len(u.kids) = Len(t.kids)
         /\ \A x \in 1 .. Len(t.keys) + 1 : x # i => u.kids[x] = t.kids[x]
         /\ u.kids[i] = m
<1>1. t.kids \in Seq(Nodes) /\ t.keys \in Seq(Nat) /\ t = [keys |-> t.keys, kids |-> t.kids]
  BY DEF Trees
<1>2. PICK kids : kids = [t.kids EXCEPT ![i] = m] OBVIOUS
<1>3. u = [keys |-> t.keys, kids |-> kids] BY <1>1, <1>2 DEF SetKid
<1>4. /\ kids \in Seq(Nodes) /\ Len(kids) = Len(t.kids) /\ kids[i] = m
      /\ \A x \in DOMAIN t.kids : x # i => kids[x] = t.kids[x]
  BY <1>1, <1>2
<1>5. DOMAIN t.kids = 1 .. Len(t.keys) + 1 BY <1>1
<1>6. u.keys = t.keys /\ u.kids = kids BY ONLY <1>3
<1>7. u \in Trees BY ONLY <1>1, <1>3, <1>4 DEF Trees
<1> QED BY ONLY <1>4, <1>5, <1>6, <1>7

\* An outcome r of an operation that adds the rows D to the tree t.
Grown(t, p, r, D) ==
  /\ TreeGood(r.t) /\ Fresh(r.t, r.p) /\ r.p.rowKey = p.rowKey
  /\ \A k : k \in Contents(r.t) <=> k \in Contents(t) \/ k \in D

\* It leads to the leaf p led to, or to the one that was put after that.
Reached(t, p, cut, leaf, r) ==
  LeafAt(r.t, r.p) = IF p.rowKey < cut THEN LeafAt(t, p) ELSE leaf

\* The path that splitLeaf and unsafeSplitLeafUnbalanced leave.
Onward(p, cut) == IF p.rowKey < cut THEN [p EXCEPT !.leafBound = cut]
                                    ELSE [p EXCEPT !.inner = @ + 1]

LEMMA OnwardFacts ==
  ASSUME NEW p \in Paths, NEW cut \in Nat
  PROVE  LET q == Onward(p, cut) IN
         /\ q \in Paths /\ q.root = p.root /\ q.innerBound = p.innerBound /\ q.rowKey = p.rowKey
         /\ p.rowKey < cut => q.inner = p.inner /\ q.leafBound = cut
         /\ cut <= p.rowKey => q.inner = p.inner + 1 /\ q.leafBound = p.leafBound
<1>0. PICK q : q = Onward(p, cut) OBVIOUS
<1>1. p.rowKey \in Nat BY DEF Paths
<1>2. CASE p.rowKey < cut
  <2>1. q = [p EXCEPT !.leafBound = cut] BY <1>0, <1>2 DEF Onward
  <2>2. ~ (cut <= p.rowKey) BY <1>1, <1>2
  <2> QED BY <1>0, <1>2, <2>1, <2>2 DEF Paths
<1>3. CASE ~ (p.rowKey < cut)
  <2>1. q = [p EXCEPT !.inner = @ + 1] BY <1>0, <1>3 DEF Onward
  <2> QED BY <1>0, <1>3, <2>1 DEF Paths
<1> QED BY <1>2, <1>3

\* innerInsert into a node that has room.
LEMMA NodeGrows ==
  ASSUME NEW t, TreeGood(t), NEW p, Fresh(t, p), NEW n, n = t.kids[p.root],
         Len(n.keys) < MaxKeys,
         NEW cut \in Nat, InSlot(t.keys, p.root, cut), InSlot(n.keys, p.inner, cut),
         NEW leaf \in Leaves,
         \A k \in n.kids[p.inner].rows : k < cut,
         \A k \in leaf.rows : InSlot(t.keys, p.root, k) /\ InSlot(n.keys, p.inner, k) /\ cut <= k,
         NEW r, r = [t |-> [t EXCEPT !.kids[p.root] = PutLeaf(n, cut, leaf, p.inner + 1)],
                     p |-> Onward(p, cut)]
  PROVE  Grown(t, p, r, leaf.rows) /\ Reached(t, p, cut, leaf, r)
<1>1. PICK i : i = p.root OBVIOUS
<1>2. PICK j : j = p.inner OBVIOUS
<1>3. PICK key : key = p.rowKey OBVIOUS
<1>4. PICK m : m = PutLeaf(n, cut, leaf, j + 1) OBVIOUS
<1>5. PICK u : u = [t EXCEPT !.kids[i] = m] OBVIOUS
<1>6. PICK q : q = Onward(p, cut) OBVIOUS
<1>7. r.t = u /\ r.p = q BY <1>1, <1>2, <1>4, <1>5, <1>6
<1>8. /\ p \in Paths /\ key \in Nat /\ i \in 1 .. Len(t.keys) + 1 /\ i \in DOMAIN t.kids
      /\ NodeGood(n) /\ j \in 1 .. Len(n.keys) + 1
  BY ONLY <1>1, <1>2, <1>3, TreeGood(t), Fresh(t, p), n = t.kids[p.root], FreshFacts
<1>9. InSlot(n.keys, j, cut) /\ \A k \in n.kids[j].rows : k < cut BY <1>2
<1>10. \A k \in leaf.rows : InSlot(t.keys, i, k) /\ InSlot(n.keys, j, k) /\ cut <= k BY <1>1, <1>2
<1>11. /\ NodeGood(m) /\ Len(m.keys) = Len(n.keys) + 1
       /\ ToSet(m.keys) = ToSet(n.keys) \cup {cut}
       /\ RowsOf(m) = RowsOf(n) \cup leaf.rows
       /\ m.kids[j] = n.kids[j] /\ m.kids[j + 1] = leaf
       /\ \A outer, b : \A k \in Nat : Leads(n.keys, outer, j, b, k) =>
            /\ k < cut => Leads(m.keys, outer, j, cut, k)
            /\ cut <= k => Leads(m.keys, outer, j + 1, b, k)
  <2>1. NodeGood(n) /\ j \in 1 .. Len(n.keys) + 1 BY <1>8
  <2>2. \A k \in leaf.rows : InSlot(n.keys, j, k) /\ cut <= k BY <1>10
  <2>3. Put(n, j, cut, leaf, m) BY <1>4 DEF Put
  <2> QED BY ONLY <1>9, <2>1, <2>2, <2>3, cut \in Nat, leaf \in Leaves, NodePut
<1>12. t \in Trees /\ t.kids \in Seq(Nodes) /\ t.keys \in Seq(Nat) /\ Len(t.kids) = Len(t.keys) + 1
  BY TreeFacts DEF TreeGood
<1>13. m \in Nodes BY <1>11 DEF NodeGood
<1>14. /\ u \in Trees /\ u.keys = t.keys /\ Len(u.kids) = Len(t.kids)
       /\ \A x \in 1 .. Len(t.keys) + 1 : x # i => u.kids[x] = t.kids[x]
       /\ u.kids[i] = m
  <2>1. SetKid(t, i, m, u) BY <1>5 DEF SetKid
  <2> QED BY ONLY <1>8, <1>12, <1>13, <2>1, KidReplaced
<1>15. Len(m.keys) <= MaxKeys
  <2>1. Len(n.keys) \in Nat BY <1>8, NodeFacts
  <2>2. Len(m.keys) = Len(n.keys) + 1 BY <1>11
  <2> QED BY ONLY <2>1, <2>2, Len(n.keys) < MaxKeys, ConstantsAssumption
<1>16. n = t.kids[i] BY <1>1
<1>17. /\ \A k \in RowsOf(n) : InSlot(t.keys, i, k)
       /\ \A k \in ToSet(n.keys) : Between(t.keys, i, k)
  BY <1>8, <1>16, TreeFacts
<1>18. Between(t.keys, i, cut)
  <2>1. InSlot(t.keys, i, cut) BY <1>1
  <2> QED BY <1>12, <2>1 DEF InSlot, Between
<1>19. /\ \A k \in RowsOf(m) : InSlot(t.keys, i, k)
       /\ \A k \in ToSet(m.keys) : Between(t.keys, i, k)
  BY ONLY <1>10, <1>11, <1>17, <1>18
<1>20. TreeGood(u) /\ Contents(u) = (Contents(t) \ RowsOf(t.kids[i])) \cup RowsOf(u.kids[i])
  <2>1. NodeGood(u.kids[i]) /\ Len(u.kids[i].keys) <= MaxKeys BY <1>11, <1>14, <1>15
  <2>2. \A k \in RowsOf(u.kids[i]) : InSlot(t.keys, i, k) BY <1>14, <1>19
  <2>3. \A k \in ToSet(u.kids[i].keys) : Between(t.keys, i, k) BY <1>14, <1>19
  <2> QED BY ONLY <1>8, <1>14, <2>1, <2>2, <2>3, TreeGood(t), TreeReplaced
<1>21. \A k : k \in Contents(u) <=> k \in Contents(t) \/ k \in leaf.rows
  <2>1. \A k \in RowsOf(n) : k \in Contents(t) BY <1>8, <1>16, ContentsRows
  <2> QED BY ONLY <1>11, <1>14, <1>16, <1>20, <2>1
<1>22. /\ q \in Paths /\ q.root = i /\ q.innerBound = p.innerBound /\ q.rowKey = key
       /\ key < cut => q.inner = j /\ q.leafBound = cut
       /\ cut <= key => q.inner = j + 1 /\ q.leafBound = p.leafBound
  <2>1. /\ q \in Paths /\ q.root = p.root /\ q.innerBound = p.innerBound /\ q.rowKey = p.rowKey
        /\ p.rowKey < cut => q.inner = p.inner /\ q.leafBound = cut
        /\ cut <= p.rowKey => q.inner = p.inner + 1 /\ q.leafBound = p.leafBound
    BY ONLY <1>6, <1>8, cut \in Nat, OnwardFacts
  <2> QED BY ONLY <1>1, <1>2, <1>3, <2>1
<1>23. /\ Leads(t.keys, MinKey, i, p.innerBound, key)
       /\ Leads(n.keys, p.innerBound, j, p.leafBound, key)
  BY <1>1, <1>2, <1>3 DEF Fresh
<1>24. /\ key < cut => Leads(m.keys, p.innerBound, j, cut, key)
       /\ cut <= key => Leads(m.keys, p.innerBound, j + 1, p.leafBound, key)
  BY ONLY <1>8, <1>11, <1>23
<1>25. Leads(m.keys, q.innerBound, q.inner, q.leafBound, q.rowKey)
  <2>1. key < cut \/ cut <= key BY <1>8
  <2> QED BY ONLY <1>22, <1>24, <2>1
<1>26. Leads(u.keys, MinKey, q.root, q.innerBound, q.rowKey) BY ONLY <1>14, <1>22, <1>23
<1>27. u.kids[q.root] = m BY <1>14, <1>22
<1>28. Fresh(u, q) BY ONLY <1>22, <1>25, <1>26, <1>27 DEF Fresh
<1>29. Reached(t, p, cut, leaf, r)
  <2>1. LeafAt(u, q) = m.kids[q.inner] /\ LeafAt(t, p) = n.kids[j]
    BY ONLY <1>1, <1>2, <1>16, <1>27 DEF LeafAt
  <2>2. key < cut \/ (cut <= key /\ ~ (key < cut)) BY <1>8
  <2> QED BY ONLY <1>3, <1>7, <1>11, <1>22, <2>1, <2>2 DEF Reached
<1> QED BY <1>3, <1>7, <1>20, <1>21, <1>22, <1>28, <1>29 DEF Grown

\* innerInsert into a full node: the leaf goes to the left half ...
LEMMA LowPut ==
  ASSUME NEW n, NodeGood(n), Len(n.keys) <= MaxKeys, NEW c \in 1 .. Len(n.keys),
         NEW low, NEW high, Parts(n, c, low, high),
         NEW cut \in Nat, NEW j \in 1 .. Len(n.keys) + 1, InSlot(n.keys, j, cut), j <= c,
         NEW leaf \in Leaves,
         \A k \in n.kids[j].rows : k < cut,
         \A k \in leaf.rows : InSlot(n.keys, j, k) /\ cut <= k,
         NEW l, Put(low, j, cut, leaf, l)
  PROVE  /\ NodeGood(l) /\ Len(l.keys) <= MaxKeys /\ NodeGood(high) /\ Len(high.keys) <= MaxKeys
         /\ \A k \in RowsOf(l) : k < n.keys[c]
         /\ \A k \in RowsOf(high) : n.keys[c] <= k
         /\ \A k \in ToSet(l.keys) : k <= n.keys[c] /\ (k \in ToSet(n.keys) \/ k = cut)
         /\ \A k \in ToSet(high.keys) : n.keys[c] <= k /\ k \in ToSet(n.keys)
         /\ \A k : k \in RowsOf(l) \/ k \in RowsOf(high) <=> k \in RowsOf(n) \/ k \in leaf.rows
         /\ l.kids[j] = n.kids[j] /\ l.kids[j + 1] = leaf
         /\ \A outer, b : \A k \in Nat : Leads(n.keys, outer, j, b, k) =>
              /\ k < cut => Leads(l.keys, n.keys[c], j, cut, k)
              /\ cut <= k => Leads(l.keys, n.keys[c], j + 1, b, k)
<1>1. n.keys \in Seq(Nat) /\ Len(n.keys) \in Nat /\ c \in Nat /\ j \in Nat BY NodeFacts
<1>2. /\ NodeGood(low) /\ NodeGood(high)
      /\ Len(low.keys) = c - 1 /\ Len(high.keys) = Len(n.keys) - c
      /\ \A x \in 1 .. c : low.kids[x] = n.kids[x]
      /\ \A k \in ToSet(low.keys) : k \in ToSet(n.keys) /\ k <= n.keys[c]
      /\ \A k \in ToSet(high.keys) : k \in ToSet(n.keys) /\ n.keys[c] <= k
      /\ \A k \in RowsOf(low) : k < n.keys[c]
      /\ \A k \in RowsOf(high) : n.keys[c] <= k
      /\ RowsOf(n) = RowsOf(low) \cup RowsOf(high)
  BY ONLY NodeGood(n), c \in 1 .. Len(n.keys), Parts(n, c, low, high), NodeSplit
<1>3. \A k \in Nat, x \in 1 .. Len(n.keys) + 1 : InSlot(n.keys, x, k) =>
        /\ x <= c => k < n.keys[c] /\ InSlot(low.keys, x, k)
        /\ x > c => n.keys[c] <= k /\ InSlot(high.keys, x - c, k)
  BY ONLY NodeGood(n), c \in 1 .. Len(n.keys), Parts(n, c, low, high), NodeSplitSlots
<1>4. \A outer, b : \A k \in Nat, x \in 1 .. Len(n.keys) + 1 : Leads(n.keys, outer, x, b, k) =>
        /\ x <= c => Leads(low.keys, n.keys[c], x, b, k)
        /\ x > c => Leads(high.keys, outer, x - c, b, k)
  BY ONLY NodeGood(n), c \in 1 .. Len(n.keys), Parts(n, c, low, high), NodeSplitSlots
<1>5. cut < n.keys[c] /\ InSlot(low.keys, j, cut) BY <1>3
<1>6. \A k \in leaf.rows : k \in Nat /\ k < n.keys[c] /\ InSlot(low.keys, j, k) /\ cut <= k
  <2>1. \A k \in leaf.rows : k \in Nat /\ InSlot(n.keys, j, k) /\ cut <= k BY DEF Leaves
  <2> QED BY <1>3, <2>1
<1>7. j \in 1 .. Len(low.keys) + 1 /\ j \in 1 .. c BY <1>1, <1>2
<1>8. \A k \in low.kids[j].rows : k < cut
  <2>1. low.kids[j] = n.kids[j] BY <1>2, <1>7
  <2> QED BY <2>1
<1>9. /\ NodeGood(l) /\ Len(l.keys) = Len(low.keys) + 1
      /\ ToSet(l.keys) = ToSet(low.keys) \cup {cut}
      /\ RowsOf(l) = RowsOf(low) \cup leaf.rows
      /\ l.kids[j] = low.kids[j] /\ l.kids[j + 1] = leaf
      /\ \A outer, b : \A k \in Nat : Leads(low.keys, outer, j, b, k) =>
           /\ k < cut => Leads(l.keys, outer, j, cut, k)
           /\ cut <= k => Leads(l.keys, outer, j + 1, b, k)
  <2>1. \A k \in leaf.rows : InSlot(low.keys, j, k) /\ cut <= k BY <1>6
  <2>2. NodeGood(low) BY <1>2
  <2> QED BY ONLY <1>5, <1>7, <1>8, <2>1, <2>2, cut \in Nat, leaf \in Leaves,
                  Put(low, j, cut, leaf, l), NodePut
<1>10. Len(l.keys) <= MaxKeys /\ Len(high.keys) <= MaxKeys BY <1>1, <1>2, <1>9
<1>11. \A k \in RowsOf(l) : k < n.keys[c] BY ONLY <1>2, <1>6, <1>9
<1>12. \A k \in ToSet(l.keys) : k <= n.keys[c] /\ (k \in ToSet(n.keys) \/ k = cut)
  <2>1. cut <= n.keys[c]
    <3>1. n.keys[c] \in Nat BY <1>1
    <3> QED BY ONLY <1>5, <3>1, cut \in Nat
  <2> QED BY ONLY <1>2, <1>9, <2>1
<1>13. \A k : k \in RowsOf(l) \/ k \in RowsOf(high) <=> k \in RowsOf(n) \/ k \in leaf.rows
  BY ONLY <1>2, <1>9
<1>14. ASSUME NEW outer, NEW b, NEW k \in Nat, Leads(n.keys, outer, j, b, k)
       PROVE  /\ k < cut => Leads(l.keys, n.keys[c], j, cut, k)
              /\ cut <= k => Leads(l.keys, n.keys[c], j + 1, b, k)
  <2>1. Leads(low.keys, n.keys[c], j, b, k)
    BY ONLY <1>4, <1>14, k \in Nat, j \in 1 .. Len(n.keys) + 1, j <= c
  <2> QED BY ONLY <1>9, <2>1, k \in Nat
<1>15. l.kids[j] = n.kids[j] /\ l.kids[j + 1] = leaf BY ONLY <1>2, <1>7, <1>9
<1> QED BY ONLY <1>2, <1>9, <1>10, <1>11, <1>12, <1>13, <1>14, <1>15

\* ... or to the right half.
LEMMA HighPut ==
  ASSUME NEW n, NodeGood(n), Len(n.keys) <= MaxKeys, NEW c \in 1 .. Len(n.keys),
         NEW low, NEW high, Parts(n, c, low, high),
         NEW cut \in Nat, NEW j \in 1 .. Len(n.keys) + 1, InSlot(n.keys, j, cut), j > c,
         NEW leaf \in Leaves,
         \A k \in n.kids[j].rows : k < cut,
         \A k \in leaf.rows : InSlot(n.keys, j, k) /\ cut <= k,
         NEW h, Put(high, j - c, cut, leaf, h)
  PROVE  /\ NodeGood(low) /\ Len(low.keys) <= MaxKeys /\ NodeGood(h) /\ Len(h.keys) <= MaxKeys
         /\ \A k \in RowsOf(low) : k < n.keys[c]
         /\ \A k \in RowsOf(h) : n.keys[c] <= k
         /\ \A k \in ToSet(low.keys) : k <= n.keys[c] /\ k \in ToSet(n.keys)
         /\ \A k \in ToSet(h.keys) : n.keys[c] <= k /\ (k \in ToSet(n.keys) \/ k = cut)
         /\ \A k : k \in RowsOf(low) \/ k \in RowsOf(h) <=> k \in RowsOf(n) \/ k \in leaf.rows
         /\ h.kids[j - c] = n.kids[j] /\ h.kids[j - c + 1] = leaf
         /\ \A outer, b : \A k \in Nat : Leads(n.keys, outer, j, b, k) =>
              /\ k < cut => Leads(h.keys, outer, j - c, cut, k)
              /\ cut <= k => Leads(h.keys, outer, j - c + 1, b, k)
<1>1. n.keys \in Seq(Nat) /\ Len(n.keys) \in Nat /\ c \in Nat /\ j \in Nat BY NodeFacts
<1>2. /\ NodeGood(low) /\ NodeGood(high)
      /\ Len(low.keys) = c - 1 /\ Len(high.keys) = Len(n.keys) - c
      /\ \A x \in 1 .. Len(n.keys) - c + 1 : high.kids[x] = n.kids[c + x]
      /\ \A k \in ToSet(low.keys) : k \in ToSet(n.keys) /\ k <= n.keys[c]
      /\ \A k \in ToSet(high.keys) : k \in ToSet(n.keys) /\ n.keys[c] <= k
      /\ \A k \in RowsOf(low) : k < n.keys[c]
      /\ \A k \in RowsOf(high) : n.keys[c] <= k
      /\ RowsOf(n) = RowsOf(low) \cup RowsOf(high)
  <2>1. PICK l, r : l = low /\ r = high OBVIOUS
  <2>2. NodeGood(n) /\ c \in 1 .. Len(n.keys) /\ Parts(n, c, l, r)
    BY ONLY <2>1, NodeGood(n), c \in 1 .. Len(n.keys), Parts(n, c, low, high)
  <2>3. NodeGood(l) /\ NodeGood(r) /\ Len(l.keys) = c - 1 /\ Len(r.keys) = Len(n.keys) - c
    BY ONLY <2>2, NodeSplit
  <2>4. \A x \in 1 .. Len(n.keys) - c + 1 : r.kids[x] = n.kids[c + x]
    <3>1. n.kids \in Seq(Leaves) /\ Len(n.kids) = Len(n.keys) + 1 BY NodeFacts
    <3>2. r.kids = SubSeq(n.kids, c + 1, Len(n.kids)) BY ONLY <2>2 DEF Parts
    <3> QED BY ONLY <1>1, <3>1, <3>2
  <2>5. /\ \A k \in ToSet(l.keys) : k \in ToSet(n.keys) /\ k <= n.keys[c]
        /\ \A k \in ToSet(r.keys) : k \in ToSet(n.keys) /\ n.keys[c] <= k
    BY ONLY <2>2, NodeSplit
  <2>6. \A k \in RowsOf(l) : k < n.keys[c] BY ONLY <2>2, NodeSplit
  <2>7. \A k \in RowsOf(r) : n.keys[c] <= k BY ONLY <2>2, NodeSplit
  <2>8. RowsOf(n) = RowsOf(l) \cup RowsOf(r) BY ONLY <2>2, NodeSplit
  <2> QED BY ONLY <2>1, <2>3, <2>4, <2>5, <2>6, <2>7, <2>8
<1>3. \A k \in Nat, x \in 1 .. Len(n.keys) + 1 : InSlot(n.keys, x, k) =>
        /\ x <= c => k < n.keys[c] /\ InSlot(low.keys, x, k)
        /\ x > c => n.keys[c] <= k /\ InSlot(high.keys, x - c, k)
  BY ONLY NodeGood(n), c \in 1 .. Len(n.keys), Parts(n, c, low, high), NodeSplitSlots
<1>4. \A outer, b : \A k \in Nat, x \in 1 .. Len(n.keys) + 1 : Leads(n.keys, outer, x, b, k) =>
        /\ x <= c => Leads(low.keys, n.keys[c], x, b, k)
        /\ x > c => Leads(high.keys, outer, x - c, b, k)
  BY ONLY NodeGood(n), c \in 1 .. Len(n.keys), Parts(n, c, low, high), NodeSplitSlots
<1>5. PICK x : x = j - c OBVIOUS
<1>6. n.keys[c] <= cut /\ InSlot(high.keys, x, cut) BY <1>3, <1>5
<1>7. \A k \in leaf.rows : k \in Nat /\ n.keys[c] <= k /\ InSlot(high.keys, x, k) /\ cut <= k
  <2>1. \A k \in leaf.rows : k \in Nat /\ InSlot(n.keys, j, k) /\ cut <= k BY DEF Leaves
  <2> QED BY <1>3, <1>5, <2>1
<1>8. x \in 1 .. Len(high.keys) + 1 /\ x \in 1 .. Len(n.keys) - c + 1 /\ c + x = j /\ x \in Nat
  <2>1. x \in 1 .. Len(n.keys) - c + 1 /\ c + x = j /\ x \in Nat
    BY ONLY <1>1, <1>5, j \in 1 .. Len(n.keys) + 1, j > c
  <2> QED BY ONLY <1>2, <2>1
<1>9. \A k \in high.kids[x].rows : k < cut
  <2>1. high.kids[x] = n.kids[j] BY <1>2, <1>8
  <2> QED BY <2>1
<1>10. /\ NodeGood(h) /\ Len(h.keys) = Len(high.keys) + 1
       /\ ToSet(h.keys) = ToSet(high.keys) \cup {cut}
       /\ RowsOf(h) = RowsOf(high) \cup leaf.rows
       /\ h.kids[x] = high.kids[x] /\ h.kids[x + 1] = leaf
       /\ \A outer, b : \A k \in Nat : Leads(high.keys, outer, x, b, k) =>
            /\ k < cut => Leads(h.keys, outer, x, cut, k)
            /\ cut <= k => Leads(h.keys, outer, x + 1, b, k)
  <2>1. \A k \in leaf.rows : InSlot(high.keys, x, k) /\ cut <= k BY <1>7
  <2>2. NodeGood(high) BY <1>2
  <2>3. Put(high, x, cut, leaf, h) BY <1>5
  <2> QED BY ONLY <1>6, <1>8, <1>9, <2>1, <2>2, <2>3, cut \in Nat, leaf \in Leaves, NodePut
<1>11. Len(h.keys) <= MaxKeys /\ Len(low.keys) <= MaxKeys BY <1>1, <1>2, <1>10
<1>12. \A k \in RowsOf(h) : n.keys[c] <= k BY ONLY <1>2, <1>7, <1>10
<1>13. \A k \in ToSet(h.keys) : n.keys[c] <= k /\ (k \in ToSet(n.keys) \/ k = cut)
  BY ONLY <1>2, <1>6, <1>10
<1>14. \A k : k \in RowsOf(low) \/ k \in RowsOf(h) <=> k \in RowsOf(n) \/ k \in leaf.rows
  BY ONLY <1>2, <1>10
<1>15. ASSUME NEW outer, NEW b, NEW k \in Nat, Leads(n.keys, outer, j, b, k)
       PROVE  /\ k < cut => Leads(h.keys, outer, j - c, cut, k)
              /\ cut <= k => Leads(h.keys, outer, j - c + 1, b, k)
  <2>1. Leads(high.keys, outer, x, b, k)
    BY ONLY <1>4, <1>5, <1>15, k \in Nat, j \in 1 .. Len(n.keys) + 1, j > c
  <2> QED BY ONLY <1>5, <1>10, <2>1, k \in Nat
<1>16. h.kids[j - c] = n.kids[j] /\ h.kids[j - c + 1] = leaf
  <2>1. high.kids[x] = n.kids[j] BY <1>2, <1>8
  <2> QED BY ONLY <1>5, <1>10, <2>1
<1> QED BY ONLY <1>2, <1>10, <1>11, <1>12, <1>13, <1>14, <1>15, <1>16

\* A node gives way to two, and the path goes on in the first ...
LEMMA RootSplitLow ==
  ASSUME NEW t, TreeGood(t), NEW i \in 1 .. Len(t.keys) + 1,
         NEW mid \in Nat, Between(t.keys, i, mid),
         NEW l, NEW u, u.keys = InsertAt(t.keys, i, mid), u.kids[i] = l,
         NEW bound, NEW key \in Nat, Leads(t.keys, MinKey, i, bound, key), key < mid,
         NEW q \in Paths, q.root = i, q.innerBound = mid, q.rowKey = key,
         Leads(l.keys, mid, q.inner, q.leafBound, key)
  PROVE  Fresh(u, q)
<1>1. t.keys \in Seq(Nat) /\ Ascending(t.keys) BY TreeFacts
<1>2. PICK keys : keys = t.keys OBVIOUS
<1>3. PICK new : new = u.keys OBVIOUS
<1>4. keys \in Seq(Nat) /\ Ascending(keys) /\ i \in 1 .. Len(keys) + 1 /\ Between(keys, i, mid)
      /\ new = InsertAt(keys, i, mid) /\ Leads(keys, MinKey, i, bound, key)
  BY <1>1, <1>2, <1>3
<1>5. Leads(new, MinKey, i, mid, key)
  BY ONLY <1>4, mid \in Nat, key \in Nat, key < mid, LeadsInserted
<1>6. u.kids[q.root] = l OBVIOUS
<1>7. Leads(u.keys, MinKey, q.root, q.innerBound, q.rowKey) BY <1>3, <1>5
<1>8. Leads(u.kids[q.root].keys, q.innerBound, q.inner, q.leafBound, q.rowKey) BY <1>6
<1> QED BY ONLY <1>7, <1>8, q \in Paths DEF Fresh

\* ... or in the second.
LEMMA RootSplitHigh ==
  ASSUME NEW t, TreeGood(t), NEW i \in 1 .. Len(t.keys) + 1,
         NEW mid \in Nat, Between(t.keys, i, mid),
         NEW h, NEW u, u.keys = InsertAt(t.keys, i, mid), u.kids[i + 1] = h,
         NEW bound, NEW key \in Nat, Leads(t.keys, MinKey, i, bound, key), mid <= key,
         NEW q \in Paths, q.root = i + 1, q.innerBound = bound, q.rowKey = key,
         Leads(h.keys, bound, q.inner, q.leafBound, key)
  PROVE  Fresh(u, q)
<1>1. t.keys \in Seq(Nat) /\ Ascending(t.keys) BY TreeFacts
<1>2. PICK keys : keys = t.keys OBVIOUS
<1>3. PICK new : new = u.keys OBVIOUS
<1>4. keys \in Seq(Nat) /\ Ascending(keys) /\ i \in 1 .. Len(keys) + 1 /\ Between(keys, i, mid)
      /\ new = InsertAt(keys, i, mid) /\ Leads(keys, MinKey, i, bound, key)
  BY <1>1, <1>2, <1>3
<1>5. Leads(new, MinKey, i + 1, bound, key)
  BY ONLY <1>4, mid \in Nat, key \in Nat, mid <= key, LeadsInserted
<1>6. u.kids[q.root] = h OBVIOUS
<1>7. Leads(u.keys, MinKey, q.root, q.innerBound, q.rowKey) BY <1>3, <1>5
<1>8. Leads(u.kids[q.root].keys, q.innerBound, q.inner, q.leafBound, q.rowKey) BY <1>6
<1> QED BY ONLY <1>7, <1>8, q \in Paths DEF Fresh

\* innerInsert
LEMMA InnerInsertGrows ==
  ASSUME NEW t, TreeGood(t), NEW p, Fresh(t, p), NEW n, n = t.kids[p.root],
         NEW cut \in Nat, InSlot(t.keys, p.root, cut), InSlot(n.keys, p.inner, cut),
         NEW leaf \in Leaves,
         \A k \in n.kids[p.inner].rows : k < cut,
         \A k \in leaf.rows : InSlot(t.keys, p.root, k) /\ InSlot(n.keys, p.inner, k) /\ cut <= k,
         NEW r, r = InnerInsert(t, Onward(p, cut), cut, leaf, p.inner + 1)
  PROVE  Grown(t, p, r, leaf.rows) /\ Reached(t, p, cut, leaf, r)
<1>1. PICK i : i = p.root OBVIOUS
<1>2. PICK j : j = p.inner OBVIOUS
<1>3. PICK key : key = p.rowKey OBVIOUS
<1>4. PICK q : q = Onward(p, cut) OBVIOUS
<1>5. /\ p \in Paths /\ key \in Nat /\ i \in 1 .. Len(t.keys) + 1 /\ i \in DOMAIN t.kids /\ i \in Nat
      /\ NodeGood(n) /\ Len(n.keys) <= MaxKeys /\ j \in 1 .. Len(n.keys) + 1 /\ j \in Nat
      /\ LeafAt(t, p) = n.kids[j]
  BY ONLY <1>1, <1>2, <1>3, TreeGood(t), Fresh(t, p), n = t.kids[p.root], FreshFacts
<1>6. /\ q \in Paths /\ q.root = i /\ q.innerBound = p.innerBound /\ q.rowKey = key
      /\ key < cut => q.inner = j /\ q.leafBound = cut
      /\ cut <= key => q.inner = j + 1 /\ q.leafBound = p.leafBound
  <2>1. LET o == Onward(p, cut) IN
        /\ o \in Paths /\ o.root = p.root /\ o.innerBound = p.innerBound /\ o.rowKey = p.rowKey
        /\ p.rowKey < cut => o.inner = p.inner /\ o.leafBound = cut
        /\ cut <= p.rowKey => o.inner = p.inner + 1 /\ o.leafBound = p.leafBound
    BY ONLY <1>5, cut \in Nat, OnwardFacts
  <2> QED BY ONLY <1>1, <1>2, <1>3, <1>4, <2>1
<1>7. n.keys \in Seq(Nat) /\ Len(n.keys) \in Nat /\ Len(n.kids) = Len(n.keys) + 1 BY <1>5, NodeFacts
<1>8. t.keys \in Seq(Nat) /\ n = t.kids[i] BY <1>1, TreeFacts
<1>9. /\ Leads(t.keys, MinKey, i, p.innerBound, key)
      /\ Leads(n.keys, p.innerBound, j, p.leafBound, key)
  BY <1>1, <1>2, <1>3 DEF Fresh
<1>10. /\ InSlot(t.keys, i, cut) /\ InSlot(n.keys, j, cut)
       /\ \A k \in n.kids[j].rows : k < cut
       /\ \A k \in leaf.rows : InSlot(t.keys, i, k)
       /\ \A k \in leaf.rows : InSlot(n.keys, j, k) /\ cut <= k
  BY <1>1, <1>2
<1>11. CASE Len(n.keys) < MaxKeys
  <2>1. r = [t |-> [t EXCEPT !.kids[p.root] = PutLeaf(n, cut, leaf, p.inner + 1)], p |-> Onward(p, cut)]
    BY <1>1, <1>4, <1>6, <1>11 DEF InnerInsert
  <2> QED BY <1>11, <2>1, NodeGrows
<1>12. CASE ~ (Len(n.keys) < MaxKeys)
  <2>1. Len(n.keys) = MaxKeys BY <1>5, <1>7, <1>12
  <2> DEFINE c == MaxKeys + 1 - (MaxKeys + 1) \div 2
  <2>2. c = MaxKeys + 1 - (MaxKeys + 1) \div 2 OBVIOUS
  <2> HIDE DEF c
  <2>3. c \in 1 .. Len(n.keys) /\ c \in Nat BY <2>1, <2>2
  <2>4. PICK mid : mid = n.keys[c] OBVIOUS
  <2>5. mid \in Nat BY <1>7, <2>3, <2>4
  <2>6. PICK low : low = [keys |-> SubSeq(n.keys, 1, c - 1), kids |-> SubSeq(n.kids, 1, c)] OBVIOUS
  <2>7. PICK high : high = [keys |-> SubSeq(n.keys, c + 1, MaxKeys),
                            kids |-> SubSeq(n.kids, c + 1, MaxKeys + 1)]
    OBVIOUS
  <2>8. Parts(n, c, low, high) BY ONLY <1>7, <2>1, <2>6, <2>7 DEF Parts
  <2>9. /\ \A k \in RowsOf(n) : k \in Nat /\ InSlot(t.keys, i, k)
        /\ \A k \in ToSet(n.keys) : k \in Nat /\ Between(t.keys, i, k)
    BY <1>5, <1>8, TreeFacts
  <2>10. Between(t.keys, i, cut) BY <1>8, <1>10 DEF InSlot, Between
  <2>11. Between(t.keys, i, mid)
    <3>1. mid \in ToSet(n.keys) BY <1>7, <2>3, <2>4 DEF ToSet
    <3> QED BY <2>9, <3>1
  <2>12. \A k \in Nat, x \in 1 .. Len(n.keys) + 1 : InSlot(n.keys, x, k) =>
           /\ x <= c => k < n.keys[c] /\ InSlot(low.keys, x, k)
           /\ x > c => n.keys[c] <= k /\ InSlot(high.keys, x - c, k)
    BY ONLY <1>5, <2>3, <2>8, NodeSplitSlots
  <2>13. (cut < mid => j <= c) /\ (~ (cut < mid) => j > c) /\ (j <= c => key < mid) /\ (j > c => mid <= key)
    <3>1. /\ j <= c => cut < mid
          /\ j > c => mid <= cut
      BY ONLY <1>5, <1>10, <2>4, <2>12, cut \in Nat
    <3>2. InSlot(n.keys, j, key) BY <1>9 DEF Leads
    <3>3. /\ j <= c => key < mid
          /\ j > c => mid <= key
      BY ONLY <1>5, <2>4, <2>12, <3>2
    <3> QED BY ONLY <1>5, <2>3, <2>5, <3>1, <3>3, cut \in Nat
  <2>14. CASE cut < mid
    <3>1. PICK l : l = PutLeaf(low, cut, leaf, j + 1) OBVIOUS
    <3>2. PICK u : u = [keys |-> InsertAt(t.keys, i, mid),
                        kids |-> InsertAt(ReplaceAt(t.kids, i, l), i + 1, high)]
      OBVIOUS
    <3>3. PICK o : o = [q EXCEPT !.innerBound = mid] OBVIOUS
    <3>4. r = [t |-> u, p |-> o]
      <4>1. r = InnerInsert(t, q, cut, leaf, j + 1) BY <1>2, <1>4
      <4>2. q.root = i BY <1>6
      <4>3. cut < n.keys[MaxKeys + 1 - (MaxKeys + 1) \div 2] BY <2>2, <2>4, <2>14
      <4> QED BY ONLY <1>8, <1>12, <2>2, <2>4, <2>6, <2>7, <3>1, <3>2, <3>3, <4>1, <4>2, <4>3
              DEF InnerInsert
    <3>5. j <= c /\ key < mid BY <2>13, <2>14
    <3>6. Put(low, j, cut, leaf, l) BY <3>1 DEF Put
    <3>7. /\ NodeGood(l) /\ Len(l.keys) <= MaxKeys /\ NodeGood(high) /\ Len(high.keys) <= MaxKeys
          /\ \A k \in RowsOf(l) : k < n.keys[c]
          /\ \A k \in RowsOf(high) : n.keys[c] <= k
          /\ \A k \in ToSet(l.keys) : k <= n.keys[c] /\ (k \in ToSet(n.keys) \/ k = cut)
          /\ \A k \in ToSet(high.keys) : n.keys[c] <= k /\ k \in ToSet(n.keys)
          /\ \A k : k \in RowsOf(l) \/ k \in RowsOf(high) <=> k \in RowsOf(n) \/ k \in leaf.rows
          /\ l.kids[j] = n.kids[j] /\ l.kids[j + 1] = leaf
          /\ \A outer, b : \A k \in Nat : Leads(n.keys, outer, j, b, k) =>
               /\ k < cut => Leads(l.keys, n.keys[c], j, cut, k)
               /\ cut <= k => Leads(l.keys, n.keys[c], j + 1, b, k)
      BY ONLY <1>5, <1>10, <2>3, <2>8, <3>5, <3>6, cut \in Nat, leaf \in Leaves, LowPut
    <3>8. /\ \A k \in RowsOf(l) : InSlot(t.keys, i, k) /\ k < mid
          /\ \A k \in RowsOf(high) : InSlot(t.keys, i, k) /\ mid <= k
      BY ONLY <1>10, <2>4, <2>9, <3>7
    <3>9. /\ \A k \in ToSet(l.keys) : Between(t.keys, i, k) /\ k <= mid
          /\ \A k \in ToSet(high.keys) : Between(t.keys, i, k) /\ mid <= k
      BY ONLY <2>4, <2>9, <2>10, <3>7
    <3>10. Divided(t, i, mid, l, high, u) BY <3>2 DEF Divided
    <3>11. RowsOf(t.kids[i]) \subseteq RowsOf(l) \cup RowsOf(high) BY <1>8, <3>7
    <3>12. /\ TreeGood(u) /\ u.keys = InsertAt(t.keys, i, mid) /\ u.kids[i] = l /\ u.kids[i + 1] = high
           /\ Contents(u) = Contents(t) \cup RowsOf(l) \cup RowsOf(high)
      <4>1. /\ NodeGood(l) /\ Len(l.keys) <= MaxKeys /\ NodeGood(high) /\ Len(high.keys) <= MaxKeys
            /\ i \in 1 .. Len(t.keys) + 1
        BY <1>5, <3>7
      <4> QED BY ONLY <2>5, <2>11, <3>8, <3>9, <3>10, <3>11, <4>1, TreeGood(t), RootSplit
    <3>13. /\ o \in Paths /\ o.root = i /\ o.innerBound = mid /\ o.rowKey = key
           /\ o.inner = q.inner /\ o.leafBound = q.leafBound
      BY ONLY <1>6, <2>5, <3>3 DEF Paths
    <3>14. /\ key < cut => Leads(l.keys, mid, j, cut, key)
           /\ cut <= key => Leads(l.keys, mid, j + 1, p.leafBound, key)
      BY ONLY <1>5, <1>9, <2>4, <3>7
    <3>15. Leads(l.keys, mid, o.inner, o.leafBound, key)
      <4>1. key < cut \/ cut <= key BY ONLY <1>5, cut \in Nat
      <4> QED BY ONLY <1>6, <3>13, <3>14, <4>1
    <3>16. Fresh(u, o)
      <4>1. i \in 1 .. Len(t.keys) + 1 /\ key \in Nat /\ Leads(t.keys, MinKey, i, p.innerBound, key)
        BY <1>5, <1>9
      <4>2. u.keys = InsertAt(t.keys, i, mid) /\ u.kids[i] = l /\ u.kids[i + 1] = high BY <3>12
      <4> QED BY ONLY <2>5, <2>11, <3>5, <3>13, <3>15, <4>1, <4>2, TreeGood(t), RootSplitLow
    <3>17. \A k : k \in Contents(u) <=> k \in Contents(t) \/ k \in leaf.rows
      <4>1. \A k \in RowsOf(n) : k \in Contents(t) BY <1>5, <1>8, ContentsRows
      <4> QED BY ONLY <3>7, <3>12, <4>1
    <3>18. Reached(t, p, cut, leaf, r)
      <4>1. LeafAt(u, o) = l.kids[q.inner] BY ONLY <3>12, <3>13 DEF LeafAt
      <4>2. key < cut \/ (cut <= key /\ ~ (key < cut)) BY ONLY <1>5, cut \in Nat
      <4>3. l.kids[q.inner] = IF key < cut THEN n.kids[j] ELSE leaf BY ONLY <1>6, <3>7, <4>2
      <4>4. r.t = u /\ r.p = o BY ONLY <3>4
      <4> QED BY ONLY <1>3, <1>5, <4>1, <4>3, <4>4 DEF Reached
    <3> QED BY ONLY <1>3, <3>4, <3>12, <3>13, <3>16, <3>17, <3>18 DEF Grown
  <2>15. CASE ~ (cut < mid)
    <3>0. PICK b : b = j + 1 OBVIOUS
    <3>1. PICK h : h = PutLeaf(high, cut, leaf, b - c) OBVIOUS
    <3>2. PICK u : u = [keys |-> InsertAt(t.keys, i, mid),
                        kids |-> InsertAt(ReplaceAt(t.kids, i, low), i + 1, h)]
      OBVIOUS
    <3>3. PICK o : o = [root |-> q.root + 1, inner |-> q.inner - c, innerBound |-> q.innerBound,
                        leafBound |-> q.leafBound, rowKey |-> q.rowKey]
      OBVIOUS
    <3>4. r.t = u /\ r.p = o
      <4>1. r = InnerInsert(t, q, cut, leaf, b) BY <1>2, <1>4, <3>0
      <4>2. q.root = i BY <1>6
      <4>3. ~ (cut < n.keys[MaxKeys + 1 - (MaxKeys + 1) \div 2]) BY <2>2, <2>4, <2>15
      <4>4. n = t.kids[q.root] BY <1>8, <4>2
      <4>5. ~ (cut < t.kids[q.root].keys[c]) /\ ~ (Len(t.kids[q.root].keys) < MaxKeys)
        BY <1>12, <2>4, <2>15, <4>4
      <4> DEFINE node == t.kids[q.root]
                 lo == [keys |-> SubSeq(node.keys, 1, c - 1), kids |-> SubSeq(node.kids, 1, c)]
                 hi == [keys |-> SubSeq(node.keys, c + 1, MaxKeys),
                        kids |-> SubSeq(node.kids, c + 1, MaxKeys + 1)]
      <4>6. /\ InnerInsert(t, q, cut, leaf, b).t =
                  [keys |-> InsertAt(t.keys, q.root, node.keys[c]),
                   kids |-> InsertAt(ReplaceAt(t.kids, q.root, lo), q.root + 1,
                                     PutLeaf(hi, cut, leaf, b - c))]
            /\ InnerInsert(t, q, cut, leaf, b).p =
                  [root |-> q.root + 1, inner |-> q.inner - c, innerBound |-> q.innerBound,
                   leafBound |-> q.leafBound, rowKey |-> q.rowKey]
        <5>1. InnerInsert(t, q, cut, leaf, b).t =
                  [keys |-> InsertAt(t.keys, q.root, node.keys[c]),
                   kids |-> InsertAt(ReplaceAt(t.kids, q.root, lo), q.root + 1,
                                     PutLeaf(hi, cut, leaf, b - c))]
          BY ONLY <4>5 DEF InnerInsert, c
        <5>2. InnerInsert(t, q, cut, leaf, b).p =
                [root |-> q.root + 1, inner |-> q.inner - c, innerBound |-> q.innerBound,
                 leafBound |-> q.leafBound, rowKey |-> q.rowKey]
          <6>1. q \in Paths BY <1>6
          <6> QED BY ONLY <4>5, <6>1 DEF InnerInsert, Paths, c
        <5> QED BY <5>1, <5>2
      <4>7. node = n /\ lo = low /\ hi = high BY ONLY <2>6, <2>7, <4>4
      <4>8. PutLeaf(hi, cut, leaf, b - c) = h BY ONLY <3>1, <4>7
      <4>9. InsertAt(ReplaceAt(t.kids, q.root, lo), q.root + 1, PutLeaf(hi, cut, leaf, b - c))
              = InsertAt(ReplaceAt(t.kids, i, low), i + 1, h)
        BY ONLY <4>2, <4>7, <4>8
      <4>10. InsertAt(t.keys, q.root, node.keys[c]) = InsertAt(t.keys, i, mid)
        BY ONLY <2>4, <4>2, <4>7
      <4> HIDE DEF node, lo, hi
      <4> QED BY ONLY <3>2, <3>3, <4>1, <4>6, <4>9, <4>10
    <3>5. j > c /\ mid <= key BY <2>13, <2>15
    <3>6. Put(high, j - c, cut, leaf, h)
      <4>1. (j - c) + 1 = b - c BY <1>5, <2>3, <3>0
      <4> QED BY ONLY <3>1, <4>1 DEF Put
    <3>7. /\ NodeGood(low) /\ Len(low.keys) <= MaxKeys /\ NodeGood(h) /\ Len(h.keys) <= MaxKeys
          /\ \A k \in RowsOf(low) : k < n.keys[c]
          /\ \A k \in RowsOf(h) : n.keys[c] <= k
          /\ \A k \in ToSet(low.keys) : k <= n.keys[c] /\ k \in ToSet(n.keys)
          /\ \A k \in ToSet(h.keys) : n.keys[c] <= k /\ (k \in ToSet(n.keys) \/ k = cut)
          /\ \A k : k \in RowsOf(low) \/ k \in RowsOf(h) <=> k \in RowsOf(n) \/ k \in leaf.rows
          /\ h.kids[j - c] = n.kids[j] /\ h.kids[j - c + 1] = leaf
          /\ \A outer, x : \A k \in Nat : Leads(n.keys, outer, j, x, k) =>
               /\ k < cut => Leads(h.keys, outer, j - c, cut, k)
               /\ cut <= k => Leads(h.keys, outer, j - c + 1, x, k)
      BY ONLY <1>5, <1>10, <2>3, <2>8, <3>5, <3>6, cut \in Nat, leaf \in Leaves, HighPut
    <3>8. /\ \A k \in RowsOf(low) : InSlot(t.keys, i, k) /\ k < mid
          /\ \A k \in RowsOf(h) : InSlot(t.keys, i, k) /\ mid <= k
      BY ONLY <1>10, <2>4, <2>9, <3>7
    <3>9. /\ \A k \in ToSet(low.keys) : Between(t.keys, i, k) /\ k <= mid
          /\ \A k \in ToSet(h.keys) : Between(t.keys, i, k) /\ mid <= k
      BY ONLY <2>4, <2>9, <2>10, <3>7
    <3>10. Divided(t, i, mid, low, h, u) BY <3>2 DEF Divided
    <3>11. RowsOf(t.kids[i]) \subseteq RowsOf(low) \cup RowsOf(h) BY <1>8, <3>7
    <3>12. /\ TreeGood(u) /\ u.keys = InsertAt(t.keys, i, mid) /\ u.kids[i] = low /\ u.kids[i + 1] = h
           /\ Contents(u) = Contents(t) \cup RowsOf(low) \cup RowsOf(h)
      <4>1. /\ NodeGood(low) /\ Len(low.keys) <= MaxKeys /\ NodeGood(h) /\ Len(h.keys) <= MaxKeys
            /\ i \in 1 .. Len(t.keys) + 1
        BY <1>5, <3>7
      <4> QED BY ONLY <2>5, <2>11, <3>8, <3>9, <3>10, <3>11, <4>1, TreeGood(t), RootSplit
    <3>13. /\ o.root = i + 1 /\ o.innerBound = p.innerBound /\ o.rowKey = key
           /\ o.inner = q.inner - c /\ o.leafBound = q.leafBound
           /\ q.inner - c \in Nat => o \in Paths
      <4>1. q \in Paths /\ q.root = i /\ q.innerBound = p.innerBound /\ q.rowKey = key /\ i \in Nat
        BY <1>5, <1>6
      <4>2. o = [root |-> i + 1, inner |-> q.inner - c, innerBound |-> q.innerBound,
                 leafBound |-> q.leafBound, rowKey |-> q.rowKey]
        BY ONLY <3>3, <4>1
      <4>3. q.innerBound \in Nat /\ q.leafBound \in Nat /\ q.rowKey \in Keys BY ONLY <4>1 DEF Paths
      <4>4. i + 1 \in Nat BY <4>1
      <4> QED BY ONLY <4>1, <4>2, <4>3, <4>4 DEF Paths
    <3>14. /\ key < cut => Leads(h.keys, p.innerBound, j - c, cut, key)
           /\ cut <= key => Leads(h.keys, p.innerBound, j - c + 1, p.leafBound, key)
      BY ONLY <1>5, <1>9, <3>7
    <3>15. Leads(h.keys, p.innerBound, o.inner, o.leafBound, key) /\ o \in Paths
      <4>1. CASE key < cut
        <5>1. q.inner - c = j - c /\ q.inner - c \in Nat BY ONLY <1>5, <1>6, <2>3, <3>5, <4>1
        <5> QED BY ONLY <1>6, <3>13, <3>14, <4>1, <5>1
      <4>2. CASE cut <= key
        <5>1. q.inner - c = j - c + 1 /\ q.inner - c \in Nat BY ONLY <1>5, <1>6, <2>3, <3>5, <4>2
        <5> QED BY ONLY <1>6, <3>13, <3>14, <4>2, <5>1
      <4> QED BY ONLY <1>5, <4>1, <4>2, cut \in Nat
    <3>16. Fresh(u, o)
      <4>1. i \in 1 .. Len(t.keys) + 1 /\ key \in Nat /\ Leads(t.keys, MinKey, i, p.innerBound, key)
        BY <1>5, <1>9
      <4>2. u.keys = InsertAt(t.keys, i, mid) /\ u.kids[i] = low /\ u.kids[i + 1] = h BY <3>12
      <4> QED BY ONLY <2>5, <2>11, <3>5, <3>13, <3>15, <4>1, <4>2, TreeGood(t), RootSplitHigh
    <3>17. \A k : k \in Contents(u) <=> k \in Contents(t) \/ k \in leaf.rows
      <4>1. \A k \in RowsOf(n) : k \in Contents(t) BY <1>5, <1>8, ContentsRows
      <4> QED BY ONLY <3>7, <3>12, <4>1
    <3>18. Reached(t, p, cut, leaf, r)
      <4>1. LeafAt(u, o) = h.kids[q.inner - c] BY ONLY <3>12, <3>13 DEF LeafAt
      <4>2. key < cut \/ (cut <= key /\ ~ (key < cut)) BY ONLY <1>5, cut \in Nat
      <4>3. /\ key < cut => q.inner - c = j - c
            /\ cut <= key => q.inner - c = j - c + 1
        BY ONLY <1>5, <1>6, <2>3
      <4>4. h.kids[q.inner - c] = IF key < cut THEN n.kids[j] ELSE leaf
        BY ONLY <3>7, <4>2, <4>3
      <4> QED BY ONLY <1>3, <1>5, <3>4, <4>1, <4>4 DEF Reached
    <3> QED BY ONLY <1>3, <3>4, <3>12, <3>13, <3>16, <3>17, <3>18 DEF Grown
  <2> QED BY <2>14, <2>15
<1> QED BY <1>11, <1>12

-----------------------------------------------------------------------------
(* Rows in and out of a leaf.                                               *)

SetLeaf(t, p, leaf, u) == u = [t EXCEPT !.kids[p.root].kids[p.inner] = leaf]

LEMMA LeafReplaced ==
  ASSUME NEW t, TreeGood(t), NEW p, Fresh(t, p), NEW n, n = t.kids[p.root],
         NEW leaf \in Leaves,
         \A k \in leaf.rows : InSlot(t.keys, p.root, k) /\ InSlot(n.keys, p.inner, k),
         NEW u, SetLeaf(t, p, leaf, u)
  PROVE  /\ TreeGood(u) /\ Fresh(u, p)
         /\ u.keys = t.keys /\ u.kids[p.root].keys = n.keys /\ LeafAt(u, p) = leaf
         /\ Contents(u) = (Contents(t) \ LeafAt(t, p).rows) \cup leaf.rows
<1>1. PICK i : i = p.root OBVIOUS
<1>2. PICK j : j = p.inner OBVIOUS
<1>3. /\ p \in Paths /\ i \in 1 .. Len(t.keys) + 1 /\ i \in DOMAIN t.kids
      /\ NodeGood(n) /\ Len(n.keys) <= MaxKeys /\ j \in 1 .. Len(n.keys) + 1 /\ j \in DOMAIN n.kids
      /\ LeafAt(t, p) = n.kids[j]
  BY ONLY <1>1, <1>2, TreeGood(t), Fresh(t, p), n = t.kids[p.root], FreshFacts
<1>4. n \in Nodes /\ n.keys \in Seq(Nat) /\ n.kids \in Seq(Leaves) BY <1>3, NodeFacts DEF NodeGood
<1>5. t \in Trees /\ Len(t.kids) = Len(t.keys) + 1 /\ t.kids \in Seq(Nodes) /\ n = t.kids[i]
  BY <1>1, TreeFacts DEF TreeGood
<1>6. PICK kids : kids = [n.kids EXCEPT ![j] = leaf] OBVIOUS
<1>7. PICK m : m = [keys |-> n.keys, kids |-> kids] OBVIOUS
<1>8. /\ kids \in Seq(Leaves) /\ Len(kids) = Len(n.kids) /\ kids[j] = leaf
      /\ \A x \in 1 .. Len(n.keys) + 1 : x # j => kids[x] = n.kids[x]
  <2>1. DOMAIN n.kids = 1 .. Len(n.keys) + 1 BY <1>3, NodeFacts
  <2> QED BY ONLY <1>3, <1>4, <1>6, <2>1, leaf \in Leaves
<1>9. m.keys = n.keys /\ m.kids = kids /\ m \in Nodes BY ONLY <1>4, <1>7, <1>8 DEF Nodes
<1>10. NodeGood(m) /\ RowsOf(m) = (RowsOf(n) \ n.kids[j].rows) \cup leaf.rows
  <2>1. m.keys = n.keys /\ Len(m.kids) = Len(n.kids)
        /\ \A x \in 1 .. Len(n.keys) + 1 : x # j => m.kids[x].rows = n.kids[x].rows
    BY ONLY <1>8, <1>9
  <2>2. m.kids[j] = leaf BY ONLY <1>8, <1>9
  <2>3. \A k \in m.kids[j].rows : InSlot(n.keys, j, k) BY <1>2, <2>2
  <2>4. NodeGood(m) /\ RowsOf(m) = (RowsOf(n) \ n.kids[j].rows) \cup m.kids[j].rows
    BY ONLY <1>3, <1>9, <2>1, <2>3, NodeReplaced
  <2> QED BY ONLY <2>2, <2>4
<1>11. SetKid(t, i, m, u)
  <2>1. u = [t EXCEPT !.kids[i] = [@ EXCEPT !.kids[j] = leaf]] BY ONLY <1>1, <1>2, SetLeaf(t, p, leaf, u) DEF SetLeaf
  <2>2. [n EXCEPT !.kids[j] = leaf] = m
    <3>1. n = [keys |-> n.keys, kids |-> n.kids] BY ONLY <1>4 DEF Nodes
    <3>2. [n EXCEPT !.kids = kids] = m BY ONLY <1>7, <3>1
    <3> QED BY ONLY <1>6, <3>2
  <2>3. u = [t EXCEPT !.kids[i] = [n EXCEPT !.kids[j] = leaf]] BY ONLY <1>3, <1>5, <2>1
  <2> QED BY ONLY <2>2, <2>3 DEF SetKid
<1>12. /\ u \in Trees /\ u.keys = t.keys /\ Len(u.kids) = Len(t.kids)
       /\ \A x \in 1 .. Len(t.keys) + 1 : x # i => u.kids[x] = t.kids[x]
       /\ u.kids[i] = m
  BY ONLY <1>3, <1>5, <1>9, <1>11, KidReplaced
<1>13. /\ \A k \in RowsOf(n) : InSlot(t.keys, i, k)
       /\ \A k \in ToSet(n.keys) : Between(t.keys, i, k)
  BY <1>3, <1>5, TreeFacts
<1>14. \A k \in RowsOf(u.kids[i]) : InSlot(t.keys, i, k)
  <2>1. \A k \in leaf.rows : InSlot(t.keys, i, k) BY <1>1
  <2> QED BY ONLY <1>10, <1>12, <1>13, <2>1
<1>15. \A k \in ToSet(u.kids[i].keys) : Between(t.keys, i, k) BY ONLY <1>9, <1>12, <1>13
<1>16. NodeGood(u.kids[i]) /\ Len(u.kids[i].keys) <= MaxKeys BY ONLY <1>3, <1>9, <1>10, <1>12
<1>17. TreeGood(u) /\ Contents(u) = (Contents(t) \ RowsOf(t.kids[i])) \cup RowsOf(u.kids[i])
  BY ONLY <1>3, <1>12, <1>14, <1>15, <1>16, TreeGood(t), TreeReplaced
<1>18. Contents(u) = (Contents(t) \ LeafAt(t, p).rows) \cup leaf.rows
  <2>1. \A k \in RowsOf(n) : k \in Contents(t) BY <1>3, <1>5, ContentsRows
  <2>2. \A k \in n.kids[j].rows : k \in RowsOf(n) BY <1>3, NodeFacts
  <2> QED BY ONLY <1>3, <1>5, <1>10, <1>12, <1>17, <2>1, <2>2
<1>19. u.kids[p.root].keys = n.keys /\ LeafAt(u, p) = leaf
  BY ONLY <1>1, <1>2, <1>8, <1>9, <1>12 DEF LeafAt
<1>20. Fresh(u, p) BY <1>12, <1>19 DEF Fresh
<1> QED BY <1>12, <1>17, <1>18, <1>19, <1>20

LEMMA SizeFacts ==
  /\ MaxRows \in Nat /\ MinRows \in Nat /\ MinRows >= 1 /\ MinRows + MinRows + MinRows <= MaxRows
  /\ \A leaf \in Leaves : Size(leaf) \in Nat /\ Size(leaf) <= MaxRows
<1>1. MaxRows \in Nat /\ MaxRows >= 4 BY ConstantsAssumption DEF MaxRows
<1>2. MinRows \in Nat /\ MinRows >= 1 /\ MinRows + MinRows + MinRows <= MaxRows
  BY ONLY <1>1 DEF MinRows
<1>3. \A leaf \in Leaves : Size(leaf) \in Nat /\ Size(leaf) <= MaxRows
  BY FS_CardinalityType DEF Leaves, Size
<1> QED BY <1>1, <1>2, <1>3

\* Some of the rows of a leaf fit into one.
LEMMA PartFits ==
  ASSUME NEW leaf \in Leaves, NEW S, S \subseteq leaf.rows
  PROVE  IsFiniteSet(S) /\ Cardinality(S) <= MaxRows
<1>1. IsFiniteSet(leaf.rows) /\ Cardinality(leaf.rows) <= MaxRows BY DEF Leaves
<1>2. IsFiniteSet(S) /\ Cardinality(S) <= Cardinality(leaf.rows) BY ONLY <1>1, FS_Subset, S \subseteq leaf.rows
<1>3. Cardinality(S) \in Nat /\ Cardinality(leaf.rows) \in Nat BY ONLY <1>1, <1>2, FS_CardinalityType
<1> QED BY ONLY <1>1, <1>2, <1>3, SizeFacts

\* The row of a search is nowhere but in the leaf that it finds.
LEMMA RowFound ==
  ASSUME NEW t, TreeGood(t), NEW p, Fresh(t, p)
  PROVE  p.rowKey \in Contents(t) <=> p.rowKey \in LeafAt(t, p).rows
<1>1. PICK n : n = t.kids[p.root] OBVIOUS
<1>2. PICK key : key = p.rowKey OBVIOUS
<1>3. /\ key \in Nat /\ p.root \in 1 .. Len(t.keys) + 1 /\ NodeGood(n)
      /\ p.inner \in 1 .. Len(n.keys) + 1 /\ LeafAt(t, p) = n.kids[p.inner]
  BY ONLY <1>1, <1>2, TreeGood(t), Fresh(t, p), FreshFacts
<1>4. InSlot(t.keys, p.root, key) /\ InSlot(n.keys, p.inner, key) BY <1>1, <1>2 DEF Fresh, Leads
<1>5. ASSUME key \in Contents(t) PROVE key \in n.kids[p.inner].rows
  <2>1. PICK i \in 1 .. Len(t.keys) + 1 : key \in RowsOf(t.kids[i]) BY <1>5, ContentsRows
  <2>2. InSlot(t.keys, i, key) BY <2>1, TreeFacts
  <2>3. i = p.root
    <3>1. t.keys \in Seq(Nat) /\ Ascending(t.keys) BY TreeFacts
    <3> QED BY ONLY <1>3, <1>4, <2>2, <3>1, SlotUnique
  <2>4. key \in RowsOf(n) BY <1>1, <2>1, <2>3
  <2>5. PICK j \in 1 .. Len(n.keys) + 1 : key \in n.kids[j].rows BY <1>3, <2>4, NodeFacts
  <2>6. InSlot(n.keys, j, key) BY <1>3, <2>5, NodeFacts
  <2>7. j = p.inner
    <3>1. n.keys \in Seq(Nat) /\ Ascending(n.keys) BY <1>3, NodeFacts
    <3> QED BY ONLY <1>3, <1>4, <2>6, <3>1, SlotUnique
  <2> QED BY <2>5, <2>7
<1>6. ASSUME key \in n.kids[p.inner].rows PROVE key \in Contents(t)
  <2>1. key \in RowsOf(n) BY <1>3, <1>6, NodeFacts
  <2> QED BY <1>1, <1>3, <2>1, ContentsRows
<1> QED BY <1>2, <1>3, <1>5, <1>6

LEMMA LeafInserted ==
  ASSUME NEW t, TreeGood(t), NEW p, Fresh(t, p), NEW key, key = p.rowKey,
         Size(LeafAt(t, p)) < MaxRows,
         NEW u, u = LeafInsert(t, p, key)
  PROVE  TreeGood(u) /\ Fresh(u, p) /\ Contents(u) = Contents(t) \cup {key}
<1>1. PICK n : n = t.kids[p.root] OBVIOUS
<1>2. PICK rows : rows = LeafAt(t, p).rows OBVIOUS
<1>3. PICK leaf : leaf = [rows |-> rows \cup {key}, order |-> "unsorted"] OBVIOUS
<1>4. /\ p.root \in 1 .. Len(t.keys) + 1 /\ p.root \in DOMAIN t.kids
      /\ NodeGood(n) /\ p.inner \in 1 .. Len(n.keys) + 1 /\ p.inner \in DOMAIN n.kids
      /\ LeafAt(t, p) = n.kids[p.inner] /\ LeafAt(t, p) \in Leaves /\ key \in Keys
  BY ONLY <1>1, TreeGood(t), Fresh(t, p), key = p.rowKey, FreshFacts
<1>5. leaf \in Leaves
  <2>1. rows \in SUBSET Keys /\ IsFiniteSet(rows) BY <1>2, <1>4 DEF Leaves
  <2>2. /\ IsFiniteSet(rows \cup {key})
        /\ Cardinality(rows \cup {key}) = Cardinality(rows)
           \/ Cardinality(rows \cup {key}) = Cardinality(rows) + 1
    BY ONLY <2>1, FS_AddElement
  <2>3. "unsorted" \in Orders BY DEF Orders
  <2>4. Cardinality(rows) < MaxRows BY <1>2 DEF Size
  <2>5. Cardinality(rows \cup {key}) <= MaxRows
    BY ONLY <2>1, <2>2, <2>4, FS_CardinalityType, ConstantsAssumption DEF MaxRows
  <2> QED BY ONLY <1>3, <1>4, <2>1, <2>2, <2>3, <2>5 DEF Leaves
<1>6. \A k \in rows : InSlot(t.keys, p.root, k) /\ InSlot(n.keys, p.inner, k)
  <2>1. \A k \in rows : InSlot(n.keys, p.inner, k) /\ k \in RowsOf(n) BY <1>2, <1>4, NodeFacts
  <2> QED BY <1>1, <1>4, <2>1, TreeFacts
<1>7. \A k \in leaf.rows : InSlot(t.keys, p.root, k) /\ InSlot(n.keys, p.inner, k)
  <2>1. InSlot(t.keys, p.root, key) /\ InSlot(n.keys, p.inner, key) BY <1>1 DEF Fresh, Leads
  <2> QED BY ONLY <1>3, <1>6, <2>1
<1>8. SetLeaf(t, p, leaf, u)
  <2>1. u = [t EXCEPT !.kids[p.root].kids[p.inner] = [rows |-> @.rows \cup {key}, order |-> "unsorted"]]
    BY DEF LeafInsert
  <2>2. t.kids[p.root].kids[p.inner].rows = rows BY <1>2 DEF LeafAt
  <2> QED BY <1>3, <2>1, <2>2 DEF SetLeaf
<1>9. /\ TreeGood(u) /\ Fresh(u, p)
      /\ Contents(u) = (Contents(t) \ LeafAt(t, p).rows) \cup leaf.rows
  BY ONLY <1>1, <1>5, <1>7, <1>8, TreeGood(t), Fresh(t, p), LeafReplaced
<1>10. \A k \in rows : k \in Contents(t)
  <2>1. \A k \in rows : k \in RowsOf(n) BY <1>2, <1>4, NodeFacts
  <2> QED BY <1>1, <1>4, <2>1, ContentsRows
<1> QED BY ONLY <1>2, <1>3, <1>9, <1>10

LEMMA LeafErased ==
  ASSUME NEW t, TreeGood(t), NEW p, Fresh(t, p), NEW key, key = p.rowKey,
         NEW u, u = LeafErase(t, p, key)
  PROVE  TreeGood(u) /\ Fresh(u, p) /\ Contents(u) = Contents(t) \ {key}
<1>1. CASE key \notin LeafAt(t, p).rows
  <2>1. u = t BY <1>1 DEF LeafErase
  <2>2. key \notin Contents(t) BY <1>1, RowFound
  <2> QED BY <2>1, <2>2
<1>2. CASE key \in LeafAt(t, p).rows
  <2>1. PICK n : n = t.kids[p.root] OBVIOUS
  <2>2. PICK rows : rows = LeafAt(t, p).rows OBVIOUS
  <2>3. PICK leaf : leaf = [rows |-> rows \ {key}, order |-> "unsorted"] OBVIOUS
  <2>4. /\ p.root \in 1 .. Len(t.keys) + 1 /\ p.root \in DOMAIN t.kids
        /\ NodeGood(n) /\ p.inner \in 1 .. Len(n.keys) + 1 /\ p.inner \in DOMAIN n.kids
        /\ LeafAt(t, p) = n.kids[p.inner] /\ LeafAt(t, p) \in Leaves
    BY ONLY <2>1, TreeGood(t), Fresh(t, p), FreshFacts
  <2>5. leaf \in Leaves
    <3>1. rows \in SUBSET Keys /\ IsFiniteSet(rows) BY <2>2, <2>4 DEF Leaves
    <3>2. IsFiniteSet(rows \ {key}) /\ Cardinality(rows \ {key}) <= MaxRows
      BY ONLY <2>2, <2>4, PartFits, rows \ {key} \subseteq rows
    <3>3. "unsorted" \in Orders BY DEF Orders
    <3> QED BY ONLY <2>3, <3>1, <3>2, <3>3 DEF Leaves
  <2>6. \A k \in rows : InSlot(t.keys, p.root, k) /\ InSlot(n.keys, p.inner, k) /\ k \in Contents(t)
    <3>1. \A k \in rows : InSlot(n.keys, p.inner, k) /\ k \in RowsOf(n) BY <2>2, <2>4, NodeFacts
    <3> QED BY <2>1, <2>4, <3>1, TreeFacts, ContentsRows
  <2>7. \A k \in leaf.rows : InSlot(t.keys, p.root, k) /\ InSlot(n.keys, p.inner, k)
    BY ONLY <2>3, <2>6
  <2>8. SetLeaf(t, p, leaf, u)
    <3>1. u = [t EXCEPT !.kids[p.root].kids[p.inner] = [rows |-> @.rows \ {key}, order |-> "unsorted"]]
      BY <1>2 DEF LeafErase
    <3>2. t.kids[p.root].kids[p.inner].rows = rows BY <2>2 DEF LeafAt
    <3> QED BY <2>3, <3>1, <3>2 DEF SetLeaf
  <2>9. /\ TreeGood(u) /\ Fresh(u, p)
        /\ Contents(u) = (Contents(t) \ LeafAt(t, p).rows) \cup leaf.rows
    BY ONLY <2>1, <2>5, <2>7, <2>8, TreeGood(t), Fresh(t, p), LeafReplaced
  <2> QED BY ONLY <1>2, <2>2, <2>3, <2>6, <2>9
<1> QED BY <1>1, <1>2

-----------------------------------------------------------------------------
(* Splitting a leaf.                                                       *)

\* The row of the path fits into its leaf.
HasRoom(s) == Size(LeafAt(s.t, s.p)) < MaxRows

LEMMA CutsFacts ==
  ASSUME NEW rows, NEW minLeft, NEW minRight
  PROVE  Cuts(rows, minLeft, minRight) \subseteq rows
BY DEF Cuts

\* A finite nonempty set of naturals has a largest element, which Max chooses.
LEMMA Largest ==
  ASSUME NEW S \in SUBSET Nat, IsFiniteSet(S), S # {}
  PROVE  Max(S) \in S /\ \A k \in S : k <= Max(S)
<1> DEFINE Above(x) == {y \in S : x < y}
<1>1. \A x \in S : IsFiniteSet(Above(x)) /\ Cardinality(Above(x)) \in Nat
  BY FS_Subset, FS_CardinalityType
<1>2. PICK C : C = {Cardinality(Above(x)) : x \in S} OBVIOUS
<1>3. Min(C) \in C /\ \A c \in C : Min(C) <= c
  <2>1. C \in SUBSET Nat /\ C # {} BY <1>1, <1>2
  <2> QED BY ONLY <2>1, Smallest
<1>4. PICK x \in S : \A y \in S : Cardinality(Above(x)) <= Cardinality(Above(y))
  BY <1>2, <1>3
<1>5. ASSUME NEW y \in S, x < y PROVE FALSE
  <2>0. \A z \in S : z \in Nat OBVIOUS
  <2>1. Above(y) \subseteq Above(x) /\ y \in Above(x) /\ y \notin Above(y)
    <3>1. \A z \in S : y < z => x < z BY ONLY <1>5, <2>0, x \in S
    <3>2. ~ (y < y) BY ONLY <1>5, <2>0
    <3> QED BY ONLY <1>5, <3>1, <3>2
  <2>2. Cardinality(Above(y)) < Cardinality(Above(x))
    <3>1. Above(y) # Above(x) BY <2>1
    <3> QED BY ONLY <1>1, <2>1, <3>1, FS_Subset, x \in S
  <2>3. Cardinality(Above(x)) <= Cardinality(Above(y)) BY <1>4, <1>5
  <2>4. Cardinality(Above(x)) \in Nat /\ Cardinality(Above(y)) \in Nat BY <1>1, <1>5
  <2> HIDE DEF Above
  <2> QED BY ONLY <2>2, <2>3, <2>4
<1>6. \A y \in S : x >= y BY <1>5
<1> QED BY <1>6 DEF Max

\* Where there are enough rows, a cut leaves enough of them on both sides.
LEMMA CutsLeaveEnough ==
  ASSUME NEW rows \in SUBSET Nat, IsFiniteSet(rows),
         NEW minLeft \in Nat, NEW minRight \in Nat,
         minLeft + minRight <= Cardinality(rows), minLeft < Cardinality(rows),
         NEW cut \in Cuts(rows, minLeft, minRight)
  PROVE  LET left == Cardinality({r \in rows : r < cut})
             right == Cardinality({r \in rows : r >= cut})
         IN  /\ left \in Nat /\ right \in Nat /\ left + right = Cardinality(rows)
             /\ left >= minLeft /\ right >= minRight
<1> DEFINE Lower(k) == {r \in rows : r < k}
           From(k) == {r \in rows : r >= k}
           size == Cardinality(rows)
           enough == {k \in rows : Cardinality(Lower(k)) >= minLeft /\ Cardinality(From(k)) >= minRight}
<1>1. \A k \in rows : /\ IsFiniteSet(Lower(k)) /\ IsFiniteSet(From(k))
                      /\ Cardinality(Lower(k)) \in Nat /\ Cardinality(From(k)) \in Nat
  BY FS_Subset, FS_CardinalityType
<1>2. size \in Nat BY FS_CardinalityType
<1>3. /\ \A k, r : r \in Lower(k) <=> r \in rows /\ r < k
      /\ \A k, r : r \in From(k) <=> r \in rows /\ r >= k
      /\ \A k : k \in enough <=> /\ k \in rows /\ Cardinality(Lower(k)) >= minLeft
                                /\ Cardinality(From(k)) >= minRight
  OBVIOUS
<1>4. \A k, r \in rows : r \in Nat /\ k \in Nat /\ (r < k \/ r >= k) /\ ~ (r < k /\ r >= k) OBVIOUS
<1>5. cut \in IF enough # {} THEN enough ELSE rows
  BY ONLY cut \in Cuts(rows, minLeft, minRight) DEF Cuts
<1> HIDE DEF Lower, From, enough
<1>6. ASSUME NEW k \in rows PROVE Cardinality(Lower(k)) + Cardinality(From(k)) = size
  <2>1. Lower(k) \cap From(k) = {} /\ Lower(k) \cup From(k) = rows
    BY ONLY <1>3, <1>4, k \in rows
  <2>2. Cardinality(Lower(k) \cup From(k))
          = Cardinality(Lower(k)) + Cardinality(From(k)) - Cardinality(Lower(k) \cap From(k))
    BY ONLY <1>1, k \in rows, FS_Union
  <2>3. Cardinality({}) = 0 BY FS_EmptySet
  <2>4. Cardinality(Lower(k)) \in Nat /\ Cardinality(From(k)) \in Nat BY <1>1
  <2>5. Cardinality(Lower(k) \cap From(k)) = 0 BY ONLY <2>1, <2>3
  <2>6. Cardinality(Lower(k) \cup From(k)) = size BY ONLY <2>1
  <2> QED BY ONLY <1>2, <2>2, <2>4, <2>5, <2>6
<1>7. enough # {}
  <2>1. PICK G : G = {k \in rows : Cardinality(Lower(k)) >= minLeft} OBVIOUS
  <2>2. G # {}
    <3>1. rows # {} BY <1>2, FS_EmptySet
    <3>2. Max(rows) \in rows /\ \A k \in rows : k <= Max(rows) BY <3>1, Largest
    <3>3. PICK m : m = Max(rows) OBVIOUS
    <3>4. \A k \in rows : k >= m => k = m
      <4>1. m \in Nat /\ \A k \in rows : k \in Nat /\ k <= m BY ONLY <3>2, <3>3, rows \in SUBSET Nat
      <4> QED BY ONLY <4>1
    <3>5. m \in rows /\ m >= m BY ONLY <1>4, <3>2, <3>3
    <3>6. From(m) = {m} BY ONLY <1>3, <3>4, <3>5
    <3>7. Cardinality(From(m)) = 1 BY ONLY <3>6, FS_Singleton
    <3>8. Cardinality(Lower(m)) + Cardinality(From(m)) = size /\ Cardinality(Lower(m)) \in Nat
      BY ONLY <1>1, <1>6, <3>5
    <3>9. Cardinality(Lower(m)) >= minLeft
      BY ONLY <1>2, <3>7, <3>8, minLeft < Cardinality(rows), minLeft \in Nat
    <3> QED BY ONLY <2>1, <3>5, <3>9
  <2>3. G \in SUBSET Nat BY ONLY <2>1, rows \in SUBSET Nat
  <2>4. Min(G) \in G /\ \A k \in G : Min(G) <= k BY ONLY <2>2, <2>3, Smallest
  <2>5. PICK k \in rows : /\ Cardinality(Lower(k)) >= minLeft
                          /\ \A x \in rows : Cardinality(Lower(x)) >= minLeft => k <= x
    BY ONLY <2>1, <2>4
  <2>6. Cardinality(Lower(k)) = minLeft
    <3>1. ASSUME Cardinality(Lower(k)) > minLeft PROVE FALSE
      <4>1. PICK B : B = Lower(k) OBVIOUS
      <4>2. IsFiniteSet(B) /\ Cardinality(B) \in Nat /\ Cardinality(B) > minLeft BY ONLY <1>1, <3>1, <4>1
      <4>3. B # {}
        <5>1. Cardinality({}) = 0 BY FS_EmptySet
        <5> QED BY ONLY <4>2, <5>1, minLeft \in Nat
      <4>4. \A r : r \in B <=> r \in rows /\ r < k BY ONLY <1>3, <4>1
      <4>5. B \in SUBSET Nat BY ONLY <4>4, rows \in SUBSET Nat
      <4>6. Max(B) \in B /\ \A x \in B : x <= Max(B) BY ONLY <4>2, <4>3, <4>5, Largest
      <4>7. PICK m : m = Max(B) OBVIOUS
      <4>8. m \in B /\ m \in rows /\ m < k BY ONLY <4>4, <4>6, <4>7
      <4>9. \A r : r \in Lower(m) <=> r \in B /\ r # m
        <5>1. \A r \in rows : (r < m => r < k) /\ (r < m <=> r <= m /\ r # m)
          BY ONLY <1>4, <4>8, k \in rows
        <5>2. \A r \in B : r <= m BY ONLY <4>6, <4>7
        <5> QED BY ONLY <1>3, <4>4, <5>1, <5>2
      <4>10. Lower(m) = B \ {m} BY ONLY <4>9
      <4>11. Cardinality(Lower(m)) = Cardinality(B) - 1
        BY ONLY <4>2, <4>8, <4>10, FS_RemoveElement
      <4>12. Cardinality(Lower(m)) >= minLeft BY ONLY <4>2, <4>11, minLeft \in Nat
      <4>13. k <= m BY ONLY <2>5, <4>8, <4>12
      <4> QED BY ONLY <1>4, <4>8, <4>13, k \in rows
    <3>2. Cardinality(Lower(k)) \in Nat BY <1>1
    <3> QED BY ONLY <2>5, <3>1, <3>2, minLeft \in Nat
  <2>7. Cardinality(From(k)) >= minRight
    <3>1. Cardinality(Lower(k)) + Cardinality(From(k)) = size /\ Cardinality(From(k)) \in Nat
      BY ONLY <1>1, <1>6, k \in rows
    <3> QED BY ONLY <1>2, <2>6, <3>1, minLeft \in Nat, minRight \in Nat,
                    minLeft + minRight <= Cardinality(rows)
  <2> QED BY ONLY <1>3, <2>5, <2>7
<1>8. cut \in rows /\ Cardinality(Lower(cut)) >= minLeft /\ Cardinality(From(cut)) >= minRight
  BY ONLY <1>3, <1>5, <1>7
<1>9. /\ Cardinality(Lower(cut)) \in Nat /\ Cardinality(From(cut)) \in Nat
      /\ Cardinality(Lower(cut)) + Cardinality(From(cut)) = size
  BY ONLY <1>1, <1>6, <1>8
<1> QED BY ONLY <1>8, <1>9 DEF Lower, From

\* A leaf is cut in two.
LEMMA SplitLeafGrows ==
  ASSUME NEW t, TreeGood(t), NEW p, Fresh(t, p), Full(LeafAt(t, p)),
         NEW r \in SplitLeaf(t, p, p.rowKey)
  PROVE  Grown(t, p, r, {}) /\ HasRoom(r)
<1>1. PICK n : n = t.kids[p.root] OBVIOUS
<1>2. PICK leaf : leaf = LeafAt(t, p) OBVIOUS
<1>3. PICK cut \in Cuts(leaf.rows, MinRows, MinRows) :
        r = InnerInsert([t EXCEPT !.kids[p.root].kids[p.inner] =
                          [leaf EXCEPT !.rows = {k \in leaf.rows : k < cut}]],
                        Onward(p, cut), cut,
                        [leaf EXCEPT !.rows = {k \in leaf.rows : k >= cut}], p.inner + 1)
  BY <1>2 DEF SplitLeaf, Onward
<1>4. PICK low : low = [leaf EXCEPT !.rows = {k \in leaf.rows : k < cut}] OBVIOUS
<1>5. PICK high : high = [leaf EXCEPT !.rows = {k \in leaf.rows : k >= cut}] OBVIOUS
<1>6. PICK u : SetLeaf(t, p, low, u) BY DEF SetLeaf
<1>7. r = InnerInsert(u, Onward(p, cut), cut, high, p.inner + 1)
  BY ONLY <1>3, <1>4, <1>5, <1>6 DEF SetLeaf
<1>8. /\ p.root \in 1 .. Len(t.keys) + 1 /\ NodeGood(n) /\ p.inner \in 1 .. Len(n.keys) + 1
      /\ leaf = n.kids[p.inner] /\ leaf \in Leaves
  BY ONLY <1>1, <1>2, TreeGood(t), Fresh(t, p), FreshFacts
<1>9. cut \in leaf.rows BY CutsFacts
<1>10. \A k \in leaf.rows : /\ k \in Nat /\ k \in Contents(t)
                            /\ InSlot(t.keys, p.root, k) /\ InSlot(n.keys, p.inner, k)
  <2>1. \A k \in leaf.rows : InSlot(n.keys, p.inner, k) /\ k \in RowsOf(n) BY <1>8, NodeFacts
  <2> QED BY <1>1, <1>8, <2>1, TreeFacts, ContentsRows
<1>11. /\ low.rows = {k \in leaf.rows : k < cut} /\ high.rows = {k \in leaf.rows : k >= cut}
       /\ low \in Leaves /\ high \in Leaves
  <2>1. leaf = [rows |-> leaf.rows, order |-> leaf.order] /\ leaf.rows \in SUBSET Keys
        /\ leaf.order \in Orders /\ IsFiniteSet(leaf.rows)
    BY <1>8 DEF Leaves
  <2>2. low = [rows |-> {k \in leaf.rows : k < cut}, order |-> leaf.order]
        /\ high = [rows |-> {k \in leaf.rows : k >= cut}, order |-> leaf.order]
    BY ONLY <1>4, <1>5, <2>1
  <2>3. /\ IsFiniteSet({k \in leaf.rows : k < cut})
        /\ Cardinality({k \in leaf.rows : k < cut}) <= MaxRows
    BY ONLY <1>8, PartFits, {k \in leaf.rows : k < cut} \subseteq leaf.rows
  <2>4. /\ IsFiniteSet({k \in leaf.rows : k >= cut})
        /\ Cardinality({k \in leaf.rows : k >= cut}) <= MaxRows
    BY ONLY <1>8, PartFits, {k \in leaf.rows : k >= cut} \subseteq leaf.rows
  <2> QED BY ONLY <2>1, <2>2, <2>3, <2>4 DEF Leaves
<1>12. \A k \in low.rows : InSlot(t.keys, p.root, k) /\ InSlot(n.keys, p.inner, k)
  BY ONLY <1>10, <1>11
<1>13. /\ TreeGood(u) /\ Fresh(u, p)
       /\ u.keys = t.keys /\ u.kids[p.root].keys = n.keys /\ LeafAt(u, p) = low
       /\ Contents(u) = (Contents(t) \ leaf.rows) \cup low.rows
  BY ONLY <1>1, <1>2, <1>6, <1>11, <1>12, TreeGood(t), Fresh(t, p), LeafReplaced
<1>14. PICK m : m = u.kids[p.root] OBVIOUS
<1>15. m.kids[p.inner].rows = low.rows BY ONLY <1>13, <1>14 DEF LeafAt
<1>16. Grown(u, p, r, high.rows) /\ Reached(u, p, cut, high, r)
  <2>1. cut \in Nat /\ InSlot(u.keys, p.root, cut) /\ InSlot(m.keys, p.inner, cut)
    BY ONLY <1>9, <1>10, <1>13, <1>14
  <2>2. \A k \in m.kids[p.inner].rows : k < cut BY ONLY <1>11, <1>15
  <2>3. \A k \in high.rows : InSlot(u.keys, p.root, k) /\ InSlot(m.keys, p.inner, k) /\ cut <= k
    <3>1. \A k \in high.rows : cut <= k BY <1>9, <1>10, <1>11
    <3> QED BY ONLY <1>10, <1>11, <1>13, <1>14, <3>1
  <2> QED BY ONLY <1>7, <1>11, <1>13, <1>14, <2>1, <2>2, <2>3, InnerInsertGrows
<1>17. \A k \in leaf.rows : k \in low.rows \/ k \in high.rows
  BY <1>9, <1>10, <1>11
<1>18. HasRoom(r)
  <2>1. leaf.rows \in SUBSET Nat /\ IsFiniteSet(leaf.rows) BY <1>8, <1>10 DEF Leaves
  <2>2. Cardinality(leaf.rows) = MaxRows BY <1>2 DEF Full, Size
  <2>3. /\ Cardinality(low.rows) >= MinRows /\ Cardinality(high.rows) >= MinRows
        /\ Cardinality(low.rows) + Cardinality(high.rows) = MaxRows
        /\ Cardinality(low.rows) \in Nat /\ Cardinality(high.rows) \in Nat
    <3>1. MinRows + MinRows <= Cardinality(leaf.rows) /\ MinRows < Cardinality(leaf.rows)
      BY ONLY <2>2, SizeFacts
    <3>2. MinRows \in Nat BY SizeFacts
    <3>3. LET left == Cardinality({k \in leaf.rows : k < cut})
              right == Cardinality({k \in leaf.rows : k >= cut})
          IN  /\ left \in Nat /\ right \in Nat /\ left + right = Cardinality(leaf.rows)
              /\ left >= MinRows /\ right >= MinRows
      BY ONLY <1>3, <2>1, <3>1, <3>2, CutsLeaveEnough
    <3> QED BY ONLY <1>11, <2>2, <3>3
  <2>4. LeafAt(r.t, r.p) = low \/ LeafAt(r.t, r.p) = high BY ONLY <1>13, <1>16 DEF Reached
  <2> QED BY ONLY <2>3, <2>4, SizeFacts DEF HasRoom, Size
<1> QED
  <2>1. \A k : k \in Contents(r.t) <=> k \in Contents(t)
    BY ONLY <1>10, <1>11, <1>13, <1>16, <1>17 DEF Grown
  <2> QED BY ONLY <1>16, <1>18, <2>1 DEF Grown

LEMMA EmptyLeafFacts == EmptyLeaf \in Leaves /\ EmptyLeaf.rows = {} /\ Size(EmptyLeaf) < MaxRows
<1>1. IsFiniteSet({}) /\ Cardinality({}) = 0 BY FS_EmptySet
<1>2. 0 < MaxRows BY SizeFacts
<1>3. EmptyLeaf.rows = {} BY DEF EmptyLeaf
<1>4. Size(EmptyLeaf) = 0 BY <1>1, <1>3 DEF Size
<1>5. Cardinality(EmptyLeaf.rows) <= MaxRows BY ONLY <1>1, <1>2, <1>3, SizeFacts
<1>6. EmptyLeaf \in [rows : SUBSET Keys, order : Orders] BY DEF EmptyLeaf, Orders
<1>7. EmptyLeaf \in Leaves BY ONLY <1>1, <1>3, <1>5, <1>6 DEF Leaves
<1> QED BY ONLY <1>2, <1>3, <1>4, <1>7

\* An empty leaf is begun after one whose rows are all below the next key.
LEMMA LeafBegunGrows ==
  ASSUME NEW t, TreeGood(t), NEW p, Fresh(t, p), NEW key, key = p.rowKey,
         \A k \in LeafAt(t, p).rows : k < key,
         NEW r, r = UnsafeSplitLeafUnbalanced(t, p, key)
  PROVE  Grown(t, p, r, {}) /\ HasRoom(r)
<1>1. PICK n : n = t.kids[p.root] OBVIOUS
<1>2. /\ key \in Nat /\ NodeGood(n) /\ p.inner \in 1 .. Len(n.keys) + 1
      /\ LeafAt(t, p) = n.kids[p.inner]
  BY ONLY <1>1, key = p.rowKey, TreeGood(t), Fresh(t, p), FreshFacts
<1>3. InSlot(t.keys, p.root, key) /\ InSlot(n.keys, p.inner, key) BY <1>1 DEF Fresh, Leads
<1>4. \A k \in n.kids[p.inner].rows : k < key BY <1>2
<1>5. EmptyLeaf \in Leaves /\ EmptyLeaf.rows = {} BY EmptyLeafFacts
<1>6. r = InnerInsert(t, Onward(p, key), key, EmptyLeaf, p.inner + 1)
  <2>1. Onward(p, key) = [p EXCEPT !.inner = @ + 1] BY <1>2 DEF Onward
  <2> QED BY ONLY r = UnsafeSplitLeafUnbalanced(t, p, key), <2>1 DEF UnsafeSplitLeafUnbalanced
<1>7. \A k \in EmptyLeaf.rows :
        InSlot(t.keys, p.root, k) /\ InSlot(n.keys, p.inner, k) /\ key <= k
  BY ONLY <1>5
<1>8. Grown(t, p, r, EmptyLeaf.rows) /\ Reached(t, p, key, EmptyLeaf, r)
  BY ONLY <1>1, <1>2, <1>3, <1>4, <1>5, <1>6, <1>7, TreeGood(t), Fresh(t, p), InnerInsertGrows
<1>9. HasRoom(r) BY ONLY <1>2, <1>8, key = p.rowKey, EmptyLeafFacts DEF Reached, HasRoom
<1> QED BY <1>5, <1>8, <1>9

LEMMA SplitLeafUnbalancedGrows ==
  ASSUME NEW t, TreeGood(t), NEW p, Fresh(t, p), Full(LeafAt(t, p)),
         NEW r \in SplitLeafUnbalanced(t, p, p.rowKey)
  PROVE  Grown(t, p, r, {}) /\ HasRoom(r)
<1>1. PICK key : key = p.rowKey OBVIOUS
<1>2. PICK rows : rows = LeafAt(t, p).rows OBVIOUS
<1>3. CASE key <= Max(rows)
  BY <1>1, <1>2, <1>3, SplitLeafGrows DEF SplitLeafUnbalanced
<1>4. CASE ~ (key <= Max(rows))
  <2>1. r = UnsafeSplitLeafUnbalanced(t, p, key) BY <1>1, <1>2, <1>4 DEF SplitLeafUnbalanced
  <2>2. key \in Nat /\ LeafAt(t, p) \in Leaves
    BY ONLY <1>1, TreeGood(t), Fresh(t, p), FreshFacts
  <2>3. \A k \in rows : k < key
    <3>1. rows \in SUBSET Nat /\ IsFiniteSet(rows) BY <1>2, <2>2 DEF Leaves
    <3>2. CASE rows = {} BY <3>2
    <3>3. CASE rows # {}
      <4>1. Max(rows) \in Nat /\ \A k \in rows : k \in Nat /\ k <= Max(rows) BY <3>1, <3>3, Largest
      <4> QED BY <1>4, <2>2, <4>1
    <3> QED BY <3>2, <3>3
  <2> QED BY ONLY <1>1, <1>2, <2>1, <2>3, TreeGood(t), Fresh(t, p), LeafBegunGrows
<1> QED BY <1>3, <1>4

-----------------------------------------------------------------------------
(* Neighbours in the root.                                                 *)

LEMMA SameSequence ==
  ASSUME NEW X, NEW s \in Seq(X), NEW r \in Seq(X), Len(s) = Len(r),
         \A j \in 1 .. Len(s) : s[j] = r[j]
  PROVE  s = r
OBVIOUS

\* A node parted from its last child, and from its first one.
LEMMA LastParted ==
  ASSUME NEW n, NodeGood(n), Len(n.keys) >= 1
  PROVE  Parts(n, Len(n.keys), [keys |-> Front(n.keys), kids |-> Front(n.kids)],
                               [keys |-> <<>>, kids |-> <<Last(n.kids)>>])
<1>1. PICK keys : keys = n.keys OBVIOUS
<1>2. PICK kids : kids = n.kids OBVIOUS
<1>3. PICK c : c = Len(keys) OBVIOUS
<1>4. /\ keys \in Seq(Nat) /\ kids \in Seq(Leaves) /\ c \in Nat /\ c >= 1 /\ Len(keys) = c
      /\ Len(kids) = c + 1
  BY <1>1, <1>2, <1>3, NodeFacts
<1>5. Front(keys) = SubSeq(keys, 1, c - 1) /\ Front(kids) = SubSeq(kids, 1, c)
  BY ONLY <1>4 DEF Front
<1>6. SubSeq(keys, c + 1, c) = <<>>
  BY ONLY <1>4
<1>7. SubSeq(kids, c + 1, c + 1) = <<Last(kids)>>
  <2>1. PICK b : b = c + 1 OBVIOUS
  <2>2. /\ SubSeq(kids, b, b) \in Seq(Leaves) /\ Len(SubSeq(kids, b, b)) = b - b + 1
        /\ \A j \in 1 .. b - b + 1 : SubSeq(kids, b, b)[j] = kids[b + j - 1]
    BY ONLY <1>4, <2>1, SubSeqPoints
  <2>3. Last(kids) = kids[b] /\ kids[b] \in Leaves BY ONLY <1>4, <2>1 DEF Last
  <2>4. SubSeq(kids, b, b)[1] = kids[b] /\ Len(SubSeq(kids, b, b)) = 1
    BY ONLY <1>4, <2>1, <2>2
  <2>5. <<kids[b]>> \in Seq(Leaves) /\ Len(<<kids[b]>>) = 1 /\ <<kids[b]>>[1] = kids[b] BY ONLY <2>3
  <2>6. SubSeq(kids, b, b) = <<kids[b]>>
    <3>1. PICK s : s = SubSeq(kids, b, b) OBVIOUS
    <3>2. PICK r : r = <<kids[b]>> OBVIOUS
    <3>3. s \in Seq(Leaves) /\ Len(s) = 1 /\ s[1] = kids[b] BY ONLY <2>2, <2>4, <3>1
    <3>4. r \in Seq(Leaves) /\ Len(r) = 1 /\ r[1] = kids[b] BY ONLY <2>5, <3>2
    <3>5. \A j \in 1 .. Len(s) : s[j] = r[j] BY ONLY <3>3, <3>4
    <3> QED BY ONLY <3>1, <3>2, <3>3, <3>4, <3>5, SameSequence
  <2> QED BY ONLY <2>1, <2>3, <2>6
<1> QED BY ONLY <1>1, <1>2, <1>3, <1>4, <1>5, <1>6, <1>7 DEF Parts

LEMMA FirstParted ==
  ASSUME NEW n, NodeGood(n), Len(n.keys) >= 1
  PROVE  Parts(n, 1, [keys |-> <<>>, kids |-> <<Head(n.kids)>>],
                     [keys |-> Tail(n.keys), kids |-> Tail(n.kids)])
<1>1. PICK keys : keys = n.keys OBVIOUS
<1>2. PICK kids : kids = n.kids OBVIOUS
<1>4. /\ keys \in Seq(Nat) /\ kids \in Seq(Leaves) /\ Len(keys) >= 1 /\ Len(kids) = Len(keys) + 1
  BY <1>1, <1>2, NodeFacts
<1>5. Tail(keys) = SubSeq(keys, 2, Len(keys))
  BY ONLY <1>4
<1>6. Tail(kids) = SubSeq(kids, 2, Len(kids))
  BY ONLY <1>4
<1>7. SubSeq(keys, 1, 0) = <<>>
  BY ONLY <1>4
<1>8. SubSeq(kids, 1, 1) = <<Head(kids)>>
  <2>1. /\ SubSeq(kids, 1, 1) \in Seq(Leaves) /\ Len(SubSeq(kids, 1, 1)) = 1
        /\ SubSeq(kids, 1, 1)[1] = kids[1]
    BY ONLY <1>4
  <2>2. Head(kids) = kids[1] /\ kids[1] \in Leaves BY ONLY <1>4
  <2>3. <<kids[1]>> \in Seq(Leaves) /\ Len(<<kids[1]>>) = 1 /\ <<kids[1]>>[1] = kids[1] BY ONLY <2>2
  <2>4. \A j \in 1 .. Len(SubSeq(kids, 1, 1)) : SubSeq(kids, 1, 1)[j] = <<kids[1]>>[j]
    BY ONLY <2>1, <2>3
  <2>5. SubSeq(kids, 1, 1) = <<kids[1]>> BY ONLY <2>1, <2>3, <2>4, SameSequence
  <2> QED BY ONLY <2>2, <2>5
<1>9. 1 - 1 = 0 /\ 1 + 1 = 2 OBVIOUS
<1>11. PICK l : l = [keys |-> <<>>, kids |-> <<Head(kids)>>] OBVIOUS
<1>12. PICK h : h = [keys |-> Tail(keys), kids |-> Tail(kids)] OBVIOUS
<1>13. l = [keys |-> SubSeq(keys, 1, 1 - 1), kids |-> SubSeq(kids, 1, 1)]
  BY ONLY <1>7, <1>8, <1>9, <1>11
<1>14. h = [keys |-> SubSeq(keys, 1 + 1, Len(keys)), kids |-> SubSeq(kids, 1 + 1, Len(kids))]
  BY ONLY <1>5, <1>6, <1>9, <1>12
<1>15. Parts(n, 1, l, h) BY ONLY <1>1, <1>2, <1>13, <1>14 DEF Parts
<1> QED BY ONLY <1>1, <1>2, <1>11, <1>12, <1>15
LEMMA NodeJoinedSlots ==
  ASSUME NEW l, NEW r, NEW c, Apart(l, r, c), NEW m, Joined(l, r, c, m)
  PROVE  \A outer, bound : \A k \in Nat, j \in Nat :
           /\ Leads(l.keys, c, j, bound, k) /\ k < c => Leads(m.keys, outer, j, bound, k)
           /\ Leads(r.keys, outer, j, bound, k) /\ c <= k
                => Leads(m.keys, outer, Len(l.keys) + 1 + j, bound, k)
<1>1. PICK lk : lk = l.keys OBVIOUS
<1>2. PICK rk : rk = r.keys OBVIOUS
<1>3. PICK new : new = m.keys OBVIOUS
<1>4. NodeGood(m) /\ Chained(lk, rk, c, new)
  BY <1>1, <1>2, <1>3, NodeJoined
<1>5. NodeGood(l) /\ NodeGood(r) /\ c \in Nat BY DEF Apart
<1>6. /\ lk \in Seq(Nat) /\ Ascending(lk) /\ rk \in Seq(Nat) /\ Ascending(rk) /\ new \in Seq(Nat)
  BY <1>1, <1>2, <1>3, <1>4, <1>5, NodeFacts
<1>7. (\A k \in ToSet(lk) : k <= c) /\ (\A k \in ToSet(rk) : c <= k) BY <1>1, <1>2 DEF Apart
<1>8. TAKE outer, bound
<1>9. TAKE k \in Nat, j \in Nat
<1>10. /\ Leads(lk, c, j, bound, k) /\ k < c => Leads(new, outer, j, bound, k)
       /\ Leads(rk, outer, j, bound, k) /\ c <= k => Leads(new, outer, Len(lk) + 1 + j, bound, k)
  BY ONLY <1>4, <1>5, <1>6, <1>7, k \in Nat, LeadsJoined
<1> QED BY <1>1, <1>2, <1>3, <1>10

\* A node gets the last child of the one before it.
FromPrevious(t, i, u) ==
  LET prev == t.kids[i - 1] IN
  u = [keys |-> [t.keys EXCEPT ![i - 1] = Last(prev.keys)],
       kids |-> [t.kids EXCEPT
         ![i - 1] = [keys |-> Front(@.keys), kids |-> Front(@.kids)],
         ![i] = [keys |-> <<t.keys[i - 1]>> \o @.keys, kids |-> <<Last(prev.kids)>> \o @.kids]]]

\* What the keys of the root say of the nodes at a key.
LEMMA Neighbours ==
  ASSUME NEW t, TreeGood(t), NEW a \in 1 .. Len(t.keys), NEW b, b = a + 1,
         NEW x, x = t.kids[a], NEW y, y = t.kids[b], NEW c, c = t.keys[a]
  PROVE  /\ a \in Nat /\ b \in Nat /\ a \in 1 .. Len(t.keys) + 1 /\ b \in 1 .. Len(t.keys) + 1
         /\ a \in DOMAIN t.kids /\ b \in DOMAIN t.kids /\ c \in Nat /\ a # b
         /\ NodeGood(x) /\ Len(x.keys) \in Nat /\ Len(x.keys) <= MaxKeys
         /\ NodeGood(y) /\ Len(y.keys) \in Nat /\ Len(y.keys) <= MaxKeys
         /\ Between(t.keys, a, c) /\ Between(t.keys, b, c)
         /\ \A k \in RowsOf(x) : k < c
         /\ \A k \in RowsOf(y) : c <= k
         /\ \A k \in ToSet(x.keys) : k \in Nat /\ k <= c /\ Between(t.keys, a, k)
         /\ \A k \in ToSet(y.keys) : k \in Nat /\ c <= k /\ Between(t.keys, b, k)
<1>1. /\ t.keys \in Seq(Nat) /\ Ascending(t.keys) /\ Len(t.keys) \in Nat /\ Len(t.kids) = Len(t.keys) + 1
      /\ DOMAIN t.kids = 1 .. Len(t.keys) + 1 /\ DOMAIN t.keys = 1 .. Len(t.keys)
  BY TreeFacts
<1>2. /\ a \in Nat /\ b \in Nat /\ a \in 1 .. Len(t.keys) + 1 /\ b \in 1 .. Len(t.keys) + 1
      /\ a # b /\ b > 1 /\ b - 1 = a /\ a <= Len(t.keys)
  BY ONLY <1>1, a \in 1 .. Len(t.keys), b = a + 1
<1>3. c \in Nat BY <1>1
<1>4. /\ NodeGood(x) /\ Len(x.keys) \in Nat /\ Len(x.keys) <= MaxKeys
      /\ NodeGood(y) /\ Len(y.keys) \in Nat /\ Len(y.keys) <= MaxKeys
      /\ \A k \in RowsOf(x) : k \in Nat /\ InSlot(t.keys, a, k)
      /\ \A k \in ToSet(x.keys) : k \in Nat /\ Between(t.keys, a, k)
      /\ \A k \in RowsOf(y) : k \in Nat /\ InSlot(t.keys, b, k)
      /\ \A k \in ToSet(y.keys) : k \in Nat /\ Between(t.keys, b, k)
  BY <1>2, TreeFacts, NodeFacts
<1>5. \A k \in RowsOf(x) : k < c BY ONLY <1>2, <1>4, c = t.keys[a] DEF InSlot
<1>6. \A k \in ToSet(x.keys) : k <= c BY ONLY <1>2, <1>4, c = t.keys[a] DEF Between
<1>7. \A k \in RowsOf(y) : c <= k BY ONLY <1>2, <1>4, c = t.keys[a] DEF InSlot
<1>8. \A k \in ToSet(y.keys) : c <= k BY ONLY <1>2, <1>4, c = t.keys[a] DEF Between
<1>9. Between(t.keys, a, c)
  <2>1. a > 1 => a - 1 \in DOMAIN t.keys /\ a - 1 < a BY ONLY <1>1, <1>2
  <2>2. a \in DOMAIN t.keys BY ONLY <1>1, a \in 1 .. Len(t.keys)
  <2>3. a > 1 => t.keys[a - 1] <= c BY ONLY <1>1, <2>1, <2>2, c = t.keys[a] DEF Ascending
  <2> QED BY ONLY <1>2, <1>3, <2>3, c = t.keys[a] DEF Between
<1>10. Between(t.keys, b, c)
  <2>1. b <= Len(t.keys) => b \in DOMAIN t.keys /\ a < b BY ONLY <1>1, <1>2, b = a + 1
  <2>2. a \in DOMAIN t.keys BY ONLY <1>1, a \in 1 .. Len(t.keys)
  <2>3. b <= Len(t.keys) => c <= t.keys[b] BY ONLY <1>1, <2>1, <2>2, c = t.keys[a] DEF Ascending
  <2> QED BY ONLY <1>2, <1>3, <2>3, c = t.keys[a] DEF Between
<1> QED BY ONLY <1>1, <1>2, <1>3, <1>4, <1>5, <1>6, <1>7, <1>8, <1>9, <1>10

\* Two neighbours, and the key between them, change.
Exchanged(t, a, b, cut, x, y, u) ==
  u = [keys |-> [t.keys EXCEPT ![a] = cut], kids |-> [t.kids EXCEPT ![a] = x, ![b] = y]]

\* They hold the same rows as before, on the right sides of the key.
Fits(t, a, b, cut, x, y) ==
  /\ cut \in Nat /\ (Between(t.keys, a, cut) \/ Between(t.keys, b, cut))
  /\ NodeGood(x) /\ Len(x.keys) <= MaxKeys
  /\ NodeGood(y) /\ Len(y.keys) <= MaxKeys
  /\ \A k \in RowsOf(x) : k < cut
  /\ \A k \in RowsOf(y) : cut <= k
  /\ \A k \in ToSet(x.keys) : (Between(t.keys, a, k) \/ Between(t.keys, b, k)) /\ k <= cut
  /\ \A k \in ToSet(y.keys) : (Between(t.keys, a, k) \/ Between(t.keys, b, k)) /\ cut <= k
  /\ \A k : k \in RowsOf(x) \/ k \in RowsOf(y)
              <=> k \in RowsOf(t.kids[a]) \/ k \in RowsOf(t.kids[b])

LEMMA PairExchanged ==
  ASSUME NEW t, TreeGood(t), NEW a \in 1 .. Len(t.keys), NEW b, b = a + 1,
         NEW cut, NEW x, NEW y, Fits(t, a, b, cut, x, y),
         NEW u, Exchanged(t, a, b, cut, x, y, u)
  PROVE  /\ TreeGood(u) /\ Contents(u) = Contents(t) /\ u.kids[a] = x /\ u.kids[b] = y
         /\ \A bound : \A k \in Nat :
              /\ Leads(t.keys, MinKey, a, bound, k) /\ k < cut => Leads(u.keys, MinKey, a, cut, k)
              /\ Leads(t.keys, MinKey, b, bound, k) /\ cut <= k => Leads(u.keys, MinKey, b, bound, k)
<1>0. cut \in Nat /\ NodeGood(x) /\ NodeGood(y) BY DEF Fits
<1>1. /\ t.keys \in Seq(Nat) /\ t.kids \in Seq(Nodes) /\ Ascending(t.keys)
      /\ Len(t.keys) \in Nat /\ Len(t.kids) = Len(t.keys) + 1
      /\ DOMAIN t.kids = 1 .. Len(t.keys) + 1 /\ DOMAIN t.keys = 1 .. Len(t.keys)
  BY TreeFacts
<1>2. a \in Nat /\ b \in Nat /\ a # b /\ a \in 1 .. Len(t.keys) + 1 /\ b \in 1 .. Len(t.keys) + 1
  BY ONLY <1>1, a \in 1 .. Len(t.keys), b = a + 1
<1>3. PICK keys : keys = [t.keys EXCEPT ![a] = cut] OBVIOUS
<1>4. PICK kids : kids = [t.kids EXCEPT ![a] = x, ![b] = y] OBVIOUS
<1>5. u.keys = keys /\ u.kids = kids /\ u = [keys |-> keys, kids |-> kids]
  BY ONLY <1>3, <1>4, Exchanged(t, a, b, cut, x, y, u) DEF Exchanged
<1>6. /\ keys \in Seq(Nat) /\ Len(keys) = Len(t.keys) /\ keys[a] = cut
      /\ \A j \in 1 .. Len(t.keys) : j # a => keys[j] = t.keys[j]
  BY ONLY <1>1, <1>3, a \in 1 .. Len(t.keys), <1>0
<1>7. x \in Nodes /\ y \in Nodes BY <1>0 DEF NodeGood
<1>8. /\ kids \in Seq(Nodes) /\ Len(kids) = Len(t.kids) /\ kids[a] = x /\ kids[b] = y
      /\ \A j \in 1 .. Len(t.keys) + 1 : j # a /\ j # b => kids[j] = t.kids[j]
  BY ONLY <1>1, <1>2, <1>4, <1>7
<1>9. /\ u \in Trees /\ Len(u.keys) = Len(t.keys) /\ Len(u.kids) = Len(t.kids) /\ u.keys[a] = cut
      /\ \A j \in 1 .. Len(t.keys) : j # a => u.keys[j] = t.keys[j]
      /\ \A j \in 1 .. Len(t.keys) + 1 : j # a /\ j # a + 1 => u.kids[j] = t.kids[j]
      /\ u.kids[a] = x /\ u.kids[a + 1] = y
  BY ONLY <1>5, <1>6, <1>8, b = a + 1 DEF Trees
<1>10. TreeGood(u) /\ Contents(u) = Contents(t)
  <2>1. Between(t.keys, a, cut) \/ Between(t.keys, a + 1, cut) BY b = a + 1 DEF Fits
  <2>2. /\ NodeGood(u.kids[a]) /\ Len(u.kids[a].keys) <= MaxKeys
        /\ NodeGood(u.kids[a + 1]) /\ Len(u.kids[a + 1].keys) <= MaxKeys
        /\ \A k \in RowsOf(u.kids[a]) : k < cut
        /\ \A k \in ToSet(u.kids[a].keys) :
             (Between(t.keys, a, k) \/ Between(t.keys, a + 1, k)) /\ k <= cut
    BY <1>9, b = a + 1 DEF Fits
  <2>3. /\ \A k \in RowsOf(u.kids[a + 1]) : cut <= k
        /\ \A k \in ToSet(u.kids[a + 1].keys) :
             (Between(t.keys, a, k) \/ Between(t.keys, a + 1, k)) /\ cut <= k
        /\ \A k : k \in RowsOf(u.kids[a]) \/ k \in RowsOf(u.kids[a + 1])
                    <=> k \in RowsOf(t.kids[a]) \/ k \in RowsOf(t.kids[a + 1])
    BY <1>9, b = a + 1 DEF Fits
  <2> QED BY ONLY <1>9, <2>1, <2>2, <2>3, TreeGood(t), a \in 1 .. Len(t.keys), <1>0, TreeMoved
<1>11. ASSUME NEW bound, NEW k \in Nat
       PROVE  /\ Leads(t.keys, MinKey, a, bound, k) /\ k < cut => Leads(u.keys, MinKey, a, cut, k)
              /\ Leads(t.keys, MinKey, b, bound, k) /\ cut <= k => Leads(u.keys, MinKey, b, bound, k)
  <2>1. Between(t.keys, a, cut) \/ Between(t.keys, a + 1, cut) BY b = a + 1 DEF Fits
  <2>2. /\ Leads(t.keys, MinKey, a, bound, k) /\ k < cut => Leads(keys, MinKey, a, cut, k)
        /\ Leads(t.keys, MinKey, a + 1, bound, k) /\ cut <= k => Leads(keys, MinKey, a + 1, bound, k)
    BY ONLY <1>1, <1>6, <2>1, a \in 1 .. Len(t.keys), <1>0, k \in Nat, LeadsMoved
  <2> QED BY ONLY <1>5, <2>2, b = a + 1
<1> QED BY ONLY <1>9, <1>10, <1>11, b = a + 1

LEMMA FromPreviousGood ==
  ASSUME NEW t, TreeGood(t), NEW a \in 1 .. Len(t.keys), NEW i, i = a + 1,
         Len(t.kids[a].keys) >= 1, Len(t.kids[i].keys) < MaxKeys,
         NEW u, FromPrevious(t, i, u)
  PROVE  /\ TreeGood(u) /\ Contents(u) = Contents(t)
         /\ \A bound : \A k \in Nat :
              Leads(t.keys, MinKey, i, bound, k) => Leads(u.keys, MinKey, i, bound, k)
         /\ \A outer, bound : \A k \in Nat, j \in Nat :
              InSlot(t.keys, i, k) /\ Leads(t.kids[i].keys, outer, j, bound, k)
                => Leads(u.kids[i].keys, outer, j + 1, bound, k)
<1>1. PICK x : x = t.kids[a] OBVIOUS
<1>2. PICK y : y = t.kids[i] OBVIOUS
<1>3. PICK c : c = t.keys[a] OBVIOUS
<1>4. /\ a \in Nat /\ i \in Nat /\ a \in 1 .. Len(t.keys) + 1 /\ i \in 1 .. Len(t.keys) + 1
      /\ a \in DOMAIN t.kids /\ i \in DOMAIN t.kids /\ c \in Nat /\ a # i
      /\ NodeGood(x) /\ Len(x.keys) \in Nat /\ Len(x.keys) <= MaxKeys
      /\ NodeGood(y) /\ Len(y.keys) \in Nat /\ Len(y.keys) <= MaxKeys
      /\ Between(t.keys, a, c) /\ Between(t.keys, i, c)
      /\ \A k \in RowsOf(x) : k < c
      /\ \A k \in RowsOf(y) : c <= k
      /\ \A k \in ToSet(x.keys) : k \in Nat /\ k <= c /\ Between(t.keys, a, k)
      /\ \A k \in ToSet(y.keys) : k \in Nat /\ c <= k /\ Between(t.keys, i, k)
  BY ONLY <1>1, <1>2, <1>3, TreeGood(t), a \in 1 .. Len(t.keys), i = a + 1, Neighbours
<1>5. PICK last : last = Len(x.keys) OBVIOUS
<1>6. PICK l : l = [keys |-> Front(x.keys), kids |-> Front(x.kids)] OBVIOUS
<1>7. PICK h : h = [keys |-> <<>>, kids |-> <<Last(x.kids)>>] OBVIOUS
<1>8. PICK cut : cut = x.keys[last] OBVIOUS
<1>9. last \in 1 .. Len(x.keys) /\ cut \in Nat /\ cut \in ToSet(x.keys) /\ cut = Last(x.keys)
  <2>1. x.keys \in Seq(Nat) /\ Len(x.keys) >= 1 BY <1>1, <1>4, NodeFacts
  <2> QED BY ONLY <1>4, <1>5, <1>8, <2>1 DEF ToSet, Last
<1>10. Parts(x, last, l, h)
  <2>1. Len(x.keys) >= 1 BY <1>1
  <2> QED BY ONLY <1>4, <1>5, <1>6, <1>7, <2>1, LastParted
<1>11. /\ NodeGood(l) /\ NodeGood(h)
       /\ Len(l.keys) = last - 1
       /\ \A k \in ToSet(l.keys) : k \in ToSet(x.keys) /\ k <= cut
       /\ \A k \in RowsOf(l) : k < cut
       /\ \A k \in RowsOf(h) : cut <= k
       /\ RowsOf(x) = RowsOf(l) \cup RowsOf(h)
  <2>1. /\ NodeGood(l) /\ NodeGood(h) /\ Len(l.keys) = last - 1
        /\ \A k \in ToSet(l.keys) : k \in ToSet(x.keys) /\ k <= x.keys[last]
        /\ \A k \in RowsOf(l) : k < x.keys[last]
        /\ \A k \in RowsOf(h) : x.keys[last] <= k
        /\ RowsOf(x) = RowsOf(l) \cup RowsOf(h)
    <3>1. NodeGood(x) BY <1>4
    <3> QED BY ONLY <1>9, <1>10, <3>1, NodeSplit
  <2> QED BY ONLY <1>8, <2>1
<1>12. PICK m : m = [keys |-> <<c>> \o y.keys, kids |-> h.kids \o y.kids] OBVIOUS
<1>13. h.keys = <<>> /\ Len(h.keys) = 0 /\ h.kids = <<Last(x.kids)>> /\ ToSet(h.keys) = {}
  BY ONLY <1>7 DEF ToSet
<1>14. Joined(h, y, c, m)
  <2>1. <<>> \o <<c>> = <<c>> BY ONLY <1>4
  <2> QED BY ONLY <1>12, <1>13, <2>1 DEF Joined
<1>15. Apart(h, y, c)
  <2>1. /\ \A k \in ToSet(h.keys) : k <= c
        /\ \A k \in RowsOf(h) : k < c
    BY ONLY <1>4, <1>11, <1>13
  <2> QED BY ONLY <1>4, <1>11, <2>1 DEF Apart
<1>a. /\ NodeGood(m) /\ RowsOf(m) = RowsOf(h) \cup RowsOf(y)
      /\ \A k \in ToSet(m.keys) : k = c \/ k \in ToSet(y.keys)
      /\ Len(m.keys) = 1 + Len(y.keys)
  <2>1. /\ NodeGood(m) /\ RowsOf(m) = RowsOf(h) \cup RowsOf(y)
        /\ \A k \in ToSet(m.keys) : k \in ToSet(h.keys) \/ k = c \/ k \in ToSet(y.keys)
        /\ Chained(h.keys, y.keys, c, m.keys)
    BY ONLY <1>14, <1>15, NodeJoined
  <2>2. Len(m.keys) = Len(h.keys) + 1 + Len(y.keys) BY ONLY <2>1 DEF Chained
  <2>3. Len(m.keys) = 1 + Len(y.keys) BY ONLY <1>4, <1>13, <2>2
  <2> QED BY ONLY <1>13, <2>1, <2>3
<1>16. Exchanged(t, a, i, cut, l, m, u)
  <2>1. i - 1 = a BY ONLY <1>4, i = a + 1
  <2>2. u = [keys |-> [t.keys EXCEPT ![a] = Last(x.keys)],
             kids |-> [t.kids EXCEPT
               ![a] = [keys |-> Front(@.keys), kids |-> Front(@.kids)],
               ![i] = [keys |-> <<t.keys[a]>> \o @.keys, kids |-> <<Last(x.kids)>> \o @.kids]]]
    BY ONLY <1>1, <2>1, FromPrevious(t, i, u) DEF FromPrevious
  <2>3. u = [keys |-> [t.keys EXCEPT ![a] = cut], kids |-> [t.kids EXCEPT ![a] = l, ![i] = m]]
    BY ONLY <1>1, <1>2, <1>3, <1>4, <1>6, <1>9, <1>12, <1>13, <2>2
  <2> QED BY ONLY <2>3 DEF Exchanged
<1>17. cut <= c /\ Between(t.keys, a, cut) BY ONLY <1>4, <1>9
<1>18. /\ TreeGood(u) /\ Contents(u) = Contents(t) /\ u.kids[i] = m
       /\ \A bound : \A k \in Nat :
            Leads(t.keys, MinKey, i, bound, k) /\ cut <= k => Leads(u.keys, MinKey, i, bound, k)
  <2>1. Len(l.keys) <= MaxKeys /\ Len(m.keys) <= MaxKeys
    <3>1. Len(y.keys) < MaxKeys /\ MaxKeys \in Nat BY <1>2
    <3> QED BY ONLY <1>4, <1>5, <1>11, <1>a, <3>1
  <2>2. \A k \in RowsOf(m) : cut <= k
    <3>1. \A k \in RowsOf(y) : c <= k /\ k \in Nat BY <1>4, NodeFacts
    <3> QED BY ONLY <1>4, <1>9, <1>11, <1>a, <1>17, <3>1
  <2>3. \A k \in ToSet(l.keys) : (Between(t.keys, a, k) \/ Between(t.keys, i, k)) /\ k <= cut
    BY ONLY <1>4, <1>11
  <2>4. \A k \in ToSet(m.keys) : (Between(t.keys, a, k) \/ Between(t.keys, i, k)) /\ cut <= k
    BY ONLY <1>4, <1>9, <1>a, <1>17
  <2>5. \A k : k \in RowsOf(l) \/ k \in RowsOf(m) <=> k \in RowsOf(t.kids[a]) \/ k \in RowsOf(t.kids[i])
    BY ONLY <1>1, <1>2, <1>11, <1>a
  <2>6. \A k \in RowsOf(l) : k < cut BY ONLY <1>11
  <2>7. NodeGood(l) /\ NodeGood(m) /\ cut \in Nat BY ONLY <1>9, <1>11, <1>a
  <2>8. Fits(t, a, i, cut, l, m)
    BY ONLY <1>17, <2>1, <2>2, <2>3, <2>4, <2>5, <2>6, <2>7 DEF Fits
  <2>9. TreeGood(u) /\ Contents(u) = Contents(t)
    BY ONLY <1>16, <2>8, TreeGood(t), a \in 1 .. Len(t.keys), i = a + 1, PairExchanged
  <2>10. u.kids[i] = m
    BY ONLY <1>16, <2>8, TreeGood(t), a \in 1 .. Len(t.keys), i = a + 1, PairExchanged
  <2>11. ASSUME NEW bound, NEW k \in Nat,
            Leads(t.keys, MinKey, i, bound, k) , cut <= k PROVE Leads(u.keys, MinKey, i, bound, k)
    BY ONLY <1>16, <2>8, <2>11, TreeGood(t), a \in 1 .. Len(t.keys), i = a + 1, k \in Nat, PairExchanged
  <2> QED BY ONLY <2>9, <2>10, <2>11
<1>19. ASSUME NEW k \in Nat, InSlot(t.keys, i, k) PROVE c <= k
  <2>1. i > 1 /\ i - 1 = a BY ONLY <1>4, i = a + 1, a \in 1 .. Len(t.keys)
  <2> QED BY ONLY <1>3, <1>19, <2>1 DEF InSlot
<1>20. ASSUME NEW bound, NEW k \in Nat, Leads(t.keys, MinKey, i, bound, k)
       PROVE  Leads(u.keys, MinKey, i, bound, k)
  <2>1. InSlot(t.keys, i, k) BY ONLY <1>20 DEF Leads
  <2>2. cut <= k BY ONLY <1>4, <1>9, <1>17, <1>19, <2>1, k \in Nat
  <2> QED BY ONLY <1>18, <1>20, <2>2
<1>21. ASSUME NEW outer, NEW bound, NEW k \in Nat, NEW j \in Nat,
              InSlot(t.keys, i, k), Leads(y.keys, outer, j, bound, k)
       PROVE  Leads(m.keys, outer, j + 1, bound, k)
  <2>1. c <= k BY <1>19, <1>21
  <2>6. Leads(m.keys, outer, Len(h.keys) + 1 + j, bound, k)
    BY ONLY <1>14, <1>15, <1>21, <2>1, k \in Nat, j \in Nat, NodeJoinedSlots
  <2>7. Len(h.keys) + 1 + j = j + 1 BY ONLY <1>13, j \in Nat
  <2> QED BY ONLY <2>6, <2>7
<1> QED BY ONLY <1>2, <1>18, <1>20, <1>21

\* ... or the first child of the one after it.
FromNext(t, i, u) ==
  LET next == t.kids[i + 1] IN
  u = [keys |-> [t.keys EXCEPT ![i] = Head(next.keys)],
       kids |-> [t.kids EXCEPT
         ![i] = [keys |-> Append(@.keys, t.keys[i]), kids |-> Append(@.kids, Head(next.kids))],
         ![i + 1] = [keys |-> Tail(@.keys), kids |-> Tail(@.kids)]]]

NextKey(t, b, cut) == cut = Head(t.kids[b].keys)

LEMMA FromNextGood ==
  ASSUME NEW t, TreeGood(t), NEW i \in 1 .. Len(t.keys), NEW b, b = i + 1,
         Len(t.kids[b].keys) >= 1, Len(t.kids[i].keys) < MaxKeys,
         NEW u, FromNext(t, i, u), NEW cut, NextKey(t, b, cut)
  PROVE  /\ TreeGood(u) /\ Contents(u) = Contents(t) /\ cut \in Nat
         /\ \A bound : \A k \in Nat :
              Leads(t.keys, MinKey, i, bound, k) =>
                bound = t.keys[i] /\ Leads(u.keys, MinKey, i, cut, k)
         /\ \A outer, bound : \A k \in Nat, j \in Nat :
              InSlot(t.keys, i, k) /\ Leads(t.kids[i].keys, t.keys[i], j, bound, k)
                => Leads(u.kids[i].keys, outer, j, bound, k)
<1>1. PICK x : x = t.kids[i] OBVIOUS
<1>2. PICK y : y = t.kids[b] OBVIOUS
<1>3. PICK c : c = t.keys[i] OBVIOUS
<1>4. /\ i \in Nat /\ b \in Nat /\ i \in 1 .. Len(t.keys) + 1 /\ b \in 1 .. Len(t.keys) + 1
      /\ i \in DOMAIN t.kids /\ b \in DOMAIN t.kids /\ c \in Nat /\ i # b
      /\ NodeGood(x) /\ Len(x.keys) \in Nat /\ Len(x.keys) <= MaxKeys
      /\ NodeGood(y) /\ Len(y.keys) \in Nat /\ Len(y.keys) <= MaxKeys
      /\ Between(t.keys, i, c) /\ Between(t.keys, b, c)
      /\ \A k \in RowsOf(x) : k < c
      /\ \A k \in RowsOf(y) : c <= k
      /\ \A k \in ToSet(x.keys) : k \in Nat /\ k <= c /\ Between(t.keys, i, k)
      /\ \A k \in ToSet(y.keys) : k \in Nat /\ c <= k /\ Between(t.keys, b, k)
  BY ONLY <1>1, <1>2, <1>3, TreeGood(t), i \in 1 .. Len(t.keys), b = i + 1, Neighbours
<1>5. PICK l : l = [keys |-> <<>>, kids |-> <<Head(y.kids)>>] OBVIOUS
<1>6. PICK h : h = [keys |-> Tail(y.keys), kids |-> Tail(y.kids)] OBVIOUS
<1>7. 1 \in 1 .. Len(y.keys) /\ cut = y.keys[1] /\ cut \in Nat /\ cut \in ToSet(y.keys)
  <2>1. y.keys \in Seq(Nat) /\ Len(y.keys) >= 1 BY <1>2, <1>4, NodeFacts
  <2>2. cut = Head(y.keys) BY <1>2 DEF NextKey
  <2> QED BY ONLY <1>4, <2>1, <2>2 DEF ToSet
<1>8. Parts(y, 1, l, h)
  <2>1. Len(y.keys) >= 1 BY <1>2
  <2> QED BY ONLY <1>4, <1>5, <1>6, <2>1, FirstParted
<1>9. /\ NodeGood(l) /\ NodeGood(h) /\ Len(h.keys) = Len(y.keys) - 1
      /\ \A k \in ToSet(h.keys) : k \in ToSet(y.keys) /\ cut <= k
      /\ \A k \in RowsOf(l) : k < cut
      /\ \A k \in RowsOf(h) : cut <= k
      /\ RowsOf(y) = RowsOf(l) \cup RowsOf(h)
  <2>1. /\ NodeGood(l) /\ NodeGood(h) /\ Len(h.keys) = Len(y.keys) - 1
        /\ \A k \in ToSet(h.keys) : k \in ToSet(y.keys) /\ y.keys[1] <= k
        /\ \A k \in RowsOf(l) : k < y.keys[1]
        /\ \A k \in RowsOf(h) : y.keys[1] <= k
        /\ RowsOf(y) = RowsOf(l) \cup RowsOf(h)
    <3>1. NodeGood(y) BY <1>4
    <3> QED BY ONLY <1>7, <1>8, <3>1, NodeSplit
  <2> QED BY ONLY <1>7, <2>1
<1>10. PICK m : m = [keys |-> Append(x.keys, c), kids |-> Append(x.kids, Head(y.kids))] OBVIOUS
<1>11. l.keys = <<>> /\ Len(l.keys) = 0 /\ l.kids = <<Head(y.kids)>> /\ ToSet(l.keys) = {}
  BY ONLY <1>5 DEF ToSet
<1>12. Joined(x, l, c, m)
  <2>1. x.keys \in Seq(Nat) /\ x.kids \in Seq(Leaves) BY <1>4, NodeFacts
  <2>2. x.keys \o <<c>> = Append(x.keys, c) /\ x.keys \o <<c>> \in Seq(Nat) BY ONLY <1>4, <2>1
  <2>3. x.keys \o <<c>> \o <<>> = Append(x.keys, c) BY ONLY <2>2
  <2>4. Head(y.kids) \in Leaves
    <3>1. y.kids \in Seq(Leaves) /\ Len(y.kids) = Len(y.keys) + 1 BY <1>4, NodeFacts
    <3> QED BY ONLY <1>4, <3>1
  <2>5. x.kids \o <<Head(y.kids)>> = Append(x.kids, Head(y.kids)) BY ONLY <2>1, <2>4
  <2> QED BY ONLY <1>10, <1>11, <2>3, <2>5 DEF Joined
<1>13. cut >= c /\ c <= cut /\ Between(t.keys, b, cut) BY ONLY <1>4, <1>7
<1>14. Apart(x, l, c)
  <2>1. \A k \in RowsOf(l) : c <= k BY ONLY <1>4, <1>9
  <2> QED BY ONLY <1>4, <1>9, <1>11, <2>1 DEF Apart
<1>15. /\ NodeGood(m) /\ RowsOf(m) = RowsOf(x) \cup RowsOf(l)
       /\ \A k \in ToSet(m.keys) : k \in ToSet(x.keys) \/ k = c
       /\ Len(m.keys) = Len(x.keys) + 1
  <2>1. /\ NodeGood(m) /\ RowsOf(m) = RowsOf(x) \cup RowsOf(l)
        /\ \A k \in ToSet(m.keys) : k \in ToSet(x.keys) \/ k = c \/ k \in ToSet(l.keys)
        /\ Chained(x.keys, l.keys, c, m.keys)
    BY ONLY <1>12, <1>14, NodeJoined
  <2>2. Len(m.keys) = Len(x.keys) + 1 + Len(l.keys) BY ONLY <2>1 DEF Chained
  <2>3. Len(m.keys) = Len(x.keys) + 1 BY ONLY <1>4, <1>11, <2>2
  <2> QED BY ONLY <1>11, <2>1, <2>3
<1>16. Exchanged(t, i, b, cut, m, h, u)
  <2>1. u = [keys |-> [t.keys EXCEPT ![i] = Head(y.keys)],
             kids |-> [t.kids EXCEPT
               ![i] = [keys |-> Append(@.keys, t.keys[i]), kids |-> Append(@.kids, Head(y.kids))],
               ![b] = [keys |-> Tail(@.keys), kids |-> Tail(@.kids)]]]
    BY ONLY <1>2, b = i + 1, FromNext(t, i, u) DEF FromNext
  <2>2. cut = Head(y.keys) BY <1>2 DEF NextKey
  <2>3. u = [keys |-> [t.keys EXCEPT ![i] = cut], kids |-> [t.kids EXCEPT ![i] = m, ![b] = h]]
    BY ONLY <1>1, <1>2, <1>3, <1>4, <1>6, <1>10, <2>1, <2>2
  <2> QED BY ONLY <2>3 DEF Exchanged
<1>17. Fits(t, i, b, cut, m, h)
  <2>1. Len(h.keys) <= MaxKeys /\ Len(m.keys) <= MaxKeys
    <3>1. Len(x.keys) < MaxKeys /\ MaxKeys \in Nat BY <1>1
    <3> QED BY ONLY <1>4, <1>9, <1>15, <3>1
  <2>2. \A k \in RowsOf(m) : k < cut
    <3>1. \A k \in RowsOf(x) : k < c /\ k \in Nat BY <1>4, NodeFacts
    <3> QED BY ONLY <1>4, <1>7, <1>9, <1>13, <1>15, <3>1
  <2>3. \A k \in ToSet(m.keys) : (Between(t.keys, i, k) \/ Between(t.keys, b, k)) /\ k <= cut
    BY ONLY <1>4, <1>7, <1>13, <1>15
  <2>4. \A k \in ToSet(h.keys) : (Between(t.keys, i, k) \/ Between(t.keys, b, k)) /\ cut <= k
    BY ONLY <1>4, <1>9
  <2>5. \A k : k \in RowsOf(m) \/ k \in RowsOf(h) <=> k \in RowsOf(t.kids[i]) \/ k \in RowsOf(t.kids[b])
    BY ONLY <1>1, <1>2, <1>9, <1>15
  <2>6. \A k \in RowsOf(h) : cut <= k BY ONLY <1>9
  <2>7. NodeGood(h) /\ NodeGood(m) BY ONLY <1>9, <1>15
  <2> QED BY ONLY <1>7, <1>13, <2>1, <2>2, <2>3, <2>4, <2>5, <2>6, <2>7 DEF Fits
<1>18. TreeGood(u) /\ Contents(u) = Contents(t)
  BY ONLY <1>16, <1>17, TreeGood(t), i \in 1 .. Len(t.keys), b = i + 1, PairExchanged
<1>19. u.kids[i] = m
  BY ONLY <1>16, <1>17, TreeGood(t), i \in 1 .. Len(t.keys), b = i + 1, PairExchanged
<1>20. ASSUME NEW k \in Nat, InSlot(t.keys, i, k) PROVE k < c
  <2>1. i <= Len(t.keys) OBVIOUS
  <2> QED BY ONLY <1>3, <1>20, <2>1 DEF InSlot
<1>21. ASSUME NEW bound, NEW k \in Nat, Leads(t.keys, MinKey, i, bound, k)
       PROVE  bound = c /\ Leads(u.keys, MinKey, i, cut, k)
  <2>1. InSlot(t.keys, i, k) /\ bound = UpperBound(t.keys, i, MinKey) BY ONLY <1>21 DEF Leads
  <2>2. k < cut BY ONLY <1>4, <1>7, <1>13, <1>20, <2>1, k \in Nat
  <2>3. i \in DOMAIN t.keys BY TreeFacts
  <2>4. bound = c BY ONLY <1>3, <2>1, <2>3 DEF UpperBound
  <2>5. Leads(u.keys, MinKey, i, cut, k)
    BY ONLY <1>16, <1>17, <1>21, <2>2, TreeGood(t), i \in 1 .. Len(t.keys), b = i + 1, k \in Nat,
            PairExchanged
  <2> QED BY ONLY <2>4, <2>5
<1>22. ASSUME NEW outer, NEW bound, NEW k \in Nat, NEW j \in Nat,
              InSlot(t.keys, i, k), Leads(x.keys, c, j, bound, k)
       PROVE  Leads(m.keys, outer, j, bound, k)
  <2>1. k < c BY <1>20, <1>22
  <2> QED BY ONLY <1>12, <1>14, <1>22, <2>1, k \in Nat, j \in Nat, NodeJoinedSlots
<1> QED BY ONLY <1>1, <1>3, <1>7, <1>18, <1>19, <1>21, <1>22

\* Two neighbours become one node.
NodesMerged(t, a, u) ==
  LET l == t.kids[a]
      r == t.kids[a + 1]
  IN  u = [keys |-> RemoveAt(t.keys, a),
           kids |-> ReplaceAt(RemoveAt(t.kids, a + 1), a,
             [keys |-> l.keys \o <<t.keys[a]>> \o r.keys, kids |-> l.kids \o r.kids])]

\* The slots of a path into one of them, before and after.
PathsMerged(t, a, b, u) ==
  /\ \A bound : \A k \in Nat : Leads(t.keys, MinKey, a, bound, k) =>
       bound = t.keys[a] /\ Leads(u.keys, MinKey, a, UpperBound(t.keys, b, MinKey), k)
  /\ \A bound : \A k \in Nat : Leads(t.keys, MinKey, b, bound, k) =>
       Leads(u.keys, MinKey, a, bound, k)
  /\ \A outer, bound : \A k \in Nat, j \in Nat :
       InSlot(t.keys, a, k) /\ Leads(t.kids[a].keys, t.keys[a], j, bound, k)
         => Leads(u.kids[a].keys, outer, j, bound, k)
  /\ \A outer, bound : \A k \in Nat, j \in Nat :
       InSlot(t.keys, b, k) /\ Leads(t.kids[b].keys, outer, j, bound, k)
         => Leads(u.kids[a].keys, outer, Len(t.kids[a].keys) + 1 + j, bound, k)

LEMMA MergedGood ==
  ASSUME NEW t, TreeGood(t), NEW a \in 1 .. Len(t.keys), NEW b, b = a + 1,
         Len(t.kids[a].keys) + 1 + Len(t.kids[b].keys) <= MaxKeys,
         NEW u, NodesMerged(t, a, u)
  PROVE  /\ TreeGood(u) /\ Contents(u) = Contents(t)
         /\ PathsMerged(t, a, b, u)
<1>1. PICK x : x = t.kids[a] OBVIOUS
<1>2. PICK y : y = t.kids[b] OBVIOUS
<1>3. PICK c : c = t.keys[a] OBVIOUS
<1>4. /\ a \in Nat /\ b \in Nat /\ a \in 1 .. Len(t.keys) + 1 /\ b \in 1 .. Len(t.keys) + 1
      /\ a \in DOMAIN t.kids /\ b \in DOMAIN t.kids /\ c \in Nat /\ a # b
      /\ NodeGood(x) /\ Len(x.keys) \in Nat /\ Len(x.keys) <= MaxKeys
      /\ NodeGood(y) /\ Len(y.keys) \in Nat /\ Len(y.keys) <= MaxKeys
      /\ Between(t.keys, a, c) /\ Between(t.keys, b, c)
      /\ \A k \in RowsOf(x) : k < c
      /\ \A k \in RowsOf(y) : c <= k
      /\ \A k \in ToSet(x.keys) : k \in Nat /\ k <= c /\ Between(t.keys, a, k)
      /\ \A k \in ToSet(y.keys) : k \in Nat /\ c <= k /\ Between(t.keys, b, k)
  BY ONLY <1>1, <1>2, <1>3, TreeGood(t), a \in 1 .. Len(t.keys), b = a + 1, Neighbours
<1>5. /\ t.keys \in Seq(Nat) /\ t.kids \in Seq(Nodes) /\ Ascending(t.keys)
      /\ Len(t.keys) \in Nat /\ Len(t.kids) = Len(t.keys) + 1
      /\ DOMAIN t.kids = 1 .. Len(t.keys) + 1 /\ DOMAIN t.keys = 1 .. Len(t.keys)
  BY TreeFacts
<1>6. PICK m : Joined(x, y, c, m) BY DEF Joined
<1>7. Apart(x, y, c) BY ONLY <1>4 DEF Apart
<1>8. /\ NodeGood(m) /\ RowsOf(m) = RowsOf(x) \cup RowsOf(y)
      /\ \A k \in ToSet(m.keys) : k \in ToSet(x.keys) \/ k = c \/ k \in ToSet(y.keys)
      /\ Chained(x.keys, y.keys, c, m.keys)
  BY ONLY <1>6, <1>7, NodeJoined
<1>9. Len(m.keys) <= MaxKeys
  <2>1. Len(m.keys) = Len(x.keys) + 1 + Len(y.keys) BY ONLY <1>8 DEF Chained
  <2> QED BY <1>1, <1>2, <2>1
<1>10. PICK rest : rest = RemoveAt(t.kids, b) OBVIOUS
<1>11. PICK kids : kids = ReplaceAt(rest, a, m) OBVIOUS
<1>12. PICK keys : keys = RemoveAt(t.keys, a) OBVIOUS
<1>13. u = [keys |-> keys, kids |-> kids]
  <2>1. m = [keys |-> x.keys \o <<c>> \o y.keys, kids |-> x.kids \o y.kids] BY ONLY <1>6 DEF Joined
  <2>2. u = [keys |-> RemoveAt(t.keys, a),
             kids |-> ReplaceAt(RemoveAt(t.kids, b), a,
               [keys |-> x.keys \o <<c>> \o y.keys, kids |-> x.kids \o y.kids])]
    BY ONLY <1>1, <1>2, <1>3, b = a + 1, NodesMerged(t, a, u) DEF NodesMerged
  <2> QED BY ONLY <1>10, <1>11, <1>12, <2>1, <2>2
<1>14. /\ keys \in Seq(Nat) /\ Len(keys) = Len(t.keys) - 1
  BY ONLY <1>5, <1>12, a \in 1 .. Len(t.keys), RemoveAtKeys
<1>15. /\ rest \in Seq(Nodes) /\ Len(rest) = Len(t.kids) - 1
       /\ \A j \in 1 .. Len(t.kids) - 1 :
            /\ j < b => rest[j] = t.kids[j]
            /\ j >= b => rest[j] = t.kids[j + 1]
  <2>1. b \in 1 .. Len(t.kids) BY ONLY <1>4, <1>5
  <2> QED BY ONLY <1>5, <1>10, <2>1, RemoveAtPoints
<1>16. /\ kids \in Seq(Nodes) /\ Len(kids) = Len(t.kids) - 1 /\ kids[a] = m
       /\ \A j \in 1 .. Len(t.keys) : j # a => kids[j] = rest[j]
  <2>1. m \in Nodes BY ONLY <1>8 DEF NodeGood
  <2>2. kids = [rest EXCEPT ![a] = m] BY ONLY <1>11 DEF ReplaceAt
  <2>3. a \in 1 .. Len(rest) /\ Len(rest) = Len(t.keys) BY ONLY <1>5, <1>15, a \in 1 .. Len(t.keys)
  <2> QED BY ONLY <1>5, <1>15, <2>1, <2>2, <2>3
<1>17. u \in Trees /\ u.keys = RemoveAt(t.keys, a) /\ Len(u.kids) = Len(t.kids) - 1 /\ u.kids[a] = m
       /\ u.keys = keys
  BY ONLY <1>12, <1>13, <1>14, <1>16 DEF Trees
<1>18. \A j \in 1 .. Len(t.keys) + 1 : j < a => u.kids[j] = t.kids[j]
  <2> SUFFICES ASSUME NEW j \in 1 .. Len(t.keys) + 1, j < a PROVE u.kids[j] = t.kids[j] OBVIOUS
  <2>1. j \in 1 .. Len(t.keys) /\ j # a /\ j < b /\ j \in 1 .. Len(t.kids) - 1
    BY ONLY <1>4, <1>5, a \in 1 .. Len(t.keys), b = a + 1, j \in 1 .. Len(t.keys) + 1, j < a
  <2> QED BY ONLY <1>13, <1>15, <1>16, <2>1
<1>19. \A j \in 1 .. Len(t.keys) : j > a => u.kids[j] = t.kids[j + 1]
  <2> SUFFICES ASSUME NEW j \in 1 .. Len(t.keys), j > a PROVE u.kids[j] = t.kids[j + 1] OBVIOUS
  <2>1. j # a /\ j >= b /\ j \in 1 .. Len(t.kids) - 1
    BY ONLY <1>4, <1>5, a \in 1 .. Len(t.keys), b = a + 1, j \in 1 .. Len(t.keys), j > a
  <2> QED BY ONLY <1>13, <1>15, <1>16, <2>1, j \in 1 .. Len(t.keys)
<1>20. TreeGood(u) /\ Contents(u) = Contents(t)
  <2>1. NodeGood(u.kids[a]) /\ Len(u.kids[a].keys) <= MaxKeys BY ONLY <1>8, <1>9, <1>17
  <2>2. \A k \in ToSet(u.kids[a].keys) : Between(t.keys, a, k) \/ Between(t.keys, a + 1, k)
    BY ONLY <1>4, <1>8, <1>17, b = a + 1
  <2>3. RowsOf(u.kids[a]) = RowsOf(t.kids[a]) \cup RowsOf(t.kids[a + 1])
    BY ONLY <1>1, <1>2, <1>8, <1>17, b = a + 1
  <2>4. u \in Trees /\ u.keys = RemoveAt(t.keys, a) /\ Len(u.kids) = Len(t.kids) - 1
    BY ONLY <1>17
  <2> QED BY ONLY <1>18, <1>19, <2>1, <2>2, <2>3, <2>4, TreeGood(t), a \in 1 .. Len(t.keys), TreeMerged
<1>21. ASSUME NEW bound, NEW k \in Nat
       PROVE  /\ Leads(t.keys, MinKey, a, bound, k) =>
                   bound = c /\ Leads(u.keys, MinKey, a, UpperBound(t.keys, b, MinKey), k)
              /\ Leads(t.keys, MinKey, b, bound, k) => Leads(u.keys, MinKey, a, bound, k)
  <2>1. /\ Leads(t.keys, MinKey, a, bound, k) =>
             Leads(keys, MinKey, a, UpperBound(t.keys, a + 1, MinKey), k)
        /\ Leads(t.keys, MinKey, a + 1, bound, k) => Leads(keys, MinKey, a, bound, k)
    BY ONLY <1>5, <1>12, a \in 1 .. Len(t.keys), k \in Nat, LeadsRemoved
  <2>2. Leads(t.keys, MinKey, a, bound, k) => bound = c
    BY ONLY <1>3, <1>5, a \in 1 .. Len(t.keys) DEF Leads, UpperBound
  <2> QED BY ONLY <1>17, <2>1, <2>2, b = a + 1
<1>22. ASSUME NEW outer, NEW bound, NEW k \in Nat, NEW j \in Nat,
              InSlot(t.keys, a, k), Leads(x.keys, c, j, bound, k)
       PROVE  Leads(m.keys, outer, j, bound, k)
  <2>1. k < c
    <3>1. a <= Len(t.keys) OBVIOUS
    <3> QED BY ONLY <1>3, <1>22, <3>1 DEF InSlot
  <2> QED BY ONLY <1>6, <1>7, <1>22, <2>1, k \in Nat, j \in Nat, NodeJoinedSlots
<1>23. ASSUME NEW outer, NEW bound, NEW k \in Nat, NEW j \in Nat,
              InSlot(t.keys, b, k), Leads(y.keys, outer, j, bound, k)
       PROVE  Leads(m.keys, outer, Len(x.keys) + 1 + j, bound, k)
  <2>1. c <= k
    <3>1. b > 1 /\ b - 1 = a BY ONLY <1>4, b = a + 1, a \in 1 .. Len(t.keys)
    <3> QED BY ONLY <1>3, <1>23, <3>1 DEF InSlot
  <2> QED BY ONLY <1>6, <1>7, <1>23, <2>1, k \in Nat, j \in Nat, NodeJoinedSlots
<1>24. PathsMerged(t, a, b, u)
  BY ONLY <1>1, <1>2, <1>3, <1>17, <1>21, <1>22, <1>23 DEF PathsMerged
<1> QED BY ONLY <1>20, <1>24

-----------------------------------------------------------------------------
(* innerErase.                                                             *)

LEMMA MinKeysFacts == MinKeys \in Nat /\ MinKeys >= 2 /\ MinKeys + MinKeys <= MaxKeys
BY DEF MinKeys

LEMMA FewKeys ==
  \A a, b \in Nat : a < MinKeys /\ ~ (b > MinKeys) => a + 1 + b <= MaxKeys /\ b + 1 + a <= MaxKeys
BY MinKeysFacts

\* A node loses a child, and the key before it.
Removed(n, pos, m) == m = [keys |-> RemoveAt(n.keys, pos - 1), kids |-> RemoveAt(n.kids, pos)]

\* The ways in which innerErase leaves the tree t, once a child is gone.
Rebalanced(t, n, i, p, r) ==
  \/ r.t = t /\ r.p = p
  \/ /\ Len(n.keys) < MinKeys /\ i > 1 /\ Len(t.kids[i - 1].keys) > MinKeys
     /\ FromPrevious(t, i, r.t) /\ r.p = [p EXCEPT !.inner = @ + 1]
  \/ /\ Len(n.keys) < MinKeys /\ i < Len(t.kids) /\ Len(t.kids[i + 1].keys) > MinKeys
     /\ FromNext(t, i, r.t) /\ r.p = [p EXCEPT !.innerBound = Head(t.kids[i + 1].keys)]
  \/ /\ Len(n.keys) < MinKeys /\ i < Len(t.kids) /\ ~ (Len(t.kids[i + 1].keys) > MinKeys)
     /\ NodesMerged(t, i, r.t)
     /\ r.p = [p EXCEPT !.innerBound = UpperBound(t.keys, i + 1, MinKey)]
  \/ /\ Len(n.keys) < MinKeys /\ i > 1 /\ ~ (Len(t.kids[i - 1].keys) > MinKeys)
     /\ NodesMerged(t, i - 1, r.t)
     /\ r.p = [p EXCEPT !.root = @ - 1, !.inner = @ + Len(t.kids[i - 1].kids)]

LEMMA InnerEraseCases ==
  ASSUME NEW t0, NEW p, NEW pos, NEW n, Removed(t0.kids[p.root], pos, n),
         NEW t, SetKid(t0, p.root, n, t), NEW i, i = p.root, n = t.kids[i],
         Len(n.keys) \in Nat, Len(t.kids) \in Nat, i \in 1 .. Len(t.kids),
         NEW r, r = InnerErase(t0, p, pos)
  PROVE  Rebalanced(t, n, i, p, r)
<1> DEFINE slot == p.root
           node == [keys |-> RemoveAt(t0.kids[slot].keys, pos - 1),
                    kids |-> RemoveAt(t0.kids[slot].kids, pos)]
           s == [t0 EXCEPT !.kids[slot] = node]
<1>1. node = n BY DEF Removed
<1>2. s = t BY <1>1 DEF SetKid
<1>3. slot = i OBVIOUS
<1> HIDE DEF slot, node, s
<1>4. PICK prev : prev = t.kids[i - 1] OBVIOUS
<1>5. PICK next : next = t.kids[i + 1] OBVIOUS
<1>6. r = IF Len(n.keys) >= MinKeys \/ Len(t.kids) = 1
            THEN [t |-> t, p |-> p]
          ELSE IF i > 1 /\ Len(prev.keys) > MinKeys
            THEN [t |-> [keys |-> [t.keys EXCEPT ![i - 1] = Last(prev.keys)],
                         kids |-> [t.kids EXCEPT
                           ![i - 1] = [keys |-> Front(@.keys), kids |-> Front(@.kids)],
                           ![i] = [keys |-> <<t.keys[i - 1]>> \o @.keys,
                                   kids |-> <<Last(prev.kids)>> \o @.kids]]],
                  p |-> [p EXCEPT !.inner = @ + 1]]
          ELSE IF i < Len(t.kids) /\ Len(next.keys) > MinKeys
            THEN [t |-> [keys |-> [t.keys EXCEPT ![i] = Head(next.keys)],
                         kids |-> [t.kids EXCEPT
                           ![i] = [keys |-> Append(@.keys, t.keys[i]),
                                   kids |-> Append(@.kids, Head(next.kids))],
                           ![i + 1] = [keys |-> Tail(@.keys), kids |-> Tail(@.kids)]]],
                  p |-> [p EXCEPT !.innerBound = Head(next.keys)]]
          ELSE IF i < Len(t.kids)
            THEN [t |-> [keys |-> RemoveAt(t.keys, i),
                         kids |-> ReplaceAt(RemoveAt(t.kids, i + 1), i,
                           [keys |-> n.keys \o <<t.keys[i]>> \o next.keys,
                            kids |-> n.kids \o next.kids])],
                  p |-> [p EXCEPT !.innerBound = UpperBound(t.keys, i + 1, MinKey)]]
          ELSE [t |-> [keys |-> RemoveAt(t.keys, i - 1),
                       kids |-> ReplaceAt(RemoveAt(t.kids, i - 1 + 1), i - 1,
                         [keys |-> prev.keys \o <<t.keys[i - 1]>> \o n.keys,
                          kids |-> prev.kids \o n.kids])],
                p |-> [p EXCEPT !.root = @ - 1, !.inner = @ + Len(prev.kids)]]
  <2>1. r = InnerErase(t0, p, pos) OBVIOUS
  <2> QED BY ONLY <1>1, <1>2, <1>3, <1>4, <1>5, <2>1 DEF InnerErase, slot, node, s
<1>7. Len(n.keys) \in Nat /\ MinKeys \in Nat BY MinKeysFacts
<1>8. i - 1 + 1 = i OBVIOUS
<1>9. CASE Len(n.keys) >= MinKeys \/ Len(t.kids) = 1
  <2>1. r = [t |-> t, p |-> p] BY ONLY <1>6, <1>9
  <2> QED BY ONLY <2>1 DEF Rebalanced
<1>10. CASE /\ ~ (Len(n.keys) >= MinKeys \/ Len(t.kids) = 1)
            /\ i > 1 /\ Len(prev.keys) > MinKeys
  <2>1. Len(n.keys) < MinKeys BY ONLY <1>7, <1>10
  <2>2. r = [t |-> [keys |-> [t.keys EXCEPT ![i - 1] = Last(prev.keys)],
                    kids |-> [t.kids EXCEPT
                      ![i - 1] = [keys |-> Front(@.keys), kids |-> Front(@.kids)],
                      ![i] = [keys |-> <<t.keys[i - 1]>> \o @.keys,
                              kids |-> <<Last(prev.kids)>> \o @.kids]]],
             p |-> [p EXCEPT !.inner = @ + 1]]
    BY ONLY <1>6, <1>10
  <2> QED BY ONLY <1>4, <1>10, <2>1, <2>2 DEF Rebalanced, FromPrevious
<1>11. CASE /\ ~ (Len(n.keys) >= MinKeys \/ Len(t.kids) = 1)
            /\ ~ (i > 1 /\ Len(prev.keys) > MinKeys)
            /\ i < Len(t.kids) /\ Len(next.keys) > MinKeys
  <2>1. Len(n.keys) < MinKeys BY ONLY <1>7, <1>11
  <2>2. r = [t |-> [keys |-> [t.keys EXCEPT ![i] = Head(next.keys)],
                    kids |-> [t.kids EXCEPT
                      ![i] = [keys |-> Append(@.keys, t.keys[i]),
                              kids |-> Append(@.kids, Head(next.kids))],
                      ![i + 1] = [keys |-> Tail(@.keys), kids |-> Tail(@.kids)]]],
             p |-> [p EXCEPT !.innerBound = Head(next.keys)]]
    BY ONLY <1>6, <1>11
  <2> QED BY ONLY <1>5, <1>11, <2>1, <2>2 DEF Rebalanced, FromNext
<1>12. CASE /\ ~ (Len(n.keys) >= MinKeys \/ Len(t.kids) = 1)
            /\ ~ (i > 1 /\ Len(prev.keys) > MinKeys)
            /\ ~ (i < Len(t.kids) /\ Len(next.keys) > MinKeys)
            /\ i < Len(t.kids)
  <2>1. Len(n.keys) < MinKeys BY ONLY <1>7, <1>12
  <2>2. r = [t |-> [keys |-> RemoveAt(t.keys, i),
                    kids |-> ReplaceAt(RemoveAt(t.kids, i + 1), i,
                      [keys |-> n.keys \o <<t.keys[i]>> \o next.keys,
                       kids |-> n.kids \o next.kids])],
             p |-> [p EXCEPT !.innerBound = UpperBound(t.keys, i + 1, MinKey)]]
    BY ONLY <1>6, <1>12
  <2>3. n = t.kids[i] OBVIOUS
  <2> QED BY ONLY <1>5, <1>12, <2>1, <2>2, <2>3 DEF Rebalanced, NodesMerged
<1>13. CASE /\ ~ (Len(n.keys) >= MinKeys \/ Len(t.kids) = 1)
            /\ ~ (i > 1 /\ Len(prev.keys) > MinKeys)
            /\ ~ (i < Len(t.kids) /\ Len(next.keys) > MinKeys)
            /\ ~ (i < Len(t.kids))
  <2>1. Len(n.keys) < MinKeys /\ i > 1
    <3>1. Len(t.kids) \in Nat /\ i \in 1 .. Len(t.kids) OBVIOUS
    <3>2. ~ (Len(n.keys) >= MinKeys) /\ Len(t.kids) # 1 /\ ~ (i < Len(t.kids)) BY ONLY <1>13
    <3>3. PICK x : x = Len(n.keys) OBVIOUS
    <3>4. PICK y : y = Len(t.kids) OBVIOUS
    <3>5. x < MinKeys BY ONLY <1>7, <3>2, <3>3
    <3>6. y \in Nat /\ i \in 1 .. y /\ y # 1 /\ ~ (i < y) BY ONLY <3>1, <3>2, <3>4
    <3>7. i \in Int /\ 1 <= i /\ i <= y BY ONLY <3>6
    <3>8. i > 1 BY ONLY <3>6, <3>7
    <3> QED BY ONLY <3>3, <3>5, <3>8
  <2>2. r = [t |-> [keys |-> RemoveAt(t.keys, i - 1),
                    kids |-> ReplaceAt(RemoveAt(t.kids, i - 1 + 1), i - 1,
                      [keys |-> prev.keys \o <<t.keys[i - 1]>> \o n.keys,
                       kids |-> prev.kids \o n.kids])],
             p |-> [p EXCEPT !.root = @ - 1, !.inner = @ + Len(prev.kids)]]
    BY ONLY <1>6, <1>13
  <2>3. n = t.kids[i - 1 + 1] BY <1>8
  <2> QED BY ONLY <1>4, <1>13, <2>1, <2>2, <2>3 DEF Rebalanced, NodesMerged
<1> QED BY ONLY <1>9, <1>10, <1>11, <1>12, <1>13



LEMMA InnerEraseGood ==
  ASSUME NEW t0, NEW p, NEW pos, NEW n, Removed(t0.kids[p.root], pos, n),
         NEW t, SetKid(t0, p.root, n, t), n = t.kids[p.root], TreeGood(t), Fresh(t, p),
         NEW r, r = InnerErase(t0, p, pos)
  PROVE  Grown(t, p, r, {})
<1>1. PICK i : i = p.root OBVIOUS
<1>2. PICK j : j = p.inner OBVIOUS
<1>3. PICK key : key = p.rowKey OBVIOUS
<1>4. /\ p \in Paths /\ key \in Keys /\ key \in Nat
      /\ i \in 1 .. Len(t.keys) + 1 /\ i \in Nat
      /\ NodeGood(n) /\ Len(n.keys) <= MaxKeys
      /\ j \in Nat
  BY ONLY <1>1, <1>2, <1>3, TreeGood(t), Fresh(t, p), n = t.kids[p.root], FreshFacts
<1>5. /\ Leads(t.keys, MinKey, i, p.innerBound, key) /\ InSlot(t.keys, i, key)
      /\ Leads(n.keys, p.innerBound, j, p.leafBound, key)
  BY <1>1, <1>2, <1>3 DEF Fresh, Leads
<1>6. Len(t.keys) \in Nat /\ Len(t.kids) = Len(t.keys) + 1 /\ t.keys \in Seq(Nat) BY TreeFacts
<1>7. MinKeys \in Nat /\ MinKeys >= 2 /\ MinKeys + MinKeys <= MaxKeys /\ MaxKeys \in Nat
  BY MinKeysFacts
<1>8. Len(n.keys) \in Nat BY <1>4, NodeFacts
<1>9. n = t.kids[i] BY <1>1
<1>10. /\ p.root \in Nat /\ p.inner \in Nat /\ p.innerBound \in Nat /\ p.leafBound \in Nat
       /\ p.rowKey \in Keys
       /\ p = [root |-> p.root, inner |-> p.inner, innerBound |-> p.innerBound,
               leafBound |-> p.leafBound, rowKey |-> p.rowKey]
  BY <1>4 DEF Paths
<1>11. CASE r.t = t /\ r.p = p BY <1>11 DEF Grown
<1>12. CASE /\ Len(n.keys) < MinKeys /\ i > 1 /\ Len(t.kids[i - 1].keys) > MinKeys
            /\ FromPrevious(t, i, r.t) /\ r.p = [p EXCEPT !.inner = @ + 1]
  <2>1. PICK a : a = i - 1 OBVIOUS
  <2>2. a \in 1 .. Len(t.keys) /\ i = a + 1 /\ a \in 1 .. Len(t.keys) + 1 BY ONLY <1>4, <1>6, <1>12, <2>1
  <2>3. Len(t.kids[a].keys) \in Nat
    <3>1. NodeGood(t.kids[a]) BY <2>2, TreeFacts
    <3> QED BY <3>1, NodeFacts
  <2>4. Len(t.kids[a].keys) >= 1 /\ Len(t.kids[i].keys) < MaxKeys
    BY ONLY <1>7, <1>8, <1>9, <1>12, <2>1, <2>3
  <2>5. FromPrevious(t, i, r.t) BY <1>12
  <2>6. TreeGood(r.t) /\ Contents(r.t) = Contents(t)
    BY ONLY <2>2, <2>4, <2>5, TreeGood(t), FromPreviousGood
  <2>7. Leads(r.t.keys, MinKey, i, p.innerBound, key)
    BY ONLY <1>4, <1>5, <2>2, <2>4, <2>5, TreeGood(t), FromPreviousGood
  <2>8. Leads(r.t.kids[i].keys, p.innerBound, j + 1, p.leafBound, key)
    BY ONLY <1>4, <1>5, <1>9, <2>2, <2>4, <2>5, TreeGood(t), FromPreviousGood
  <2>9. r.p = [root |-> i, inner |-> j + 1, innerBound |-> p.innerBound,
               leafBound |-> p.leafBound, rowKey |-> key]
    BY ONLY <1>1, <1>2, <1>3, <1>10, <1>12
  <2>10. r.p \in Paths BY ONLY <1>4, <1>10, <2>9 DEF Paths
  <2>11. Fresh(r.t, r.p) BY ONLY <2>7, <2>8, <2>9, <2>10 DEF Fresh
  <2> QED BY ONLY <1>3, <2>6, <2>9, <2>11 DEF Grown
<1>13. CASE /\ Len(n.keys) < MinKeys /\ i < Len(t.kids) /\ Len(t.kids[i + 1].keys) > MinKeys
            /\ FromNext(t, i, r.t) /\ r.p = [p EXCEPT !.innerBound = Head(t.kids[i + 1].keys)]
  <2>1. PICK b : b = i + 1 OBVIOUS
  <2>2. i \in 1 .. Len(t.keys) /\ b \in 1 .. Len(t.keys) + 1 BY ONLY <1>4, <1>6, <1>13, <2>1
  <2>3. Len(t.kids[b].keys) \in Nat
    <3>1. NodeGood(t.kids[b]) BY <2>2, TreeFacts
    <3> QED BY <3>1, NodeFacts
  <2>4. Len(t.kids[b].keys) >= 1 /\ Len(t.kids[i].keys) < MaxKeys
    BY ONLY <1>7, <1>8, <1>9, <1>13, <2>1, <2>3
  <2>5. FromNext(t, i, r.t) BY <1>13
  <2>6. PICK cut : NextKey(t, b, cut) BY DEF NextKey
  <2>7. TreeGood(r.t) /\ Contents(r.t) = Contents(t) /\ cut \in Nat
    BY ONLY <2>1, <2>2, <2>4, <2>5, <2>6, TreeGood(t), FromNextGood
  <2>8. p.innerBound = t.keys[i] /\ Leads(r.t.keys, MinKey, i, cut, key)
    <3>1. Leads(t.keys, MinKey, i, p.innerBound, key) /\ key \in Nat BY <1>4, <1>5
    <3>2. p.innerBound = t.keys[i]
      BY ONLY <2>1, <2>2, <2>4, <2>5, <2>6, <3>1, TreeGood(t), FromNextGood
    <3>3. Leads(r.t.keys, MinKey, i, cut, key)
      BY ONLY <2>1, <2>2, <2>4, <2>5, <2>6, <3>1, TreeGood(t), FromNextGood
    <3> QED BY ONLY <3>2, <3>3
  <2>9. Leads(r.t.kids[i].keys, cut, j, p.leafBound, key)
    <3>1. InSlot(t.keys, i, key) /\ Leads(t.kids[i].keys, t.keys[i], j, p.leafBound, key)
      BY ONLY <1>5, <1>9, <2>8
    <3>2. key \in Nat /\ j \in Nat BY <1>4
    <3> QED BY ONLY <2>1, <2>2, <2>4, <2>5, <2>6, <3>1, <3>2, TreeGood(t), FromNextGood
  <2>10. r.p = [root |-> i, inner |-> j, innerBound |-> cut,
                leafBound |-> p.leafBound, rowKey |-> key]
    BY ONLY <1>1, <1>2, <1>3, <1>10, <1>13, <2>1, <2>6 DEF NextKey
  <2>11. r.p \in Paths BY ONLY <1>4, <1>10, <2>7, <2>10 DEF Paths
  <2>12. Fresh(r.t, r.p) BY ONLY <2>8, <2>9, <2>10, <2>11 DEF Fresh
  <2> QED BY ONLY <1>3, <2>7, <2>10, <2>12 DEF Grown
<1>14. CASE /\ Len(n.keys) < MinKeys /\ i < Len(t.kids) /\ ~ (Len(t.kids[i + 1].keys) > MinKeys)
            /\ NodesMerged(t, i, r.t)
            /\ r.p = [p EXCEPT !.innerBound = UpperBound(t.keys, i + 1, MinKey)]
  <2>1. PICK b : b = i + 1 OBVIOUS
  <2>2. i \in 1 .. Len(t.keys) /\ b \in 1 .. Len(t.keys) + 1 /\ b \in Nat BY ONLY <1>4, <1>6, <1>14, <2>1
  <2>3. Len(t.kids[b].keys) \in Nat
    <3>1. NodeGood(t.kids[b]) BY <2>2, TreeFacts
    <3> QED BY <3>1, NodeFacts
  <2>4. Len(t.kids[i].keys) + 1 + Len(t.kids[b].keys) <= MaxKeys
    <3>1. Len(n.keys) < MinKeys /\ ~ (Len(t.kids[b].keys) > MinKeys) BY ONLY <1>14, <2>1
    <3> QED BY ONLY <1>8, <1>9, <2>3, <3>1, FewKeys
  <2>5. NodesMerged(t, i, r.t) BY <1>14
  <2>6. PICK up : up = UpperBound(t.keys, b, MinKey) OBVIOUS
  <2>7. TreeGood(r.t) /\ Contents(r.t) = Contents(t) /\ PathsMerged(t, i, b, r.t)
    BY ONLY <2>1, <2>2, <2>4, <2>5, TreeGood(t), MergedGood
  <2>8. p.innerBound = t.keys[i] /\ Leads(r.t.keys, MinKey, i, up, key)
    BY ONLY <1>4, <1>5, <2>6, <2>7 DEF PathsMerged
  <2>9. Leads(r.t.kids[i].keys, up, j, p.leafBound, key)
    BY ONLY <1>4, <1>5, <1>9, <2>7, <2>8 DEF PathsMerged
  <2>10. r.p = [root |-> i, inner |-> j, innerBound |-> up,
                leafBound |-> p.leafBound, rowKey |-> key]
    BY ONLY <1>1, <1>2, <1>3, <1>10, <1>14, <2>1, <2>6
  <2>11. up \in Nat BY ONLY <1>6, <2>2, <2>6, Bounded, MinKey \in Nat DEF MinKey
  <2>12. r.p \in Paths BY ONLY <1>4, <1>10, <2>10, <2>11 DEF Paths
  <2>13. Fresh(r.t, r.p) BY ONLY <2>8, <2>9, <2>10, <2>12 DEF Fresh
  <2> QED BY ONLY <1>3, <2>7, <2>10, <2>13 DEF Grown
<1>15. CASE /\ Len(n.keys) < MinKeys /\ i > 1 /\ ~ (Len(t.kids[i - 1].keys) > MinKeys)
            /\ NodesMerged(t, i - 1, r.t)
            /\ r.p = [p EXCEPT !.root = @ - 1, !.inner = @ + Len(t.kids[i - 1].kids)]
  <2>1. PICK a : a = i - 1 OBVIOUS
  <2>0. i > 1 /\ Len(n.keys) < MinKeys /\ ~ (Len(t.kids[i - 1].keys) > MinKeys) BY <1>15
  <2>2. a \in 1 .. Len(t.keys) /\ i = a + 1 /\ a \in 1 .. Len(t.keys) + 1 /\ a \in Nat
    BY ONLY <1>4, <1>6, <2>0, <2>1
  <2>3. Len(t.kids[a].keys) \in Nat /\ Len(t.kids[a].kids) = Len(t.kids[a].keys) + 1
    <3>1. NodeGood(t.kids[a]) BY <2>2, TreeFacts
    <3> QED BY <3>1, NodeFacts
  <2>4. Len(t.kids[a].keys) + 1 + Len(t.kids[i].keys) <= MaxKeys
    <3>1. ~ (Len(t.kids[a].keys) > MinKeys) BY ONLY <2>0, <2>1
    <3> QED BY ONLY <1>8, <1>9, <2>0, <2>3, <3>1, FewKeys
  <2>5. NodesMerged(t, a, r.t) BY <1>15, <2>1
  <2>6. PICK c : c = Len(t.kids[a].keys) + 1 + j OBVIOUS
  <2>7. TreeGood(r.t) /\ Contents(r.t) = Contents(t) /\ PathsMerged(t, a, i, r.t)
    BY ONLY <2>2, <2>4, <2>5, TreeGood(t), MergedGood
  <2>8. Leads(r.t.keys, MinKey, a, p.innerBound, key)
    BY ONLY <1>4, <1>5, <2>7 DEF PathsMerged
  <2>9. Leads(r.t.kids[a].keys, p.innerBound, c, p.leafBound, key)
    BY ONLY <1>4, <1>5, <1>9, <2>6, <2>7 DEF PathsMerged
  <2>10. r.p = [root |-> a, inner |-> c, innerBound |-> p.innerBound,
                leafBound |-> p.leafBound, rowKey |-> key]
    <3>1. p.root - 1 = a /\ p.inner + Len(t.kids[a].kids) = c
      BY ONLY <1>1, <1>2, <1>4, <2>1, <2>3, <2>6
    <3>2. r.p = [p EXCEPT !.root = p.root - 1, !.inner = p.inner + Len(t.kids[a].kids)]
      BY ONLY <1>10, <1>15, <2>1
    <3> QED BY ONLY <1>3, <1>10, <3>1, <3>2
  <2>11. c \in Nat BY ONLY <1>4, <2>3, <2>6
  <2>12. r.p \in Paths BY ONLY <1>4, <1>10, <2>2, <2>10, <2>11 DEF Paths
  <2>13. Fresh(r.t, r.p) BY ONLY <2>8, <2>9, <2>10, <2>12 DEF Fresh
  <2> QED BY ONLY <1>3, <2>7, <2>10, <2>13 DEF Grown
<1>16. Rebalanced(t, n, i, p, r)
  <2>1. Len(t.kids) \in Nat /\ i \in 1 .. Len(t.kids) BY ONLY <1>4, <1>6
  <2> QED BY ONLY <1>1, <1>8, <1>9, <2>1, Removed(t0.kids[p.root], pos, n), SetKid(t0, p.root, n, t),
                  r = InnerErase(t0, p, pos), InnerEraseCases
<1> QED BY ONLY <1>11, <1>12, <1>13, <1>14, <1>15, <1>16 DEF Rebalanced

-----------------------------------------------------------------------------
(* Rows move between leaves, and leaves are merged.                        *)

\* A node is replaced by one with the same rows.
LEMMA NodeChanged ==
  ASSUME NEW t, TreeGood(t), NEW i \in 1 .. Len(t.keys) + 1, NEW n, n = t.kids[i],
         NEW m, NodeGood(m), RowsOf(m) = RowsOf(n), Len(m.keys) <= MaxKeys,
         \A k \in ToSet(m.keys) : Between(t.keys, i, k),
         NEW u, SetKid(t, i, m, u)
  PROVE  TreeGood(u) /\ Contents(u) = Contents(t) /\ u.keys = t.keys /\ u.kids[i] = m
<1>1. /\ t \in Trees /\ Len(t.kids) = Len(t.keys) + 1 /\ i \in DOMAIN t.kids /\ m \in Nodes
  <2>1. DOMAIN t.kids = 1 .. Len(t.keys) + 1 BY TreeFacts
  <2> QED BY <2>1 DEF TreeGood, NodeGood
<1>2. /\ u \in Trees /\ u.keys = t.keys /\ Len(u.kids) = Len(t.kids)
      /\ \A x \in 1 .. Len(t.keys) + 1 : x # i => u.kids[x] = t.kids[x]
      /\ u.kids[i] = m
  BY ONLY <1>1, SetKid(t, i, m, u), KidReplaced
<1>3. \A k \in RowsOf(u.kids[i]) : InSlot(t.keys, i, k) /\ k \in Contents(t)
  BY <1>2, TreeFacts, ContentsRows
<1>4. NodeGood(u.kids[i]) /\ Len(u.kids[i].keys) <= MaxKeys BY <1>2
<1>5. \A k \in ToSet(u.kids[i].keys) : Between(t.keys, i, k) BY <1>2
<1>6. TreeGood(u) /\ Contents(u) = (Contents(t) \ RowsOf(t.kids[i])) \cup RowsOf(u.kids[i])
  <2>1. \A k \in RowsOf(u.kids[i]) : InSlot(t.keys, i, k) BY <1>3
  <2> QED BY ONLY <1>2, <1>4, <1>5, <2>1, TreeGood(t), i \in 1 .. Len(t.keys) + 1, TreeReplaced
<1>7. RowsOf(u.kids[i]) = RowsOf(t.kids[i]) BY <1>2
<1>8. Contents(u) = Contents(t) BY ONLY <1>3, <1>6, <1>7
<1> QED BY ONLY <1>2, <1>6, <1>8

\* Rows move between two leaves of a node, and the key between them changes.
LeavesExchanged(n, i, j, cut, x, y, m) ==
  m = [keys |-> [n.keys EXCEPT ![i] = cut], kids |-> [n.kids EXCEPT ![i] = x, ![j] = y]]

LeavesFit(n, i, j, cut, x, y) ==
  /\ cut \in Nat /\ (Between(n.keys, i, cut) \/ Between(n.keys, j, cut))
  /\ x \in Leaves /\ y \in Leaves
  /\ \A k \in x.rows : k < cut
  /\ \A k \in y.rows : cut <= k
  /\ x.rows \cup y.rows = n.kids[i].rows \cup n.kids[j].rows

LEMMA LeafPair ==
  ASSUME NEW n, NodeGood(n), NEW i \in 1 .. Len(n.keys), NEW j, j = i + 1,
         NEW cut, NEW x, NEW y, LeavesFit(n, i, j, cut, x, y),
         NEW m, LeavesExchanged(n, i, j, cut, x, y, m)
  PROVE  /\ NodeGood(m) /\ RowsOf(m) = RowsOf(n) /\ Len(m.keys) = Len(n.keys)
         /\ \A k \in ToSet(m.keys) : k \in ToSet(n.keys) \/ k = cut
         /\ \A outer, bound : \A k \in Nat :
              /\ Leads(n.keys, outer, i, bound, k) /\ k < cut => Leads(m.keys, outer, i, cut, k)
              /\ Leads(n.keys, outer, j, bound, k) /\ cut <= k => Leads(m.keys, outer, j, bound, k)
<1>0. cut \in Nat /\ x \in Leaves /\ y \in Leaves BY DEF LeavesFit
<1>1. /\ n.keys \in Seq(Nat) /\ n.kids \in Seq(Leaves) /\ Ascending(n.keys)
      /\ Len(n.keys) \in Nat /\ Len(n.kids) = Len(n.keys) + 1
      /\ DOMAIN n.kids = 1 .. Len(n.keys) + 1 /\ DOMAIN n.keys = 1 .. Len(n.keys)
  BY NodeFacts
<1>2. i \in Nat /\ j \in Nat /\ i # j /\ i \in 1 .. Len(n.keys) + 1 /\ j \in 1 .. Len(n.keys) + 1
  BY ONLY <1>1, i \in 1 .. Len(n.keys), j = i + 1
<1>3. PICK keys : keys = [n.keys EXCEPT ![i] = cut] OBVIOUS
<1>4. PICK kids : kids = [n.kids EXCEPT ![i] = x, ![j] = y] OBVIOUS
<1>5. m.keys = keys /\ m.kids = kids /\ m = [keys |-> keys, kids |-> kids]
  BY ONLY <1>3, <1>4, LeavesExchanged(n, i, j, cut, x, y, m) DEF LeavesExchanged
<1>6. /\ keys \in Seq(Nat) /\ Len(keys) = Len(n.keys) /\ keys[i] = cut
      /\ \A z \in 1 .. Len(n.keys) : z # i => keys[z] = n.keys[z]
  BY ONLY <1>0, <1>1, <1>3, i \in 1 .. Len(n.keys)
<1>7. /\ kids \in Seq(Leaves) /\ Len(kids) = Len(n.kids) /\ kids[i] = x /\ kids[j] = y
      /\ \A z \in 1 .. Len(n.keys) + 1 : z # i /\ z # j => kids[z] = n.kids[z]
  BY ONLY <1>0, <1>1, <1>2, <1>4
<1>8. Between(n.keys, i, cut) \/ Between(n.keys, i + 1, cut) BY j = i + 1 DEF LeavesFit
<1>9. NodeGood(m) /\ RowsOf(m) = RowsOf(n)
  <2>1. /\ m \in Nodes /\ Len(m.keys) = Len(n.keys) /\ Len(m.kids) = Len(n.kids) /\ m.keys[i] = cut
        /\ \A z \in 1 .. Len(n.keys) : z # i => m.keys[z] = n.keys[z]
    BY ONLY <1>5, <1>6, <1>7 DEF Nodes
  <2>2. \A z \in 1 .. Len(n.keys) + 1 : z # i /\ z # i + 1 => m.kids[z].rows = n.kids[z].rows
    BY ONLY <1>5, <1>7, j = i + 1
  <2>3. m.kids[i] = x /\ m.kids[i + 1] = y BY ONLY <1>5, <1>7, j = i + 1
  <2>4. \A k \in m.kids[i].rows : k < cut BY <2>3 DEF LeavesFit
  <2>5. \A k \in m.kids[i + 1].rows : cut <= k BY <2>3 DEF LeavesFit
  <2>6. m.kids[i].rows \cup m.kids[i + 1].rows = n.kids[i].rows \cup n.kids[i + 1].rows
    BY <2>3, j = i + 1 DEF LeavesFit
  <2>7. NodeGood(m) BY ONLY <1>0, <1>8, <2>1, <2>2, <2>4, <2>5, <2>6, NodeGood(n), i \in 1 .. Len(n.keys), NodeMoved
  <2>8. RowsOf(m) = RowsOf(n) BY ONLY <2>7, <1>0, <1>8, <2>1, <2>2, <2>4, <2>5, <2>6, NodeGood(n), i \in 1 .. Len(n.keys), NodeMoved
  <2> QED BY ONLY <2>7, <2>8
<1>10. \A k \in ToSet(m.keys) : k \in ToSet(n.keys) \/ k = cut
  <2>1. ToSet(keys) \subseteq ToSet(n.keys) \cup {cut}
    BY ONLY <1>0, <1>1, <1>6, <1>8, i \in 1 .. Len(n.keys), KeyMoved
  <2> QED BY ONLY <1>5, <2>1
<1>11. ASSUME NEW outer, NEW bound, NEW k \in Nat
       PROVE  /\ Leads(n.keys, outer, i, bound, k) /\ k < cut => Leads(m.keys, outer, i, cut, k)
              /\ Leads(n.keys, outer, j, bound, k) /\ cut <= k => Leads(m.keys, outer, j, bound, k)
  <2>1. /\ Leads(n.keys, outer, i, bound, k) /\ k < cut => Leads(keys, outer, i, cut, k)
        /\ Leads(n.keys, outer, i + 1, bound, k) /\ cut <= k => Leads(keys, outer, i + 1, bound, k)
    BY ONLY <1>0, <1>1, <1>6, <1>8, i \in 1 .. Len(n.keys), k \in Nat, LeadsMoved
  <2> QED BY ONLY <1>5, <2>1, j = i + 1
<1> QED BY ONLY <1>5, <1>6, <1>9, <1>10, <1>11

\* The bounds of the rows of a leaf of the tree.
LEMMA LeafBounds ==
  ASSUME NEW t, TreeGood(t), NEW i \in 1 .. Len(t.keys) + 1, NEW n, n = t.kids[i],
         NEW j \in 1 .. Len(n.keys) + 1
  PROVE  /\ n.kids[j] \in Leaves
         /\ \A k \in n.kids[j].rows : /\ k \in Nat /\ InSlot(n.keys, j, k) /\ Between(n.keys, j, k)
                                      /\ InSlot(t.keys, i, k) /\ Between(t.keys, i, k)
<1>1. NodeGood(n) BY TreeFacts
<1>2. n.kids[j] \in Leaves /\ \A k \in n.kids[j].rows : k \in Nat /\ InSlot(n.keys, j, k) /\ k \in RowsOf(n)
  BY <1>1, NodeFacts
<1>3. \A k \in n.kids[j].rows : InSlot(t.keys, i, k) BY <1>2, TreeFacts
<1>4. /\ t.keys \in Seq(Nat) /\ n.keys \in Seq(Nat) BY <1>1, TreeFacts, NodeFacts
<1>5. \A keys \in Seq(Nat) : \A a : \A k \in Nat : InSlot(keys, a, k) => Between(keys, a, k)
  BY DEF InSlot, Between
<1> QED BY ONLY <1>2, <1>3, <1>4, <1>5

\* The leaf takes in all rows of the other, or those beyond the MinRows and the
\* more that a cut leaves: it holds fewer than MinRows itself.
Room(leaf, other, min) ==
  \/ Size(leaf) + Size(other) <= MaxRows
  \/ /\ Size(leaf) < MinRows
     /\ min \in Nat /\ min >= 1 /\ MinRows + min <= Size(other)

LEMMA RowsFit ==
  ASSUME NEW leaf \in Leaves, NEW other \in Leaves, NEW S, S \subseteq other.rows,
         \/ Size(leaf) + Size(other) <= MaxRows
         \/ Size(leaf) < MinRows /\ Cardinality(S) + MinRows <= Size(other)
  PROVE  IsFiniteSet(leaf.rows \cup S) /\ Cardinality(leaf.rows \cup S) <= MaxRows
<1>1. IsFiniteSet(leaf.rows) /\ IsFiniteSet(other.rows) BY DEF Leaves
<1>2. IsFiniteSet(S) /\ Cardinality(S) <= Size(other)
  BY ONLY <1>1, FS_Subset, S \subseteq other.rows DEF Size
<1>3. PICK U : U = leaf.rows \cup S OBVIOUS
<1>4. PICK I : I = leaf.rows \cap S OBVIOUS
<1>5. IsFiniteSet(U) /\ Cardinality(U) = Size(leaf) + Cardinality(S) - Cardinality(I)
  BY ONLY <1>1, <1>2, <1>3, <1>4, FS_Union DEF Size
<1>6. IsFiniteSet(I) BY ONLY <1>1, <1>4, FS_Subset, leaf.rows \cap S \subseteq leaf.rows
<1>7. Cardinality(U) \in Nat /\ Cardinality(S) \in Nat /\ Cardinality(I) \in Nat
  BY ONLY <1>2, <1>5, <1>6, FS_CardinalityType
<1>8. Size(leaf) \in Nat /\ Size(other) \in Nat /\ Size(other) <= MaxRows BY SizeFacts
<1>9. Cardinality(U) <= MaxRows
  BY ONLY <1>2, <1>5, <1>7, <1>8, SizeFacts,
          \/ Size(leaf) + Size(other) <= MaxRows
          \/ Size(leaf) < MinRows /\ Cardinality(S) + MinRows <= Size(other)
<1> QED BY ONLY <1>3, <1>5, <1>9

\* The part of the rows that a cut takes fits.
LEMMA CutFits ==
  ASSUME NEW leaf \in Leaves, NEW other \in Leaves, NEW min, Room(leaf, other, min), NEW cut
  PROVE  /\ cut \in Cuts(other.rows, MinRows, min) =>
              LET S == {k \in other.rows : k >= cut}
              IN  IsFiniteSet(leaf.rows \cup S) /\ Cardinality(leaf.rows \cup S) <= MaxRows
         /\ cut \in Cuts(other.rows, min, MinRows) =>
              LET S == {k \in other.rows : k < cut}
              IN  IsFiniteSet(leaf.rows \cup S) /\ Cardinality(leaf.rows \cup S) <= MaxRows
<1>1. PICK L : L = {k \in other.rows : k < cut} OBVIOUS
<1>2. PICK H : H = {k \in other.rows : k >= cut} OBVIOUS
<1>3. L \subseteq other.rows /\ H \subseteq other.rows BY ONLY <1>1, <1>2
<1>4. CASE Size(leaf) + Size(other) <= MaxRows
  BY ONLY <1>1, <1>2, <1>3, <1>4, RowsFit, leaf \in Leaves, other \in Leaves
<1>5. CASE ~ (Size(leaf) + Size(other) <= MaxRows)
  <2>1. Size(leaf) < MinRows /\ min \in Nat /\ min >= 1 /\ MinRows + min <= Size(other)
    BY <1>5 DEF Room
  <2>2. other.rows \in SUBSET Nat /\ IsFiniteSet(other.rows) /\ Size(other) \in Nat
    BY SizeFacts, ConstantsAssumption DEF Leaves
  <2>3. PICK rows : rows = other.rows OBVIOUS
  <2>4. /\ rows \in SUBSET Nat /\ IsFiniteSet(rows) /\ Cardinality(rows) = Size(other)
        /\ L = {k \in rows : k < cut} /\ H = {k \in rows : k >= cut}
    BY ONLY <1>1, <1>2, <2>2, <2>3 DEF Size
  <2>5. /\ MinRows \in Nat /\ MinRows + min <= Cardinality(rows) /\ min + MinRows <= Cardinality(rows)
        /\ MinRows < Cardinality(rows) /\ min < Cardinality(rows)
    BY ONLY <2>1, <2>2, <2>4, SizeFacts
  <2>6. ASSUME cut \in Cuts(rows, MinRows, min)
        PROVE  IsFiniteSet(leaf.rows \cup H) /\ Cardinality(leaf.rows \cup H) <= MaxRows
    <3>1. LET left == Cardinality({k \in rows : k < cut})
              right == Cardinality({k \in rows : k >= cut})
          IN  /\ left \in Nat /\ right \in Nat /\ left + right = Cardinality(rows)
              /\ left >= MinRows /\ right >= min
      BY ONLY <2>1, <2>4, <2>5, <2>6, CutsLeaveEnough
    <3>2. Cardinality(H) + MinRows <= Size(other) BY ONLY <2>4, <2>5, <3>1
    <3> QED BY ONLY <1>3, <2>1, <3>2, RowsFit, leaf \in Leaves, other \in Leaves
  <2>7. ASSUME cut \in Cuts(rows, min, MinRows)
        PROVE  IsFiniteSet(leaf.rows \cup L) /\ Cardinality(leaf.rows \cup L) <= MaxRows
    <3>1. LET left == Cardinality({k \in rows : k < cut})
              right == Cardinality({k \in rows : k >= cut})
          IN  /\ left \in Nat /\ right \in Nat /\ left + right = Cardinality(rows)
              /\ left >= min /\ right >= MinRows
      BY ONLY <2>1, <2>4, <2>5, <2>7, CutsLeaveEnough
    <3>2. Cardinality(L) + MinRows <= Size(other) BY ONLY <2>4, <2>5, <3>1
    <3> QED BY ONLY <1>3, <2>1, <3>2, RowsFit, leaf \in Leaves, other \in Leaves
  <2> QED BY ONLY <1>1, <1>2, <2>3, <2>6, <2>7
<1> QED BY ONLY <1>4, <1>5

LEMMA LeafParts ==
  ASSUME NEW leaf \in Leaves, NEW S, IsFiniteSet(S), Cardinality(S) <= MaxRows,
         S \subseteq Keys, NEW order \in Orders
  PROVE  /\ [leaf EXCEPT !.rows = S] \in Leaves /\ [leaf EXCEPT !.rows = S].rows = S
         /\ [rows |-> S, order |-> order] \in Leaves
BY DEF Leaves

\* Rows come from the previous leaf.
LEMMA TakeFromPreviousGood ==
  ASSUME NEW t, TreeGood(t), NEW p, Fresh(t, p), p.inner > 1, NEW minRight,
         Room(LeafAt(t, p), t.kids[p.root].kids[p.inner - 1], minRight),
         NEW r \in TakeFromPrevious(t, p, minRight)
  PROVE  /\ Grown(t, p, r, {}) /\ r.p = p
         /\ Len(r.t.kids[p.root].keys) = Len(t.kids[p.root].keys)
         /\ \A x \in DOMAIN t.kids[p.root].kids :
              x > p.inner => r.t.kids[p.root].kids[x] = t.kids[p.root].kids[x]
<1>1. PICK i : i = p.root OBVIOUS
<1>2. PICK j : j = p.inner OBVIOUS
<1>3. PICK a : a = j - 1 OBVIOUS
<1>4. PICK n : n = t.kids[i] OBVIOUS
<1>5. PICK key : key = p.rowKey OBVIOUS
<1>6. /\ i \in 1 .. Len(t.keys) + 1 /\ i \in DOMAIN t.kids /\ key \in Nat
      /\ NodeGood(n) /\ Len(n.keys) <= MaxKeys /\ j \in 1 .. Len(n.keys) + 1 /\ j \in Nat
  BY ONLY <1>1, <1>2, <1>4, <1>5, TreeGood(t), Fresh(t, p), FreshFacts
<1>7. Len(n.keys) \in Nat /\ DOMAIN n.kids = 1 .. Len(n.keys) + 1 BY <1>6, NodeFacts
<1>8. /\ a \in 1 .. Len(n.keys) /\ a \in 1 .. Len(n.keys) + 1 /\ j = a + 1 /\ a # j
      /\ a \in DOMAIN n.kids /\ j \in DOMAIN n.kids
  <2>1. j > 1 BY <1>2
  <2> QED BY ONLY <1>3, <1>6, <1>7, <2>1
<1>9. PICK prev : prev = n.kids[a] OBVIOUS
<1>10. PICK leaf : leaf = n.kids[j] OBVIOUS
<1>11. /\ prev \in Leaves
       /\ \A k \in prev.rows : /\ k \in Nat /\ InSlot(n.keys, a, k) /\ Between(n.keys, a, k)
                               /\ InSlot(t.keys, i, k) /\ Between(t.keys, i, k)
  BY ONLY <1>4, <1>6, <1>8, <1>9, TreeGood(t), LeafBounds
<1>12. /\ leaf \in Leaves
       /\ \A k \in leaf.rows : k \in Nat /\ InSlot(n.keys, j, k)
  BY ONLY <1>4, <1>6, <1>8, <1>10, TreeGood(t), LeafBounds
<1>13. CASE r = [t |-> t, p |-> p] BY <1>1, <1>13 DEF Grown
<1>14. CASE r # [t |-> t, p |-> p]
  <2>1. PICK cut \in Cuts(prev.rows, MinRows, minRight) :
          r = [t |-> [t EXCEPT !.kids[i] =
                 [keys |-> [n.keys EXCEPT ![a] = cut],
                  kids |-> [n.kids EXCEPT
                    ![a].rows = {k \in @ : k < cut},
                    ![j] = [rows |-> @.rows \cup {k \in prev.rows : k >= cut},
                            order |-> "unsorted"]]]],
               p |-> p]
    <3>1. t.kids[p.root].kids[p.inner - 1] = prev BY <1>1, <1>2, <1>3, <1>4, <1>9
    <3>2. prev.rows # {}
      <4>1. SUFFICES ASSUME prev.rows = {} PROVE FALSE OBVIOUS
      <4> QED BY ONLY <3>1, <4>1, <1>14, r \in TakeFromPrevious(t, p, minRight) DEF TakeFromPrevious
    <3>3. \E cut \in Cuts(prev.rows, MinRows, minRight) :
            r = [t |-> [t EXCEPT !.kids[i] =
                 [keys |-> [n.keys EXCEPT ![a] = cut],
                  kids |-> [n.kids EXCEPT
                    ![a].rows = {k \in @ : k < cut},
                    ![j] = [rows |-> @.rows \cup {k \in prev.rows : k >= cut},
                            order |-> "unsorted"]]]],
               p |-> p]
      BY ONLY <1>1, <1>2, <1>3, <1>4, <3>1, <3>2, r \in TakeFromPrevious(t, p, minRight)
         DEF TakeFromPrevious
    <3> QED BY ONLY <3>3
  <2>2. cut \in prev.rows /\ cut \in Nat BY ONLY <1>11, <2>1, CutsFacts
  <2>3. PICK x : x = [prev EXCEPT !.rows = {k \in prev.rows : k < cut}] OBVIOUS
  <2>4. PICK y : y = [rows |-> leaf.rows \cup {k \in prev.rows : k >= cut}, order |-> "unsorted"]
    OBVIOUS
  <2>5. PICK m : LeavesExchanged(n, a, j, cut, x, y, m) BY DEF LeavesExchanged
  <2>6. SetKid(t, i, m, r.t) /\ r.p = p
    <3>2. [n.kids EXCEPT ![a].rows = {k \in @ : k < cut},
                         ![j] = [rows |-> @.rows \cup {k \in prev.rows : k >= cut},
                                 order |-> "unsorted"]]
          = [n.kids EXCEPT ![a] = x, ![j] = y]
      BY ONLY <1>8, <1>9, <1>10, <2>3, <2>4
    <3> QED BY ONLY <2>1, <2>5, <3>2 DEF SetKid, LeavesExchanged
  <2>7. /\ x \in Leaves /\ x.rows = {k \in prev.rows : k < cut}
        /\ y \in Leaves /\ y.rows = leaf.rows \cup {k \in prev.rows : k >= cut}
    <3>1. prev.rows \subseteq Keys /\ IsFiniteSet(prev.rows) /\ leaf.rows \subseteq Keys /\ IsFiniteSet(leaf.rows)
      BY <1>11, <1>12 DEF Leaves
    <3>2. /\ IsFiniteSet({k \in prev.rows : k < cut})
          /\ Cardinality({k \in prev.rows : k < cut}) <= MaxRows
      BY ONLY <1>11, PartFits, {k \in prev.rows : k < cut} \subseteq prev.rows
    <3>3. /\ IsFiniteSet(leaf.rows \cup {k \in prev.rows : k >= cut})
          /\ Cardinality(leaf.rows \cup {k \in prev.rows : k >= cut}) <= MaxRows
      <4>1. Room(leaf, prev, minRight)
        BY ONLY <1>1, <1>2, <1>3, <1>4, <1>9, <1>10,
                Room(LeafAt(t, p), t.kids[p.root].kids[p.inner - 1], minRight) DEF LeafAt
      <4> QED BY ONLY <1>11, <1>12, <2>1, <4>1, CutFits
    <3>4. "unsorted" \in Orders BY DEF Orders
    <3>5. {k \in prev.rows : k < cut} \subseteq Keys BY ONLY <3>1
    <3>6. leaf.rows \cup {k \in prev.rows : k >= cut} \subseteq Keys BY ONLY <3>1
    <3>7. x \in Leaves /\ x.rows = {k \in prev.rows : k < cut}
      BY ONLY <1>11, <2>3, <3>2, <3>4, <3>5, LeafParts
    <3>8. y \in Leaves BY ONLY <1>12, <2>4, <3>3, <3>4, <3>6, LeafParts
    <3> QED BY ONLY <2>4, <3>7, <3>8
  <2>8. \A k \in leaf.rows : cut <= k
    <3>1. cut < n.keys[a] BY ONLY <1>8, <1>11, <2>2 DEF InSlot
    <3>2. n.keys[a] \in Nat
      <4>1. n.keys \in Seq(Nat) BY <1>6, NodeFacts
      <4> QED BY ONLY <1>8, <4>1
    <3>3. j > 1 /\ j - 1 = a BY ONLY <1>6, <1>7, <1>8
    <3>4. \A k \in leaf.rows : n.keys[a] <= k BY ONLY <1>12, <3>3 DEF InSlot
    <3> QED BY ONLY <1>12, <2>2, <3>1, <3>2, <3>4
  <2>9. LeavesFit(n, a, j, cut, x, y)
    <3>1. \A k \in x.rows : k < cut BY ONLY <2>7
    <3>2. \A k \in y.rows : cut <= k BY ONLY <1>11, <2>2, <2>7, <2>8
    <3>3. Between(n.keys, a, cut) BY ONLY <1>11, <2>2
    <3>4. x.rows \cup y.rows = prev.rows \cup leaf.rows BY ONLY <1>11, <2>2, <2>7
    <3> QED BY ONLY <1>9, <1>10, <2>2, <2>7, <3>1, <3>2, <3>3, <3>4 DEF LeavesFit
  <2>10. /\ NodeGood(m) /\ RowsOf(m) = RowsOf(n) /\ Len(m.keys) = Len(n.keys)
         /\ \A k \in ToSet(m.keys) : k \in ToSet(n.keys) \/ k = cut
    <3>1. NodeGood(m) BY ONLY <1>6, <1>8, <2>5, <2>9, LeafPair
    <3>2. RowsOf(m) = RowsOf(n) BY ONLY <1>6, <1>8, <2>5, <2>9, <3>1, LeafPair
    <3>3. Len(m.keys) = Len(n.keys) BY ONLY <1>6, <1>8, <2>5, <2>9, <3>1, LeafPair
    <3>4. \A k \in ToSet(m.keys) : k \in ToSet(n.keys) \/ k = cut
      BY ONLY <1>6, <1>8, <2>5, <2>9, <3>1, LeafPair
    <3> QED BY ONLY <3>1, <3>2, <3>3, <3>4
  <2>11. TreeGood(r.t) /\ Contents(r.t) = Contents(t) /\ r.t.keys = t.keys /\ r.t.kids[i] = m
    <3>1. \A k \in ToSet(m.keys) : Between(t.keys, i, k)
      <4>1. \A k \in ToSet(n.keys) : Between(t.keys, i, k) BY <1>4, <1>6, TreeFacts
      <4> QED BY ONLY <1>11, <2>2, <2>10, <4>1
    <3>2. Len(m.keys) <= MaxKeys BY ONLY <1>6, <2>10
    <3> QED BY ONLY <1>4, <1>6, <2>6, <2>10, <3>1, <3>2, TreeGood(t), NodeChanged
  <2>12. Leads(m.keys, p.innerBound, j, p.leafBound, key)
    <3>1. Leads(n.keys, p.innerBound, j, p.leafBound, key) BY <1>1, <1>2, <1>4, <1>5 DEF Fresh
    <3>2. cut <= key
      <4>1. cut < n.keys[a] BY ONLY <1>8, <1>11, <2>2 DEF InSlot
      <4>2. n.keys[a] \in Nat
        <5>1. n.keys \in Seq(Nat) BY <1>6, NodeFacts
        <5> QED BY ONLY <1>8, <5>1
      <4>3. j > 1 /\ j - 1 = a BY ONLY <1>6, <1>7, <1>8
      <4>4. n.keys[a] <= key BY ONLY <3>1, <4>3 DEF Leads, InSlot
      <4> QED BY ONLY <1>6, <2>2, <4>1, <4>2, <4>4
    <3> QED BY ONLY <1>6, <1>8, <2>5, <2>9, <3>1, <3>2, LeafPair
  <2>13. Fresh(r.t, p)
    <3>1. p \in Paths /\ Leads(t.keys, MinKey, i, p.innerBound, key) BY <1>1, <1>5 DEF Fresh
    <3> QED BY ONLY <1>1, <1>2, <1>5, <2>11, <2>12, <3>1 DEF Fresh
  <2>14. \A z \in DOMAIN n.kids : z > j => r.t.kids[i].kids[z] = n.kids[z]
    <3>1. m.kids = [n.kids EXCEPT ![a] = x, ![j] = y] BY ONLY <2>5 DEF LeavesExchanged
    <3>2. \A z \in DOMAIN n.kids : z > j => z # a /\ z # j BY ONLY <1>6, <1>7, <1>8
    <3> QED BY ONLY <2>11, <3>1, <3>2
  <2> QED BY ONLY <1>1, <1>2, <1>4, <2>6, <2>10, <2>11, <2>13, <2>14 DEF Grown
<1> QED BY <1>13, <1>14

LEMMA TakeFromNextGood ==
  ASSUME NEW t, TreeGood(t), NEW p, Fresh(t, p), p.inner < Len(t.kids[p.root].kids), NEW minLeft,
         Room(LeafAt(t, p), t.kids[p.root].kids[p.inner + 1], minLeft),
         NEW r \in TakeFromNext(t, p, minLeft)
  PROVE  Grown(t, p, r, {})
<1>1. PICK i : i = p.root OBVIOUS
<1>2. PICK j : j = p.inner OBVIOUS
<1>3. PICK b : b = j + 1 OBVIOUS
<1>4. PICK n : n = t.kids[i] OBVIOUS
<1>5. PICK key : key = p.rowKey OBVIOUS
<1>6. /\ i \in 1 .. Len(t.keys) + 1 /\ i \in DOMAIN t.kids /\ key \in Nat
      /\ NodeGood(n) /\ Len(n.keys) <= MaxKeys /\ j \in 1 .. Len(n.keys) + 1 /\ j \in Nat
  BY ONLY <1>1, <1>2, <1>4, <1>5, TreeGood(t), Fresh(t, p), FreshFacts
<1>7. /\ Len(n.keys) \in Nat /\ Len(n.kids) = Len(n.keys) + 1 /\ DOMAIN n.kids = 1 .. Len(n.keys) + 1
  BY <1>6, NodeFacts
<1>8. /\ j \in 1 .. Len(n.keys) /\ b \in 1 .. Len(n.keys) + 1 /\ b = j + 1 /\ j # b
      /\ b \in DOMAIN n.kids /\ j \in DOMAIN n.kids /\ b > 1 /\ b - 1 = j
  <2>1. j < Len(n.kids) BY <1>1, <1>2, <1>4
  <2> QED BY ONLY <1>3, <1>6, <1>7, <2>1
<1>9. PICK next : next = n.kids[b] OBVIOUS
<1>10. PICK leaf : leaf = n.kids[j] OBVIOUS
<1>11. /\ next \in Leaves
       /\ \A k \in next.rows : /\ k \in Nat /\ InSlot(n.keys, b, k) /\ Between(n.keys, b, k)
                               /\ InSlot(t.keys, i, k) /\ Between(t.keys, i, k)
  BY ONLY <1>4, <1>6, <1>8, <1>9, TreeGood(t), LeafBounds
<1>12. /\ leaf \in Leaves
       /\ \A k \in leaf.rows : k \in Nat /\ InSlot(n.keys, j, k)
  BY ONLY <1>4, <1>6, <1>8, <1>10, TreeGood(t), LeafBounds
<1>13. CASE r = [t |-> t, p |-> p] BY <1>1, <1>13 DEF Grown
<1>14. CASE r # [t |-> t, p |-> p]
  <2>1. PICK cut \in Cuts(next.rows, minLeft, MinRows) :
          r = [t |-> [t EXCEPT !.kids[i] =
                 [keys |-> [n.keys EXCEPT ![j] = cut],
                  kids |-> [n.kids EXCEPT
                    ![j] = [rows |-> @.rows \cup {k \in next.rows : k < cut},
                            order |-> JoinedOrder(@.order, next.order)],
                    ![b].rows = {k \in @ : k >= cut}]]],
               p |-> [p EXCEPT !.leafBound = cut]]
    <3>1. t.kids[p.root].kids[p.inner + 1] = next BY <1>1, <1>2, <1>3, <1>4, <1>9
    <3>2. next.rows # {}
      <4>1. SUFFICES ASSUME next.rows = {} PROVE FALSE OBVIOUS
      <4> QED BY ONLY <3>1, <4>1, <1>14, r \in TakeFromNext(t, p, minLeft) DEF TakeFromNext
    <3> QED BY ONLY <1>1, <1>2, <1>3, <1>4, <1>14, <3>1, <3>2, r \in TakeFromNext(t, p, minLeft)
            DEF TakeFromNext
  <2>2. cut \in next.rows /\ cut \in Nat BY ONLY <1>11, <2>1, CutsFacts
  <2>3. PICK order : order = JoinedOrder(leaf.order, next.order) OBVIOUS
  <2>4. PICK x : x = [rows |-> leaf.rows \cup {k \in next.rows : k < cut}, order |-> order]
    OBVIOUS
  <2>5. PICK y : y = [next EXCEPT !.rows = {k \in next.rows : k >= cut}] OBVIOUS
  <2>6. PICK m : LeavesExchanged(n, j, b, cut, x, y, m) BY DEF LeavesExchanged
  <2>7. SetKid(t, i, m, r.t) /\ r.p = [p EXCEPT !.leafBound = cut]
    <3>2. [n.kids EXCEPT ![j] = [rows |-> @.rows \cup {k \in next.rows : k < cut},
                                 order |-> JoinedOrder(@.order, next.order)],
                         ![b].rows = {k \in @ : k >= cut}]
          = [n.kids EXCEPT ![j] = x, ![b] = y]
      BY ONLY <1>8, <1>9, <1>10, <2>3, <2>4, <2>5
    <3> QED BY ONLY <2>1, <2>6, <3>2 DEF SetKid, LeavesExchanged
  <2>8. /\ y \in Leaves /\ y.rows = {k \in next.rows : k >= cut}
        /\ x \in Leaves /\ x.rows = leaf.rows \cup {k \in next.rows : k < cut}
    <3>1. next.rows \subseteq Keys /\ IsFiniteSet(next.rows) /\ leaf.rows \subseteq Keys /\ IsFiniteSet(leaf.rows)
      BY <1>11, <1>12 DEF Leaves
    <3>2. /\ IsFiniteSet({k \in next.rows : k >= cut})
          /\ Cardinality({k \in next.rows : k >= cut}) <= MaxRows
      BY ONLY <1>11, PartFits, {k \in next.rows : k >= cut} \subseteq next.rows
    <3>3. /\ IsFiniteSet(leaf.rows \cup {k \in next.rows : k < cut})
          /\ Cardinality(leaf.rows \cup {k \in next.rows : k < cut}) <= MaxRows
      <4>1. Room(leaf, next, minLeft)
        BY ONLY <1>1, <1>2, <1>3, <1>4, <1>9, <1>10,
                Room(LeafAt(t, p), t.kids[p.root].kids[p.inner + 1], minLeft) DEF LeafAt
      <4> QED BY ONLY <1>11, <1>12, <2>1, <4>1, CutFits
    <3>4. order \in Orders
      <4>1. leaf.order \in Orders /\ next.order \in Orders BY <1>11, <1>12 DEF Leaves
      <4> QED BY ONLY <2>3, <4>1 DEF JoinedOrder, Orders
    <3>5. y \in Leaves /\ y.rows = {k \in next.rows : k >= cut}
      <4>1. {k \in next.rows : k >= cut} \subseteq Keys BY ONLY <3>1
      <4> QED BY ONLY <1>11, <2>5, <3>2, <3>4, <4>1, LeafParts
    <3>6. leaf.rows \cup {k \in next.rows : k < cut} \subseteq Keys BY ONLY <3>1
    <3>7. x \in Leaves BY ONLY <1>12, <2>4, <3>3, <3>4, <3>6, LeafParts
    <3> QED BY ONLY <2>4, <3>5, <3>7
  <2>9. n.keys[j] \in Nat
    <3>1. n.keys \in Seq(Nat) BY <1>6, NodeFacts
    <3> QED BY ONLY <1>8, <3>1
  <2>10. n.keys[j] <= cut BY ONLY <1>8, <1>11, <2>2 DEF InSlot
  <2>11. \A k \in Nat : InSlot(n.keys, j, k) => k < cut
    <3>1. \A k \in Nat : InSlot(n.keys, j, k) => k < n.keys[j] BY ONLY <1>7, <1>8 DEF InSlot
    <3> QED BY ONLY <2>2, <2>9, <2>10, <3>1
  <2>12. LeavesFit(n, j, b, cut, x, y)
    <3>1. \A k \in x.rows : k < cut BY ONLY <1>12, <2>8, <2>11
    <3>2. \A k \in y.rows : cut <= k BY ONLY <1>11, <2>2, <2>8
    <3>3. Between(n.keys, b, cut) BY ONLY <1>11, <2>2
    <3>4. x.rows \cup y.rows = leaf.rows \cup next.rows BY ONLY <1>11, <2>2, <2>8
    <3> QED BY ONLY <1>9, <1>10, <2>2, <2>8, <3>1, <3>2, <3>3, <3>4 DEF LeavesFit
  <2>13. /\ NodeGood(m) /\ RowsOf(m) = RowsOf(n) /\ Len(m.keys) = Len(n.keys)
         /\ \A k \in ToSet(m.keys) : k \in ToSet(n.keys) \/ k = cut
    <3>1. NodeGood(m) BY ONLY <1>6, <1>8, <2>6, <2>12, LeafPair
    <3>2. RowsOf(m) = RowsOf(n) BY ONLY <1>6, <1>8, <2>6, <2>12, <3>1, LeafPair
    <3>3. Len(m.keys) = Len(n.keys) BY ONLY <1>6, <1>8, <2>6, <2>12, <3>1, LeafPair
    <3>4. \A k \in ToSet(m.keys) : k \in ToSet(n.keys) \/ k = cut
      BY ONLY <1>6, <1>8, <2>6, <2>12, <3>1, LeafPair
    <3> QED BY ONLY <3>1, <3>2, <3>3, <3>4
  <2>14. TreeGood(r.t) /\ Contents(r.t) = Contents(t) /\ r.t.keys = t.keys /\ r.t.kids[i] = m
    <3>1. \A k \in ToSet(m.keys) : Between(t.keys, i, k)
      <4>1. \A k \in ToSet(n.keys) : Between(t.keys, i, k) BY <1>4, <1>6, TreeFacts
      <4> QED BY ONLY <1>11, <2>2, <2>13, <4>1
    <3>2. Len(m.keys) <= MaxKeys BY ONLY <1>6, <2>13
    <3> QED BY ONLY <1>4, <1>6, <2>7, <2>13, <3>1, <3>2, TreeGood(t), NodeChanged
  <2>15. Leads(m.keys, p.innerBound, j, cut, key)
    <3>1. Leads(n.keys, p.innerBound, j, p.leafBound, key) BY <1>1, <1>2, <1>4, <1>5 DEF Fresh
    <3>2. key < cut
      <4>1. InSlot(n.keys, j, key) BY ONLY <3>1 DEF Leads
      <4> QED BY ONLY <1>6, <2>11, <4>1
    <3> QED BY ONLY <1>6, <1>8, <2>6, <2>12, <3>1, <3>2, LeafPair
  <2>16. PICK q : q = r.p OBVIOUS
  <2>17. /\ q \in Paths /\ q.root = i /\ q.inner = j /\ q.innerBound = p.innerBound
         /\ q.leafBound = cut /\ q.rowKey = key
    <3>1. p \in Paths BY DEF Fresh
    <3>2. q = [root |-> p.root, inner |-> p.inner, innerBound |-> p.innerBound, leafBound |-> cut,
               rowKey |-> p.rowKey]
      BY ONLY <2>7, <2>16, <3>1 DEF Paths
    <3> QED BY ONLY <1>1, <1>2, <1>5, <2>2, <3>1, <3>2 DEF Paths
  <2>18. Fresh(r.t, q)
    <3>1. Leads(t.keys, MinKey, i, p.innerBound, key) BY <1>1, <1>5 DEF Fresh
    <3> QED BY ONLY <2>14, <2>15, <2>17, <3>1 DEF Fresh
  <2> QED BY ONLY <1>5, <2>14, <2>16, <2>17, <2>18 DEF Grown
<1> QED BY <1>13, <1>14

\* A leaf of the i-th node is replaced by one with the rows of its two leaves from the j-th on.
Gathers(n, j, b, leaf) ==
  leaf \in Leaves /\ leaf.rows = n.kids[j].rows \cup n.kids[b].rows

LeafSet(t, i, j, leaf, u) == u = [t EXCEPT !.kids[i].kids[j] = leaf]

\* The path q leads there once the key between the two leaves is gone.
LeadsGathered(t, n, i, j, q) ==
  /\ q \in Paths /\ q.root = i /\ q.inner = j
  /\ Leads(t.keys, MinKey, i, q.innerBound, q.rowKey)
  /\ Leads(RemoveAt(n.keys, j), q.innerBound, j, q.leafBound, q.rowKey)

LEMMA LeavesMerged ==
  ASSUME NEW t, TreeGood(t), NEW i \in 1 .. Len(t.keys) + 1, NEW n, n = t.kids[i],
         NEW j \in 1 .. Len(n.keys), NEW b, b = j + 1,
         NEW leaf, Gathers(n, j, b, leaf), NEW u, LeafSet(t, i, j, leaf, u),
         NEW q, LeadsGathered(t, n, i, j, q), NEW r, r = InnerErase(u, q, b)
  PROVE  Grown(t, q, r, {})
<1>1. NodeGood(n) /\ Len(n.keys) <= MaxKeys BY TreeFacts
<1>2. /\ t \in Trees /\ t.kids \in Seq(Nodes) /\ t.keys \in Seq(Nat)
      /\ Len(t.kids) = Len(t.keys) + 1 /\ i \in DOMAIN t.kids
  <2>1. DOMAIN t.kids = 1 .. Len(t.keys) + 1 BY TreeFacts
  <2> QED BY <2>1, TreeFacts DEF TreeGood
<1>3. /\ n.keys \in Seq(Nat) /\ n.kids \in Seq(Leaves) /\ Len(n.keys) \in Nat
      /\ Len(n.kids) = Len(n.keys) + 1 /\ DOMAIN n.kids = 1 .. Len(n.keys) + 1 /\ n \in Nodes
  <2>1. /\ n.keys \in Seq(Nat) /\ n.kids \in Seq(Leaves) /\ Len(n.keys) \in Nat
        /\ Len(n.kids) = Len(n.keys) + 1
    BY <1>1, NodeFacts
  <2>2. DOMAIN n.kids = 1 .. Len(n.keys) + 1 BY ONLY <2>1
  <2>3. n \in Nodes BY <1>1 DEF NodeGood
  <2> QED BY ONLY <2>1, <2>2, <2>3
<1>4. /\ j \in Nat /\ b \in Nat /\ b - 1 = j /\ j \in DOMAIN n.kids /\ b \in 1 .. Len(n.kids) /\ j < b
  BY ONLY <1>3, j \in 1 .. Len(n.keys), b = j + 1
<1>5. leaf \in Leaves /\ leaf.rows = n.kids[j].rows \cup n.kids[b].rows BY DEF Gathers
<1>6. PICK kids : kids = [n.kids EXCEPT ![j] = leaf] OBVIOUS
<1>7. /\ kids \in Seq(Leaves) /\ Len(kids) = Len(n.kids) /\ kids[j] = leaf
      /\ \A x \in 1 .. Len(n.keys) + 1 : x # j => kids[x] = n.kids[x]
  BY ONLY <1>3, <1>4, <1>5, <1>6
<1>8. PICK m : m = [keys |-> RemoveAt(n.keys, j), kids |-> RemoveAt(kids, b)] OBVIOUS
<1>9. /\ m.kids \in Seq(Leaves) /\ Len(m.kids) = Len(n.kids) - 1
      /\ \A x \in 1 .. Len(n.kids) - 1 :
           (x < b => m.kids[x] = kids[x]) /\ (x >= b => m.kids[x] = kids[x + 1])
  <2>1. m.kids = RemoveAt(kids, b) BY ONLY <1>8
  <2>2. b \in 1 .. Len(kids) BY ONLY <1>4, <1>7
  <2>3. /\ RemoveAt(kids, b) \in Seq(Leaves) /\ Len(RemoveAt(kids, b)) = Len(kids) - 1
        /\ \A x \in 1 .. Len(kids) - 1 :
             /\ x < b => RemoveAt(kids, b)[x] = kids[x]
             /\ x >= b => RemoveAt(kids, b)[x] = kids[x + 1]
    BY ONLY <1>7, <2>2, RemoveAtPoints
  <2> QED BY ONLY <1>7, <2>1, <2>3
<1>10. /\ m.keys = RemoveAt(n.keys, j) /\ m.keys \in Seq(Nat) /\ Len(m.keys) = Len(n.keys) - 1
       /\ m \in Nodes
  <2>1. m.keys = RemoveAt(n.keys, j) BY ONLY <1>8
  <2>2. m.keys \in Seq(Nat) /\ Len(m.keys) = Len(n.keys) - 1
    BY ONLY <1>3, <2>1, j \in 1 .. Len(n.keys), RemoveAtKeys
  <2>3. m = [keys |-> m.keys, kids |-> m.kids] BY ONLY <1>8
  <2> QED BY ONLY <1>9, <2>1, <2>2, <2>3 DEF Nodes
<1>11. NodeGood(m) /\ RowsOf(m) = RowsOf(n)
  <2>1. \A x \in 1 .. Len(n.keys) + 1 : x < j => m.kids[x].rows = n.kids[x].rows
    <3>1. ASSUME NEW x \in 1 .. Len(n.keys) + 1, x < j PROVE m.kids[x] = n.kids[x]
      <4>1. x \in 1 .. Len(n.kids) - 1 /\ x < b /\ x # j
        BY ONLY <1>3, <1>4, <3>1, x \in 1 .. Len(n.keys) + 1, j \in 1 .. Len(n.keys)
      <4> QED BY ONLY <1>7, <1>9, <4>1, x \in 1 .. Len(n.keys) + 1
    <3> QED BY ONLY <3>1
  <2>2. \A x \in 1 .. Len(n.keys) : x > j => m.kids[x].rows = n.kids[x + 1].rows
    <3>1. ASSUME NEW x \in 1 .. Len(n.keys), x > j PROVE m.kids[x] = n.kids[x + 1]
      <4>1. PICK y : y = x + 1 OBVIOUS
      <4>2. x \in 1 .. Len(n.kids) - 1 /\ x >= b /\ y \in 1 .. Len(n.keys) + 1 /\ y # j
        BY ONLY <1>3, <1>4, <3>1, <4>1, x \in 1 .. Len(n.keys), b = j + 1
      <4>3. m.kids[x] = kids[y] BY ONLY <1>9, <4>1, <4>2
      <4> QED BY ONLY <1>7, <4>1, <4>2, <4>3
    <3> QED BY ONLY <3>1
  <2>3. m.kids[j] = leaf
    <3>1. j \in 1 .. Len(n.kids) - 1 BY ONLY <1>3, <1>4, j \in 1 .. Len(n.keys)
    <3> QED BY ONLY <1>4, <1>7, <1>9, <3>1
  <2>4. m.kids[j].rows = n.kids[j].rows \cup n.kids[j + 1].rows BY ONLY <1>5, <2>3, b = j + 1
  <2>5. NodeGood(m)
    BY ONLY <1>1, <1>9, <1>10, <2>1, <2>2, <2>4, j \in 1 .. Len(n.keys), NodeMerged
  <2>6. RowsOf(m) = RowsOf(n)
    BY ONLY <1>1, <1>9, <1>10, <2>1, <2>2, <2>4, <2>5, j \in 1 .. Len(n.keys), NodeMerged
  <2> QED BY ONLY <2>5, <2>6
<1>12. \A k \in ToSet(m.keys) : Between(t.keys, i, k)
  <2>1. \A k \in ToSet(n.keys) : Between(t.keys, i, k) BY <1>1, TreeFacts
  <2>2. Ascending(n.keys) BY <1>1, NodeFacts
  <2>3. ToSet(m.keys) \subseteq ToSet(n.keys)
    BY ONLY <1>3, <1>10, <2>2, j \in 1 .. Len(n.keys), KeyRemoved
  <2> QED BY ONLY <2>1, <2>3
<1>13. Len(m.keys) <= MaxKeys BY ONLY <1>1, <1>3, <1>10, ConstantsAssumption
<1>14. PICK v : SetKid(t, i, m, v) BY DEF SetKid
<1>15. TreeGood(v) /\ Contents(v) = Contents(t) /\ v.keys = t.keys /\ v.kids[i] = m
  BY ONLY <1>11, <1>12, <1>13, <1>14, TreeGood(t), i \in 1 .. Len(t.keys) + 1, n = t.kids[i], NodeChanged
<1>16. PICK w : w = [n EXCEPT !.kids[j] = leaf] OBVIOUS
<1>17. w.keys = n.keys /\ w.kids = kids /\ w \in Nodes
  <2>1. n = [keys |-> n.keys, kids |-> n.kids] BY ONLY <1>3 DEF Nodes
  <2>2. w = [keys |-> n.keys, kids |-> kids] BY ONLY <1>6, <1>16, <2>1
  <2> QED BY ONLY <1>3, <1>7, <2>2 DEF Nodes
<1>18. u = [t EXCEPT !.kids[i] = w]
  <2>1. u = [t EXCEPT !.kids[i] = [@ EXCEPT !.kids[j] = leaf]] BY ONLY LeafSet(t, i, j, leaf, u) DEF LeafSet
  <2> QED BY ONLY <1>2, <1>16, <2>1, n = t.kids[i]
<1>19. u.kids[i] = w
  <2>1. SetKid(t, i, w, u) BY ONLY <1>18 DEF SetKid
  <2> QED BY ONLY <1>2, <1>17, <2>1, KidReplaced
<1>20. Removed(u.kids[q.root], b, m)
  <2>1. q.root = i BY DEF LeadsGathered
  <2> QED BY ONLY <1>4, <1>8, <1>17, <1>19, <2>1 DEF Removed
<1>21. SetKid(u, q.root, m, v)
  <2>1. q.root = i BY DEF LeadsGathered
  <2>2. v = [t EXCEPT !.kids[i] = m] BY ONLY <1>14 DEF SetKid
  <2>3. [u EXCEPT !.kids[i] = m] = [t EXCEPT !.kids[i] = m]
    <3>1. t = [keys |-> t.keys, kids |-> t.kids] BY ONLY <1>2 DEF Trees
    <3>2. u = [keys |-> t.keys, kids |-> [t.kids EXCEPT ![i] = w]] BY ONLY <1>18, <3>1
    <3>3. [u EXCEPT !.kids[i] = m] = [keys |-> t.keys, kids |-> [[t.kids EXCEPT ![i] = w] EXCEPT ![i] = m]]
      BY ONLY <3>2
    <3>4. [t EXCEPT !.kids[i] = m] = [keys |-> t.keys, kids |-> [t.kids EXCEPT ![i] = m]]
      BY ONLY <3>1
    <3>5. [[t.kids EXCEPT ![i] = w] EXCEPT ![i] = m] = [t.kids EXCEPT ![i] = m]
      BY ONLY <1>2
    <3> QED BY ONLY <3>3, <3>4, <3>5
  <2> QED BY ONLY <2>1, <2>2, <2>3 DEF SetKid
<1>22. Fresh(v, q)
  <2>1. /\ q \in Paths /\ q.root = i /\ q.inner = j
        /\ Leads(t.keys, MinKey, i, q.innerBound, q.rowKey)
        /\ Leads(m.keys, q.innerBound, j, q.leafBound, q.rowKey)
    BY <1>10 DEF LeadsGathered
  <2> QED BY ONLY <1>15, <2>1 DEF Fresh
<1>23. Grown(v, q, r, {})
  <2>1. m = v.kids[q.root] BY <1>15 DEF LeadsGathered
  <2> QED BY ONLY <1>15, <1>20, <1>21, <1>22, <2>1, r = InnerErase(u, q, b), InnerEraseGood
<1> QED BY ONLY <1>15, <1>23 DEF Grown

LEMMA MergeWithNextGood ==
  ASSUME NEW t, TreeGood(t), NEW p, Fresh(t, p), p.inner < Len(t.kids[p.root].kids),
         Size(LeafAt(t, p)) + Size(t.kids[p.root].kids[p.inner + 1]) <= MaxRows,
         NEW r, r = MergeWithNext(t, p)
  PROVE  Grown(t, p, r, {})
<1>1. PICK i : i = p.root OBVIOUS
<1>2. PICK j : j = p.inner OBVIOUS
<1>3. PICK b : b = j + 1 OBVIOUS
<1>4. PICK n : n = t.kids[i] OBVIOUS
<1>5. PICK key : key = p.rowKey OBVIOUS
<1>6. /\ p \in Paths /\ i \in 1 .. Len(t.keys) + 1 /\ i \in DOMAIN t.kids /\ key \in Nat
      /\ NodeGood(n) /\ j \in 1 .. Len(n.keys) + 1 /\ j \in Nat
  BY ONLY <1>1, <1>2, <1>4, <1>5, TreeGood(t), Fresh(t, p), FreshFacts
<1>7. /\ Len(n.keys) \in Nat /\ Len(n.kids) = Len(n.keys) + 1 /\ n.keys \in Seq(Nat)
      /\ Ascending(n.keys)
  BY <1>6, NodeFacts
<1>8. j \in 1 .. Len(n.keys) /\ b \in 1 .. Len(n.keys) + 1 /\ b \in Nat
  <2>1. j < Len(n.kids) BY <1>1, <1>2, <1>4
  <2> QED BY ONLY <1>3, <1>6, <1>7, <2>1
<1>9. DOMAIN n.kids = 1 .. Len(n.keys) + 1
  <2>1. n.kids \in Seq(Leaves) BY <1>6, NodeFacts
  <2> QED BY ONLY <1>7, <2>1
<1>10. PICK next : next = n.kids[b] OBVIOUS
<1>11. PICK old : old = n.kids[j] OBVIOUS
<1>12. PICK leaf : leaf = [rows |-> old.rows \cup next.rows, order |-> KeptOrder(old.order, next.order)]
  OBVIOUS
<1>13. PICK bound : bound = UpperBound(n.keys, b, p.innerBound) OBVIOUS
<1>14. PICK q : q = [p EXCEPT !.leafBound = bound] OBVIOUS
<1>15. PICK u : LeafSet(t, i, j, leaf, u) BY DEF LeafSet
<1>16. r = InnerErase(u, q, b)
  <2>1. u = [t EXCEPT !.kids[i].kids[j] =
               [rows |-> @.rows \cup next.rows, order |-> KeptOrder(@.order, next.order)]]
    <3>1. t.kids[i].kids[j] = old BY ONLY <1>4, <1>11
    <3>2. u = [t EXCEPT !.kids[i].kids[j] = leaf] BY ONLY <1>15 DEF LeafSet
    <3>3. u = [t EXCEPT !.kids[i] = [n EXCEPT !.kids = [n.kids EXCEPT ![j] = leaf]]]
      BY ONLY <1>4, <1>6, <3>2
    <3>4. [n.kids EXCEPT ![j] = leaf] =
            [n.kids EXCEPT ![j] = [rows |-> @.rows \cup next.rows, order |-> KeptOrder(@.order, next.order)]]
      BY ONLY <1>11, <1>12
    <3> QED BY ONLY <1>4, <1>6, <3>3, <3>4
  <2> QED BY ONLY <1>1, <1>2, <1>3, <1>4, <1>10, <1>13, <1>14, <2>1, r = MergeWithNext(t, p)
          DEF MergeWithNext
<1>17. Gathers(n, j, b, leaf)
  <2>1. old \in Leaves /\ next \in Leaves
    <3>1. \A x \in 1 .. Len(n.keys) + 1 : n.kids[x] \in Leaves BY <1>6, NodeFacts
    <3> QED BY ONLY <1>6, <1>8, <1>10, <1>11, <3>1
  <2>2. /\ old.rows \subseteq Keys /\ IsFiniteSet(old.rows) /\ next.rows \subseteq Keys
        /\ IsFiniteSet(next.rows) /\ old.order \in Orders /\ next.order \in Orders
    BY ONLY <2>1 DEF Leaves
  <2>3. IsFiniteSet(old.rows \cup next.rows) /\ Cardinality(old.rows \cup next.rows) <= MaxRows
    <3>1. Size(old) + Size(next) <= MaxRows
      BY ONLY <1>1, <1>2, <1>3, <1>4, <1>10, <1>11,
              Size(LeafAt(t, p)) + Size(t.kids[p.root].kids[p.inner + 1]) <= MaxRows DEF LeafAt
    <3> QED BY ONLY <2>1, <3>1, RowsFit, next.rows \subseteq next.rows
  <2>4. old.rows \cup next.rows \subseteq Keys BY ONLY <2>2
  <2>5. PICK order : order = KeptOrder(old.order, next.order) OBVIOUS
  <2>6. order \in Orders BY ONLY <2>2, <2>5 DEF KeptOrder, Orders
  <2>7. leaf \in Leaves BY ONLY <1>12, <2>1, <2>3, <2>4, <2>5, <2>6, LeafParts
  <2> QED BY ONLY <1>10, <1>11, <1>12, <2>7 DEF Gathers
<1>18. /\ q \in Paths /\ q.root = i /\ q.inner = j /\ q.innerBound = p.innerBound
       /\ q.leafBound = bound /\ q.rowKey = key
  <2>1. bound \in Nat BY ONLY <1>6, <1>7, <1>8, <1>13, Bounded DEF Paths
  <2>2. q = [root |-> p.root, inner |-> p.inner, innerBound |-> p.innerBound, leafBound |-> bound,
             rowKey |-> p.rowKey]
    BY ONLY <1>6, <1>14 DEF Paths
  <2> QED BY ONLY <1>1, <1>2, <1>5, <1>6, <2>1, <2>2 DEF Paths
<1>19. LeadsGathered(t, n, i, j, q)
  <2>1. /\ Leads(t.keys, MinKey, i, p.innerBound, key)
        /\ Leads(n.keys, p.innerBound, j, p.leafBound, key)
    BY <1>1, <1>2, <1>4, <1>5 DEF Fresh
  <2>2. PICK new : new = RemoveAt(n.keys, j) OBVIOUS
  <2>3. Leads(new, p.innerBound, j, UpperBound(n.keys, j + 1, p.innerBound), key)
    BY ONLY <1>6, <1>7, <1>8, <2>1, <2>2, LeadsRemoved
  <2>4. Leads(new, p.innerBound, j, bound, key) BY ONLY <1>3, <1>13, <2>3
  <2> QED BY ONLY <1>18, <2>1, <2>2, <2>4 DEF LeadsGathered
<1>20. Grown(t, q, r, {})
  BY ONLY <1>3, <1>4, <1>6, <1>8, <1>15, <1>16, <1>17, <1>19, TreeGood(t), LeavesMerged
<1> QED BY ONLY <1>5, <1>18, <1>20 DEF Grown

LEMMA MergeWithPreviousGood ==
  ASSUME NEW t, TreeGood(t), NEW p, Fresh(t, p), p.inner > 1,
         Size(LeafAt(t, p)) + Size(t.kids[p.root].kids[p.inner - 1]) <= MaxRows,
         NEW r, r = MergeWithPrevious(t, p)
  PROVE  Grown(t, p, r, {})
<1>1. PICK i : i = p.root OBVIOUS
<1>2. PICK b : b = p.inner OBVIOUS
<1>3. PICK j : j = b - 1 OBVIOUS
<1>4. PICK n : n = t.kids[i] OBVIOUS
<1>5. PICK key : key = p.rowKey OBVIOUS
<1>6. /\ p \in Paths /\ i \in 1 .. Len(t.keys) + 1 /\ i \in DOMAIN t.kids /\ key \in Nat
      /\ NodeGood(n) /\ b \in 1 .. Len(n.keys) + 1 /\ b \in Nat /\ LeafAt(t, p) = n.kids[b]
  BY ONLY <1>1, <1>2, <1>4, <1>5, TreeGood(t), Fresh(t, p), FreshFacts
<1>7. /\ Len(n.keys) \in Nat /\ Len(n.kids) = Len(n.keys) + 1 /\ n.keys \in Seq(Nat)
      /\ Ascending(n.keys)
  BY <1>6, NodeFacts
<1>8. j \in 1 .. Len(n.keys) /\ j \in 1 .. Len(n.keys) + 1 /\ j \in Nat /\ b = j + 1
  <2>1. b > 1 BY <1>2
  <2> QED BY ONLY <1>3, <1>6, <1>7, <2>1
<1>9. DOMAIN n.kids = 1 .. Len(n.keys) + 1
  <2>1. n.kids \in Seq(Leaves) BY <1>6, NodeFacts
  <2> QED BY ONLY <1>7, <2>1
<1>10. PICK old : old = n.kids[j] OBVIOUS
<1>11. PICK gone : gone = n.kids[b] OBVIOUS
<1>12. PICK leaf : leaf = [rows |-> old.rows \cup gone.rows, order |-> JoinedOrder(old.order, gone.order)]
  OBVIOUS
<1>14. PICK q : q = [p EXCEPT !.inner = j] OBVIOUS
<1>15. PICK u : LeafSet(t, i, j, leaf, u) BY DEF LeafSet
<1>16. r = InnerErase(u, q, b)
  <2>1. u = [t EXCEPT !.kids[i].kids[j] =
               [rows |-> @.rows \cup gone.rows, order |-> JoinedOrder(@.order, gone.order)]]
    <3>1. t.kids[i].kids[j] = old BY ONLY <1>4, <1>10
    <3>2. u = [t EXCEPT !.kids[i].kids[j] = leaf] BY ONLY <1>15 DEF LeafSet
    <3>3. u = [t EXCEPT !.kids[i] = [n EXCEPT !.kids = [n.kids EXCEPT ![j] = leaf]]]
      BY ONLY <1>4, <1>6, <3>2
    <3>4. [n.kids EXCEPT ![j] = leaf] =
            [n.kids EXCEPT ![j] = [rows |-> @.rows \cup gone.rows, order |-> JoinedOrder(@.order, gone.order)]]
      BY ONLY <1>10, <1>12
    <3> QED BY ONLY <1>4, <1>6, <3>3, <3>4
  <2>2. q = [p EXCEPT !.inner = @ - 1] BY ONLY <1>2, <1>3, <1>14
  <2>3. LeafAt(t, p) = gone BY ONLY <1>6, <1>11
  <2> QED BY ONLY <1>1, <1>2, <1>3, <2>1, <2>2, <2>3, r = MergeWithPrevious(t, p)
          DEF MergeWithPrevious
<1>17. Gathers(n, j, b, leaf)
  <2>1. old \in Leaves /\ gone \in Leaves
    <3>1. \A x \in 1 .. Len(n.keys) + 1 : n.kids[x] \in Leaves BY <1>6, NodeFacts
    <3> QED BY ONLY <1>6, <1>8, <1>10, <1>11, <3>1
  <2>2. /\ old.rows \subseteq Keys /\ IsFiniteSet(old.rows) /\ gone.rows \subseteq Keys
        /\ IsFiniteSet(gone.rows) /\ old.order \in Orders /\ gone.order \in Orders
    BY ONLY <2>1 DEF Leaves
  <2>3. IsFiniteSet(old.rows \cup gone.rows) /\ Cardinality(old.rows \cup gone.rows) <= MaxRows
    <3>1. Size(gone) + Size(old) <= MaxRows
      BY ONLY <1>1, <1>2, <1>3, <1>4, <1>10, <1>11,
              Size(LeafAt(t, p)) + Size(t.kids[p.root].kids[p.inner - 1]) <= MaxRows DEF LeafAt
    <3>2. Size(old) + Size(gone) <= MaxRows BY ONLY <2>1, <3>1, SizeFacts
    <3> QED BY ONLY <2>1, <3>2, RowsFit, gone.rows \subseteq gone.rows
  <2>4. old.rows \cup gone.rows \subseteq Keys BY ONLY <2>2
  <2>5. PICK order : order = JoinedOrder(old.order, gone.order) OBVIOUS
  <2>6. order \in Orders BY ONLY <2>2, <2>5 DEF JoinedOrder, Orders
  <2>7. leaf \in Leaves BY ONLY <1>12, <2>1, <2>3, <2>4, <2>5, <2>6, LeafParts
  <2> QED BY ONLY <1>10, <1>11, <1>12, <2>7 DEF Gathers
<1>18. /\ q \in Paths /\ q.root = i /\ q.inner = j /\ q.innerBound = p.innerBound
       /\ q.leafBound = p.leafBound /\ q.rowKey = key
  <2>2. q = [root |-> p.root, inner |-> j, innerBound |-> p.innerBound, leafBound |-> p.leafBound,
             rowKey |-> p.rowKey]
    BY ONLY <1>6, <1>14 DEF Paths
  <2> QED BY ONLY <1>1, <1>5, <1>6, <1>8, <2>2 DEF Paths
<1>19. LeadsGathered(t, n, i, j, q)
  <2>1. /\ Leads(t.keys, MinKey, i, p.innerBound, key)
        /\ Leads(n.keys, p.innerBound, j + 1, p.leafBound, key)
    <3>1. Leads(n.keys, p.innerBound, b, p.leafBound, key) BY <1>1, <1>2, <1>4, <1>5 DEF Fresh
    <3>2. Leads(t.keys, MinKey, i, p.innerBound, key) BY <1>1, <1>5 DEF Fresh
    <3> QED BY ONLY <1>8, <3>1, <3>2
  <2>2. PICK new : new = RemoveAt(n.keys, j) OBVIOUS
  <2>3. Leads(new, p.innerBound, j, p.leafBound, key)
    BY ONLY <1>6, <1>7, <1>8, <2>1, <2>2, LeadsRemoved
  <2> QED BY ONLY <1>18, <2>1, <2>2, <2>3 DEF LeadsGathered
<1>20. Grown(t, q, r, {})
  BY ONLY <1>4, <1>6, <1>8, <1>15, <1>16, <1>17, <1>19, TreeGood(t), LeavesMerged
<1> QED BY ONLY <1>5, <1>18, <1>20 DEF Grown

-----------------------------------------------------------------------------
(* balanceLeaf.                                                            *)

Same(t, p) == [t |-> t, p |-> p]

Prev(t, p) == t.kids[p.root].kids[p.inner - 1]
NextLeaf(t, p) == t.kids[p.root].kids[p.inner + 1]

\* The ways in which balanceLeaf leaves the tree, and the room there is for the
\* rows it moves.
BalanceWays(t, p, s) ==
  \/ s = Same(t, p)
  \/ p.inner > 1 /\ \E x : Room(LeafAt(t, p), Prev(t, p), x) /\ s \in TakeFromPrevious(t, p, x)
  \/ /\ p.inner < Len(t.kids[p.root].kids)
     /\ \E x : Room(LeafAt(t, p), NextLeaf(t, p), x) /\ s \in TakeFromNext(t, p, x)
  \/ /\ p.inner > 1 /\ p.inner < Len(t.kids[p.root].kids)
     /\ Size(LeafAt(t, p)) + Size(Prev(t, p)) <= MaxRows
     /\ Size(NextLeaf(t, p)) <= MinRows + MinRows
     /\ \E f : /\ f = Same(t, p) \/ \E x : f \in TakeFromPrevious(t, p, x)
               /\ \/ s = f
                  \/ /\ Size(LeafAt(f.t, f.p)) < MinRows
                     /\ \E x : s \in TakeFromNext(f.t, f.p, x)
  \/ /\ p.inner > 1 /\ s = MergeWithPrevious(t, p)
     /\ Size(LeafAt(t, p)) + Size(Prev(t, p)) <= MaxRows
  \/ /\ p.inner < Len(t.kids[p.root].kids) /\ s = MergeWithNext(t, p)
     /\ Size(LeafAt(t, p)) + Size(NextLeaf(t, p)) <= MaxRows

\* The rows that a neighbour has available, in unsigned arithmetic: enough of
\* them when the two leaves have enough rows for both, or next to none.
AvailableRows(other) == (Size(other) - MinRows) % SizeMod
Helps(leaf, other) == (AvailableRows(other) + Size(leaf)) % SizeMod >= MinRows

LEMMA Neighbour ==
  ASSUME NEW leaf \in Leaves, NEW other \in Leaves, Size(leaf) < MinRows
  PROVE  /\ Helps(leaf, other) => Room(leaf, other, MinRows - Size(leaf))
         /\ ~ Helps(leaf, other) => /\ Size(leaf) + Size(other) <= MinRows + MinRows
                                    /\ Size(leaf) + Size(other) <= MaxRows
                                    /\ Size(other) <= MinRows + MinRows
<1>1. PICK L : L = Size(leaf) OBVIOUS
<1>2. PICK P : P = Size(other) OBVIOUS
<1>3. L \in Nat /\ P \in Nat /\ P <= MaxRows /\ L < MinRows BY <1>1, <1>2, SizeFacts
<1>4. MinRows \in Nat /\ MaxRows \in Nat /\ MinRows + MinRows <= MaxRows BY SizeFacts
<1>5. SizeMod \in Nat /\ SizeMod > MaxRows + MaxRows
  <2>1. MaxRows = MaxKeys BY DEF MaxRows
  <2> QED BY ONLY <1>4, <2>1, ConstantsAssumption
<1>6. CASE P < MinRows
  <2>1. L + P <= MinRows + MinRows /\ L + P <= MaxRows /\ P <= MinRows + MinRows BY ONLY <1>3, <1>4, <1>6
  <2> QED BY ONLY <1>1, <1>2, <2>1 DEF Room
<1>7. CASE P >= MinRows
  <2>1. \A x \in Nat : x < SizeMod => x % SizeMod = x BY ONLY <1>5
  <2>2. PICK a : a = P - MinRows OBVIOUS
  <2>3. a \in Nat /\ a < SizeMod /\ a + L \in Nat /\ a + L < SizeMod /\ a + L = P + L - MinRows
    BY ONLY <1>3, <1>4, <1>5, <1>7, <2>2
  <2>4. Helps(leaf, other) <=> (((P - MinRows) % SizeMod) + L) % SizeMod >= MinRows
    BY ONLY <1>1, <1>2 DEF Helps, AvailableRows
  <2>5. (P - MinRows) % SizeMod = a BY ONLY <2>1, <2>2, <2>3
  <2>6. (a + L) % SizeMod = a + L BY ONLY <2>1, <2>3
  <2>7. Helps(leaf, other) <=> P + L - MinRows >= MinRows BY ONLY <2>3, <2>4, <2>5, <2>6
  <2>8. /\ Helps(leaf, other) => MinRows - L \in Nat /\ MinRows - L >= 1 /\ MinRows + (MinRows - L) <= P
        /\ ~ Helps(leaf, other) => /\ L + P <= MinRows + MinRows /\ L + P <= MaxRows
                                   /\ P <= MinRows + MinRows
    <3>1. PICK h : h = Helps(leaf, other) OBVIOUS
    <3>2. h <=> P + L - MinRows >= MinRows BY ONLY <2>7, <3>1
    <3> QED BY ONLY <1>3, <1>4, <3>1, <3>2
  <2> QED BY ONLY <1>1, <1>2, <1>3, <2>8 DEF Room
<1> QED BY ONLY <1>3, <1>4, <1>6, <1>7

LEMMA BalanceLeafWays ==
  ASSUME NEW t, TreeGood(t), NEW p, Fresh(t, p), NEW s \in BalanceLeaf(t, p)
  PROVE  BalanceWays(t, p, s)
<1> DEFINE leaf == LeafAt(t, p)
           node == t.kids[p.root]
           hasPrev == p.inner > 1
           hasNext == p.inner < Len(node.kids)
           required == MinRows - Size(leaf)
           Available(slot) == (Size(node.kids[slot]) - MinRows) % SizeMod
           prevAvailable == Available(p.inner - 1)
           nextAvailable == Available(p.inner + 1)
           Enough(available) == (available + Size(leaf)) % SizeMod >= MinRows
           nextGives == (nextAvailable + Size(leaf)) % SizeMod
           prevRequired == IF nextGives < MinRows THEN MinRows - nextGives ELSE 0
           first == IF prevAvailable > 0 THEN TakeFromPrevious(t, p, prevRequired)
                                         ELSE {[t |-> t, p |-> p]}
           few(f) == Size(LeafAt(f.t, f.p)) < MinRows
           lacks(f) == MinRows - Size(LeafAt(f.t, f.p))
           Rest(f) == IF few(f) THEN TakeFromNext(f.t, f.p, lacks(f)) ELSE {f}
           fromBoth == UNION {Rest(f) : f \in first}
           small == Size(leaf) < MinRows
           stays == Size(leaf) >= MinRows \/ OneLeaf(t) \/ ~(hasPrev \/ hasNext)
           both == Enough(prevAvailable + nextAvailable)
           prevFirst == Enough(prevAvailable)
           nextFirst == Enough(nextAvailable)
<1>1. s \in IF stays THEN {[t |-> t, p |-> p]}
             ELSE IF hasPrev /\ prevFirst THEN TakeFromPrevious(t, p, required)
             ELSE IF hasNext /\ nextFirst THEN TakeFromNext(t, p, required)
             ELSE IF hasPrev /\ hasNext /\ both THEN fromBoth
             ELSE {IF hasPrev THEN MergeWithPrevious(t, p) ELSE MergeWithNext(t, p)}
  <2>1. s \in Balancings(t, p) BY ONLY s \in BalanceLeaf(t, p) DEF BalanceLeaf
  <2> QED BY ONLY <2>1, Zenon DEF Balancings
<1>2. ~ stays => (hasPrev \/ hasNext) /\ ~ (Size(leaf) >= MinRows) OBVIOUS
<1>3. s \in fromBoth =>
        \E f : f \in first /\ (s = f \/ (few(f) /\ \E x : s \in TakeFromNext(f.t, f.p, x)))
  <2> HIDE DEF first, few, lacks
  <2>1. SUFFICES ASSUME s \in fromBoth
                 PROVE  \E f : f \in first /\ (s = f \/ (few(f) /\ \E x : s \in TakeFromNext(f.t, f.p, x)))
    OBVIOUS
  <2>2. PICK f \in first : s \in Rest(f) BY <2>1
  <2>3. CASE few(f)
    <3>1. s \in TakeFromNext(f.t, f.p, lacks(f)) BY ONLY <2>2, <2>3
    <3> QED BY ONLY <2>2, <2>3, <3>1
  <2>4. CASE ~ few(f)
    <3>1. Rest(f) = {f} BY ONLY <2>4
    <3>2. s = f /\ f \in first BY ONLY <2>2, <3>1
    <3> QED BY ONLY <3>2
  <2> QED BY ONLY <2>3, <2>4
<1>4. \A f : f \in first => f = Same(t, p) \/ \E x : f \in TakeFromPrevious(t, p, x)
  <2> HIDE DEF prevAvailable, prevRequired
  <2> QED BY DEF Same
<1>5. /\ leaf \in Leaves
      /\ hasPrev => Prev(t, p) \in Leaves
      /\ hasNext => NextLeaf(t, p) \in Leaves
  <2>1. PICK n : n = node OBVIOUS
  <2>2. NodeGood(n) /\ p.inner \in 1 .. Len(n.keys) + 1 /\ leaf = n.kids[p.inner]
    BY ONLY <2>1, TreeGood(t), Fresh(t, p), FreshFacts
  <2>3. /\ Len(n.keys) \in Nat /\ Len(n.kids) = Len(n.keys) + 1
        /\ \A x \in 1 .. Len(n.keys) + 1 : n.kids[x] \in Leaves
    BY <2>2, NodeFacts
  <2>4. p.inner > 1 => p.inner - 1 \in 1 .. Len(n.keys) + 1 BY ONLY <2>2, <2>3
  <2>5. p.inner < Len(n.kids) => p.inner + 1 \in 1 .. Len(n.keys) + 1 BY ONLY <2>2, <2>3
  <2> QED BY ONLY <2>1, <2>2, <2>3, <2>4, <2>5 DEF Prev, NextLeaf
<1>6. ~ stays => Size(leaf) < MinRows
  <2>1. Size(leaf) \in Nat /\ MinRows \in Nat BY ONLY <1>5, SizeFacts
  <2> QED BY ONLY <1>2, <2>1
<1>7. prevFirst <=> Helps(leaf, Prev(t, p)) BY DEF Helps, AvailableRows, Prev
<1>8. nextFirst <=> Helps(leaf, NextLeaf(t, p)) BY DEF Helps, AvailableRows, NextLeaf
<1>9. ~ stays /\ hasPrev =>
        /\ prevFirst => Room(leaf, Prev(t, p), required)
        /\ ~ prevFirst => Size(leaf) + Size(Prev(t, p)) <= MaxRows
  <2> HIDE DEF prevFirst, stays, hasPrev, leaf
  <2> QED BY ONLY <1>5, <1>6, <1>7, Neighbour
<1>10. ~ stays /\ hasNext =>
        /\ nextFirst => Room(leaf, NextLeaf(t, p), required)
        /\ ~ nextFirst => /\ Size(leaf) + Size(NextLeaf(t, p)) <= MaxRows
                          /\ Size(NextLeaf(t, p)) <= MinRows + MinRows
  <2> HIDE DEF nextFirst, stays, hasNext, leaf
  <2> QED BY ONLY <1>5, <1>6, <1>8, Neighbour
<1>11. CASE stays BY ONLY <1>1, <1>11 DEF BalanceWays, Same
<1>12. CASE ~ stays /\ hasPrev /\ prevFirst
  <2>1. s \in TakeFromPrevious(t, p, required)
    <3> HIDE DEF stays, hasPrev, prevFirst, nextFirst, hasNext, both, fromBoth, required
    <3> QED BY ONLY <1>1, <1>12
  <2>2. Room(leaf, Prev(t, p), required) BY ONLY <1>9, <1>12
  <2>3. hasPrev BY <1>12
  <2> QED BY ONLY <2>1, <2>2, <2>3 DEF BalanceWays
<1>13. CASE ~ stays /\ ~ (hasPrev /\ prevFirst) /\ hasNext /\ nextFirst
  <2>1. s \in TakeFromNext(t, p, required)
    <3> HIDE DEF stays, hasPrev, prevFirst, nextFirst, hasNext, both, fromBoth, required
    <3> QED BY ONLY <1>1, <1>13
  <2>2. Room(leaf, NextLeaf(t, p), required) BY ONLY <1>10, <1>13
  <2>3. hasNext BY <1>13
  <2> QED BY ONLY <2>1, <2>2, <2>3 DEF BalanceWays
<1>14. CASE ~ stays /\ ~ (hasPrev /\ prevFirst) /\ ~ (hasNext /\ nextFirst)
  <2>1. /\ hasPrev => Size(leaf) + Size(Prev(t, p)) <= MaxRows
        /\ hasNext => /\ Size(leaf) + Size(NextLeaf(t, p)) <= MaxRows
                      /\ Size(NextLeaf(t, p)) <= MinRows + MinRows
    <3> HIDE DEF stays, hasPrev, prevFirst, nextFirst, hasNext
    <3> QED BY ONLY <1>9, <1>10, <1>14
  <2>2. \/ hasPrev /\ hasNext /\ s \in fromBoth
        \/ hasPrev /\ s = MergeWithPrevious(t, p)
        \/ hasNext /\ s = MergeWithNext(t, p)
    <3> HIDE DEF stays, hasPrev, prevFirst, nextFirst, hasNext, both, fromBoth, required
    <3> QED BY ONLY <1>1, <1>2, <1>14
  <2>3. CASE hasPrev /\ hasNext /\ s \in fromBoth
    <3>1. \E f : /\ f = Same(t, p) \/ \E x : f \in TakeFromPrevious(t, p, x)
                 /\ \/ s = f
                    \/ /\ Size(LeafAt(f.t, f.p)) < MinRows
                       /\ \E x : s \in TakeFromNext(f.t, f.p, x)
      <4>1. PICK f : f \in first /\ (s = f \/ (few(f) /\ \E x : s \in TakeFromNext(f.t, f.p, x)))
        BY ONLY <1>3, <2>3
      <4>2. f = Same(t, p) \/ \E x : f \in TakeFromPrevious(t, p, x) BY ONLY <1>4, <4>1
      <4> HIDE DEF first
      <4> QED BY ONLY <4>1, <4>2
    <3>2. hasPrev /\ hasNext BY ONLY <2>3
    <3> QED BY ONLY <2>1, <3>1, <3>2 DEF BalanceWays
  <2>4. CASE hasPrev /\ s = MergeWithPrevious(t, p) BY ONLY <2>1, <2>4 DEF BalanceWays
  <2>5. CASE hasNext /\ s = MergeWithNext(t, p) BY ONLY <2>1, <2>5 DEF BalanceWays
  <2> HIDE DEF hasPrev, hasNext, fromBoth
  <2> QED BY ONLY <2>2, <2>3, <2>4, <2>5
<1> HIDE DEF stays, hasPrev, prevFirst, nextFirst, hasNext
<1> QED BY ONLY <1>11, <1>12, <1>13, <1>14

LEMMA BalanceLeafGood ==
  ASSUME NEW t, TreeGood(t), NEW p, Fresh(t, p), NEW s \in BalanceLeaf(t, p)
  PROVE  Grown(t, p, s, {})
<1>1. BalanceWays(t, p, s) BY BalanceLeafWays
<1>2. ASSUME s = Same(t, p) PROVE Grown(t, p, s, {}) BY <1>2 DEF Same, Grown
<1>3. ASSUME p.inner > 1, NEW x, Room(LeafAt(t, p), Prev(t, p), x), s \in TakeFromPrevious(t, p, x)
      PROVE  Grown(t, p, s, {})
  <2>1. Room(LeafAt(t, p), t.kids[p.root].kids[p.inner - 1], x) BY <1>3 DEF Prev
  <2> QED BY <1>3, <2>1, TakeFromPreviousGood
<1>4. ASSUME p.inner < Len(t.kids[p.root].kids), NEW x, Room(LeafAt(t, p), NextLeaf(t, p), x),
             s \in TakeFromNext(t, p, x)
      PROVE  Grown(t, p, s, {})
  <2>1. Room(LeafAt(t, p), t.kids[p.root].kids[p.inner + 1], x) BY <1>4 DEF NextLeaf
  <2> QED BY <1>4, <2>1, TakeFromNextGood
<1>5. ASSUME p.inner > 1, p.inner < Len(t.kids[p.root].kids),
             Size(LeafAt(t, p)) + Size(Prev(t, p)) <= MaxRows,
             Size(NextLeaf(t, p)) <= MinRows + MinRows, NEW f,
             f = Same(t, p) \/ \E x : f \in TakeFromPrevious(t, p, x),
             \/ s = f
             \/ Size(LeafAt(f.t, f.p)) < MinRows /\ \E x : s \in TakeFromNext(f.t, f.p, x)
      PROVE  Grown(t, p, s, {})
  <2>1. /\ Grown(t, p, f, {}) /\ f.p = p
        /\ Len(f.t.kids[p.root].keys) = Len(t.kids[p.root].keys)
        /\ \A z \in DOMAIN t.kids[p.root].kids :
             z > p.inner => f.t.kids[p.root].kids[z] = t.kids[p.root].kids[z]
    <3>1. CASE f = Same(t, p) BY <3>1 DEF Same, Grown
    <3>2. ASSUME NEW x, f \in TakeFromPrevious(t, p, x)
          PROVE  /\ Grown(t, p, f, {}) /\ f.p = p
                 /\ Len(f.t.kids[p.root].keys) = Len(t.kids[p.root].keys)
                 /\ \A z \in DOMAIN t.kids[p.root].kids :
                      z > p.inner => f.t.kids[p.root].kids[z] = t.kids[p.root].kids[z]
      <4>1. Room(LeafAt(t, p), t.kids[p.root].kids[p.inner - 1], x) BY <1>5 DEF Prev, Room
      <4> QED BY <1>5, <3>2, <4>1, TakeFromPreviousGood
    <3> QED BY <1>5, <3>1, <3>2
  <2>2. TreeGood(f.t) /\ Fresh(f.t, p) /\ f.p = p BY ONLY <2>1 DEF Grown
  <2>3. ASSUME NEW x, Size(LeafAt(f.t, f.p)) < MinRows, s \in TakeFromNext(f.t, f.p, x)
        PROVE  Grown(t, p, s, {})
    <3>1. NodeGood(t.kids[p.root]) /\ NodeGood(f.t.kids[p.root]) /\ p.inner \in 1 .. Len(t.kids[p.root].keys) + 1
          /\ LeafAt(f.t, p) \in Leaves
      BY ONLY <2>2, TreeGood(t), Fresh(t, p), FreshFacts
    <3>2. /\ Len(t.kids[p.root].kids) = Len(t.kids[p.root].keys) + 1
          /\ Len(t.kids[p.root].keys) \in Nat /\ t.kids[p.root].kids \in Seq(Leaves)
          /\ Len(f.t.kids[p.root].kids) = Len(f.t.kids[p.root].keys) + 1
      BY ONLY <3>1, NodeFacts
    <3>3. p.inner < Len(f.t.kids[p.root].kids) BY ONLY <1>5, <2>1, <3>2
    <3>4. Room(LeafAt(f.t, p), f.t.kids[p.root].kids[p.inner + 1], x)
      <4>1. PICK kids : kids = t.kids[p.root].kids OBVIOUS
      <4>2. p.inner + 1 \in DOMAIN kids /\ p.inner + 1 > p.inner /\ kids[p.inner + 1] \in Leaves
        <5>1. /\ p.inner < Len(kids) /\ p.inner \in 1 .. Len(kids) /\ Len(kids) \in Nat
              /\ kids \in Seq(Leaves)
          BY ONLY <1>5, <3>1, <3>2, <4>1
        <5>2. PICK j : j = p.inner OBVIOUS
        <5>3. j + 1 \in 1 .. Len(kids) /\ j + 1 > j BY ONLY <5>1, <5>2
        <5> QED BY ONLY <5>1, <5>2, <5>3
      <4>3. f.t.kids[p.root].kids[p.inner + 1] = NextLeaf(t, p)
        BY ONLY <2>1, <4>1, <4>2 DEF NextLeaf
      <4>4. NextLeaf(t, p) \in Leaves BY ONLY <4>1, <4>2 DEF NextLeaf
      <4>5. Size(LeafAt(f.t, p)) < MinRows BY ONLY <2>2, <2>3
      <4>6. Size(LeafAt(f.t, p)) + Size(NextLeaf(t, p)) <= MaxRows
        <5>1. PICK a : a = Size(LeafAt(f.t, p)) OBVIOUS
        <5>2. PICK b : b = Size(NextLeaf(t, p)) OBVIOUS
        <5>3. a \in Nat /\ b \in Nat BY ONLY <3>1, <4>4, <5>1, <5>2, SizeFacts
        <5> QED BY ONLY <1>5, <4>5, <5>1, <5>2, <5>3, SizeFacts
      <4> QED BY ONLY <4>3, <4>6 DEF Room
    <3>5. Grown(f.t, p, s, {}) BY ONLY <2>2, <2>3, <3>3, <3>4, TakeFromNextGood
    <3> QED BY ONLY <2>1, <2>2, <3>5 DEF Grown
  <2> QED BY <1>5, <2>1, <2>3
<1>6. ASSUME p.inner > 1, s = MergeWithPrevious(t, p),
             Size(LeafAt(t, p)) + Size(Prev(t, p)) <= MaxRows
      PROVE  Grown(t, p, s, {})
  <2>1. Size(LeafAt(t, p)) + Size(t.kids[p.root].kids[p.inner - 1]) <= MaxRows BY <1>6 DEF Prev
  <2> QED BY <1>6, <2>1, MergeWithPreviousGood
<1>7. ASSUME p.inner < Len(t.kids[p.root].kids), s = MergeWithNext(t, p),
             Size(LeafAt(t, p)) + Size(NextLeaf(t, p)) <= MaxRows
      PROVE  Grown(t, p, s, {})
  <2>1. Size(LeafAt(t, p)) + Size(t.kids[p.root].kids[p.inner + 1]) <= MaxRows BY <1>7 DEF NextLeaf
  <2> QED BY <1>7, <2>1, MergeWithNextGood
<1> QED BY ONLY <1>1, <1>2, <1>3, <1>4, <1>5, <1>6, <1>7 DEF BalanceWays

-----------------------------------------------------------------------------
(* The operations.                                                          *)

LEMMA EmptyTreeGood == TreeGood(EmptyTree) /\ Contents(EmptyTree) = {}
<1>1. EmptyLeaf \in Leaves /\ EmptyLeaf.rows = {} BY EmptyLeafFacts
<1>2. PICK n : n = [keys |-> <<>>, kids |-> <<EmptyLeaf>>] OBVIOUS
<1>3. n \in Nodes /\ n.keys = <<>> /\ n.kids = <<EmptyLeaf>> BY ONLY <1>1, <1>2 DEF Nodes
<1>4. NodeGood(n)
  <2>1. Ascending(n.keys) BY ONLY <1>3 DEF Ascending
  <2>2. Len(n.kids) = Len(n.keys) + 1 BY ONLY <1>3
  <2>3. \A j \in 1 .. Len(n.keys) + 1 : \A k \in n.kids[j].rows : k \in Nat /\ InSlot(n.keys, j, k)
    <3>1. \A j \in 1 .. Len(n.keys) + 1 : n.kids[j] = EmptyLeaf BY ONLY <1>3
    <3> QED BY ONLY <1>1, <3>1
  <2> QED BY ONLY <1>3, <2>1, <2>2, <2>3, NodeIntro
<1>5. RowsOf(n) = {}
  <2>1. \A k : k \in RowsOf(n) <=> \E j \in 1 .. Len(n.keys) + 1 : k \in n.kids[j].rows
    BY <1>4, NodeFacts
  <2>2. \A j \in 1 .. Len(n.keys) + 1 : n.kids[j] = EmptyLeaf BY ONLY <1>3
  <2> QED BY ONLY <1>1, <2>1, <2>2
<1>6. PICK t : t = EmptyTree OBVIOUS
<1>7. t = [keys |-> <<>>, kids |-> <<n>>] BY ONLY <1>2, <1>6 DEF EmptyTree
<1>8. /\ t \in Trees /\ t.keys = <<>> /\ Len(t.keys) = 0 /\ Len(t.kids) = 1 /\ t.kids[1] = n
  BY ONLY <1>3, <1>7 DEF Trees
<1>9. \A i \in 1 .. Len(t.keys) + 1 : i = 1 BY ONLY <1>8
<1>10. ToSet(n.keys) = {} BY ONLY <1>3 DEF ToSet
<1>11. Level(t.keys, SubRows(t), SubKeys(t))
  <2>1. \A i \in 1 .. Len(t.keys) + 1 : SubRows(t)[i] = {} /\ SubKeys(t)[i] = {}
    BY ONLY <1>5, <1>8, <1>9, <1>10 DEF SubRows, SubKeys
  <2>2. t.keys \in Seq(Nat) /\ Ascending(t.keys) BY ONLY <1>8 DEF Ascending
  <2> QED BY ONLY <2>1, <2>2 DEF Level
<1>12. TreeGood(t)
  <2>1. \A i \in 1 .. Len(t.keys) + 1 : NodeGood(t.kids[i]) /\ Len(t.kids[i].keys) <= MaxKeys
    <3>1. Len(n.keys) <= MaxKeys BY ONLY <1>3, ConstantsAssumption
    <3> QED BY ONLY <1>4, <1>8, <1>9, <3>1
  <2> QED BY ONLY <1>8, <1>11, <2>1 DEF TreeGood
<1>13. Contents(t) = {}
  <2>1. \A k : k \in Contents(t) <=> \E i \in 1 .. Len(t.keys) + 1 : k \in RowsOf(t.kids[i])
    BY <1>12, ContentsRows
  <2> QED BY ONLY <1>5, <1>8, <1>9, <2>1
<1> QED BY <1>6, <1>12, <1>13

\* What an operation on one row leaves: the path leads to the row.
RowDone(t, s, key, rows) ==
  TreeGood(s.t) /\ Fresh(s.t, s.p) /\ s.p.rowKey = key /\ Contents(s.t) = rows

LEMMA Grew ==
  ASSUME NEW t, NEW p, NEW s, Grown(t, p, s, {})
  PROVE  Contents(s.t) = Contents(t)
BY DEF Grown

LEMMA NotFull ==
  ASSUME NEW leaf \in Leaves, ~ Full(leaf)
  PROVE  Size(leaf) < MaxRows
<1>1. Size(leaf) \in Nat /\ Size(leaf) <= MaxRows /\ MaxRows \in Nat BY SizeFacts
<1> QED BY ONLY <1>1, ~ Full(leaf) DEF Full

LEMMA InsertRowGood ==
  ASSUME NEW t, TreeGood(t), NEW p \in Paths, p.innerBound = 0 \/ Fresh(t, p), NEW key \in Keys,
         NEW s \in InsertRow(t, p, key)
  PROVE  RowDone(t, s, key, Contents(t) \cup {key})
<1>1. PICK q : q = UpdateLeaf(t, p, key) OBVIOUS
<1>2. Fresh(t, q) /\ q.rowKey = key BY <1>1, UpdateLeafFresh
<1>3. PICK g : /\ \/ g = [t |-> t, p |-> q] /\ ~ Full(LeafAt(t, q))
                  \/ g \in SplitLeafUnbalanced(t, q, key) /\ Full(LeafAt(t, q))
               /\ s = [t |-> LeafInsert(g.t, g.p, key), p |-> g.p]
  BY ONLY <1>1, s \in InsertRow(t, p, key) DEF InsertRow
<1>4. Grown(t, q, g, {}) /\ HasRoom(g)
  <2>1. CASE g = [t |-> t, p |-> q] /\ ~ Full(LeafAt(t, q))
    <3>1. LeafAt(t, q) \in Leaves BY ONLY <1>2, TreeGood(t), FreshFacts
    <3>2. HasRoom(g) BY ONLY <2>1, <3>1, NotFull DEF HasRoom
    <3> QED BY <1>2, <2>1, <3>2 DEF Grown
  <2>2. CASE g \in SplitLeafUnbalanced(t, q, key) /\ Full(LeafAt(t, q))
    BY <1>2, <2>2, SplitLeafUnbalancedGrows
  <2> QED BY <1>3, <2>1, <2>2
<1>5. TreeGood(g.t) /\ Fresh(g.t, g.p) /\ g.p.rowKey = key BY <1>2, <1>4 DEF Grown
<1>6. Contents(g.t) = Contents(t) BY <1>4, Grew
<1>7. s.t = LeafInsert(g.t, g.p, key) /\ s.p = g.p BY ONLY <1>3
<1>8. TreeGood(s.t) /\ Fresh(s.t, g.p) /\ Contents(s.t) = Contents(g.t) \cup {key}
  <2>1. PICK v : v = g.t OBVIOUS
  <2>2. PICK w : w = g.p OBVIOUS
  <2>3. TreeGood(v) /\ Fresh(v, w) /\ key = w.rowKey /\ Size(LeafAt(v, w)) < MaxRows
    BY ONLY <1>4, <1>5, <2>1, <2>2 DEF HasRoom
  <2>4. PICK u : u = LeafInsert(v, w, key) OBVIOUS
  <2>5. TreeGood(u) /\ Fresh(u, w) /\ Contents(u) = Contents(v) \cup {key}
    BY ONLY <2>3, <2>4, LeafInserted
  <2> QED BY ONLY <1>7, <2>1, <2>2, <2>4, <2>5
<1> QED BY ONLY <1>5, <1>6, <1>7, <1>8 DEF RowDone

LEMMA NoPathFacts == /\ NoPath \in Paths /\ NoPath.innerBound = 0
                     /\ NoPath.root = 1 /\ NoPath.inner = 1
BY DEF NoPath, Paths, MinKey

\* A leaf is sorted.
LEMMA LeafSorted ==
  ASSUME NEW t, TreeGood(t), NEW i \in DOMAIN t.kids, NEW j \in DOMAIN t.kids[i].kids,
         NEW u, u = [t EXCEPT !.kids[i].kids[j].order = "sorted"]
  PROVE  TreeGood(u) /\ Contents(u) = Contents(t)
<1>1. PICK n : n = t.kids[i] OBVIOUS
<1>2. i \in 1 .. Len(t.keys) + 1 /\ NodeGood(n) /\ Len(n.keys) <= MaxKeys
  <2>1. DOMAIN t.kids = 1 .. Len(t.keys) + 1 BY TreeFacts
  <2>2. i \in 1 .. Len(t.keys) + 1 BY ONLY <2>1, i \in DOMAIN t.kids
  <2> QED BY <1>1, <2>2, TreeFacts
<1>3. /\ n.keys \in Seq(Nat) /\ n.kids \in Seq(Leaves) /\ Len(n.kids) = Len(n.keys) + 1
      /\ j \in DOMAIN n.kids
  BY <1>1, <1>2, NodeFacts
<1>4. DOMAIN n.kids = 1 .. Len(n.keys) + 1 /\ j \in 1 .. Len(n.keys) + 1 BY ONLY <1>3
<1>5. n \in Nodes BY <1>2 DEF NodeGood
<1>6. PICK leaf : leaf = [n.kids[j] EXCEPT !.order = "sorted"] OBVIOUS
<1>7. leaf \in Leaves /\ leaf.rows = n.kids[j].rows
  <2>1. n.kids[j] \in Leaves BY ONLY <1>3, <1>4
  <2> QED BY ONLY <1>6, <2>1 DEF Leaves, Orders
<1>8. PICK kids : kids = [n.kids EXCEPT ![j] = leaf] OBVIOUS
<1>9. /\ kids \in Seq(Leaves) /\ Len(kids) = Len(n.kids) /\ kids[j] = leaf
      /\ \A x \in 1 .. Len(n.keys) + 1 : x # j => kids[x] = n.kids[x]
  BY ONLY <1>3, <1>4, <1>7, <1>8
<1>10. PICK m : m = [keys |-> n.keys, kids |-> kids] OBVIOUS
<1>11. m \in Nodes /\ m.keys = n.keys /\ m.kids = kids BY ONLY <1>3, <1>9, <1>10 DEF Nodes
<1>12. NodeGood(m) /\ RowsOf(m) = RowsOf(n)
  <2>1. m.keys = n.keys /\ Len(m.kids) = Len(n.kids)
        /\ \A x \in 1 .. Len(n.keys) + 1 : x # j => m.kids[x].rows = n.kids[x].rows
    BY ONLY <1>9, <1>11
  <2>2. m.kids[j].rows = n.kids[j].rows BY ONLY <1>7, <1>9, <1>11
  <2>3. \A k \in n.kids[j].rows : InSlot(n.keys, j, k) /\ k \in RowsOf(n) BY <1>2, <1>4, NodeFacts
  <2>4. \A k \in m.kids[j].rows : InSlot(n.keys, j, k) BY ONLY <2>2, <2>3
  <2>5. NodeGood(m) /\ RowsOf(m) = (RowsOf(n) \ n.kids[j].rows) \cup m.kids[j].rows
    BY ONLY <1>2, <1>4, <1>11, <2>1, <2>4, NodeReplaced
  <2> QED BY ONLY <2>2, <2>3, <2>5
<1>13. SetKid(t, i, m, u)
  <2>1. n = [keys |-> n.keys, kids |-> n.kids] BY ONLY <1>5 DEF Nodes
  <2>2. [n EXCEPT !.kids[j].order = "sorted"] = m
    <3>1. [n EXCEPT !.kids = [n.kids EXCEPT ![j] = leaf]] = m BY ONLY <1>8, <1>10, <2>1
    <3>2. [n.kids EXCEPT ![j].order = "sorted"] = [n.kids EXCEPT ![j] = leaf]
      BY ONLY <1>3, <1>6
    <3> QED BY ONLY <3>1, <3>2
  <2>3. u = [t EXCEPT !.kids[i] = [n EXCEPT !.kids[j].order = "sorted"]]
    BY ONLY <1>1, u = [t EXCEPT !.kids[i].kids[j].order = "sorted"], i \in DOMAIN t.kids
  <2> QED BY ONLY <2>2, <2>3 DEF SetKid
<1>14. \A k \in ToSet(m.keys) : Between(t.keys, i, k) BY <1>1, <1>2, <1>11, TreeFacts
<1>15. Len(m.keys) <= MaxKeys BY ONLY <1>2, <1>11
<1> QED BY ONLY <1>1, <1>2, <1>12, <1>13, <1>14, <1>15, TreeGood(t), NodeChanged

-----------------------------------------------------------------------------
(* The invariant, and what each operation does to the rows.                 *)

Ops == {"none", "insertRange", "eraseRange"}

IInv ==
  /\ TreeGood(tree)
  /\ path \in Paths
  /\ op \in Ops
  /\ IF op = "none" THEN path.root = 1 /\ path.inner = 1 ELSE Fresh(tree, path)

\* append puts its row into the last leaf without a search, which is right as
\* long as that leaf has a row, or is the only one.
LastLeaf(t) == LET node == t.kids[Len(t.kids)] IN node.kids[Len(node.kids)]
Appendable ==
  "append" \in Clients /\ op = "none" /\ ~OneLeaf(tree) => LastLeaf(tree).rows # {}

\* The tree after a step has these rows, and the last operation was on this key.
Holds(rows, key) == IInv' /\ Contents(tree') = rows /\ path'.rowKey = key

LEMMA RangeGoes ==
  ASSUME NEW s, NEW key \in Keys, NEW rows, RowDone(tree, s, key, rows),
         tree' = s.t, path' = s.p, op' \in Ops, op' # "none"
  PROVE  Holds(rows, key)
BY DEF RowDone, Holds, IInv, Fresh

LEMMA RangeOver ==
  ASSUME NEW key \in Keys, TreeGood(tree'), NoRange(key)
  PROVE  Holds(Contents(tree'), key)
<1>1. LET p == [NoPath EXCEPT !.rowKey = key]
      IN  p \in Paths /\ p.rowKey = key /\ p.root = 1 /\ p.inner = 1
  BY DEF NoPath, Paths, MinKey
<1> QED BY <1>1 DEF NoRange, Holds, IInv, Ops

LEMMA InsertHolds ==
  ASSUME IInv, NEW key \in Keys, Insert(key)
  PROVE  Holds(Contents(tree) \cup {key}, key)
<1>1. TreeGood(tree) BY DEF IInv
<1>2. PICK p : p = UpdateLeaf(tree, NoPath, key) OBVIOUS
<1>3. Fresh(tree, p) /\ p.rowKey = key BY ONLY <1>1, <1>2, key \in Keys, NoPathFacts, UpdateLeafFresh
<1>4. PICK g : /\ \/ g = [t |-> tree, p |-> p] /\ ~ Full(LeafAt(tree, p))
                  \/ g \in SplitLeaf(tree, p, key) /\ Full(LeafAt(tree, p))
               /\ tree' = LeafInsert(g.t, g.p, key)
  BY ONLY <1>2, Insert(key) DEF Insert
<1>5. Grown(tree, p, g, {}) /\ HasRoom(g)
  <2>1. CASE g = [t |-> tree, p |-> p] /\ ~ Full(LeafAt(tree, p))
    <3>1. LeafAt(tree, p) \in Leaves BY ONLY <1>1, <1>3, FreshFacts
    <3>2. HasRoom(g) BY ONLY <2>1, <3>1, NotFull DEF HasRoom
    <3> QED BY <1>1, <1>3, <2>1, <3>2 DEF Grown
  <2>2. CASE g \in SplitLeaf(tree, p, key) /\ Full(LeafAt(tree, p))
    BY <1>1, <1>3, <2>2, SplitLeafGrows
  <2> QED BY <1>4, <2>1, <2>2
<1>6. Contents(g.t) = Contents(tree) BY <1>5, Grew
<1>7. TreeGood(tree') /\ Contents(tree') = Contents(tree) \cup {key}
  <2>1. PICK v : v = g.t OBVIOUS
  <2>2. PICK w : w = g.p OBVIOUS
  <2>3. TreeGood(v) /\ Fresh(v, w) /\ key = w.rowKey /\ Size(LeafAt(v, w)) < MaxRows
    BY ONLY <1>3, <1>5, <2>1, <2>2 DEF Grown, HasRoom
  <2>4. PICK u : u = LeafInsert(v, w, key) OBVIOUS
  <2>5. TreeGood(u) /\ Contents(u) = Contents(v) \cup {key} BY ONLY <2>3, <2>4, LeafInserted
  <2> QED BY ONLY <1>4, <1>6, <2>1, <2>2, <2>4, <2>5
<1>8. NoRange(key) BY DEF Insert
<1>9. Holds(Contents(tree'), key) BY ONLY <1>7, <1>8, key \in Keys, RangeOver
<1> QED BY ONLY <1>7, <1>9

LEMMA LastSlot ==
  ASSUME NEW keys \in Seq(Nat), NEW slot, slot = Len(keys) + 1, NEW key \in Nat,
         Len(keys) = 0 \/ \E k \in Nat : InSlot(keys, slot, k) /\ k < key
  PROVE  Leads(keys, MinKey, slot, MinKey, key)
<1>1. Len(keys) \in Nat /\ DOMAIN keys = 1 .. Len(keys) OBVIOUS
<1>2. slot \in 1 .. Len(keys) + 1 /\ ~ (slot <= Len(keys)) /\ slot \notin DOMAIN keys
  BY ONLY <1>1, slot = Len(keys) + 1
<1>3. slot > 1 => keys[slot - 1] <= key
  <2>1. ASSUME slot > 1 PROVE keys[slot - 1] <= key
    <3>1. PICK k \in Nat : InSlot(keys, slot, k) /\ k < key
      BY ONLY <1>1, <2>1, slot = Len(keys) + 1,
              Len(keys) = 0 \/ \E k \in Nat : InSlot(keys, slot, k) /\ k < key
    <3>2. keys[slot - 1] <= k BY ONLY <2>1, <3>1 DEF InSlot
    <3>3. slot - 1 \in 1 .. Len(keys) BY ONLY <1>1, <2>1, slot = Len(keys) + 1
    <3>4. keys[slot - 1] \in Nat BY ONLY <3>3, keys \in Seq(Nat)
    <3> QED BY ONLY <3>1, <3>2, <3>4, key \in Nat
  <2> QED BY <2>1
<1> QED BY ONLY <1>2, <1>3 DEF Leads, InSlot, UpperBound

LEMMA AppendHolds ==
  ASSUME IInv, Appendable, NEW key \in Keys, AppendRow(key)
  PROVE  Holds(Contents(tree) \cup {key}, key)
<1>1. TreeGood(tree) BY DEF IInv
<1>2. PICK t : t = tree OBVIOUS
<1>3. PICK i : i = Len(t.kids) OBVIOUS
<1>4. PICK n : n = t.kids[i] OBVIOUS
<1>5. PICK j : j = Len(n.kids) OBVIOUS
<1>6. /\ TreeGood(t) /\ t.keys \in Seq(Nat) /\ Len(t.keys) \in Nat /\ Len(t.kids) = Len(t.keys) + 1
      /\ t.kids \in Seq(Nodes)
  BY <1>1, <1>2, TreeFacts
<1>7. i \in 1 .. Len(t.keys) + 1 /\ i = Len(t.keys) + 1 /\ i \in DOMAIN t.kids BY ONLY <1>3, <1>6
<1>8. NodeGood(n) BY <1>4, <1>6, <1>7, TreeFacts
<1>9. /\ n.keys \in Seq(Nat) /\ Len(n.keys) \in Nat /\ Len(n.kids) = Len(n.keys) + 1
      /\ n.kids \in Seq(Leaves)
  BY <1>8, NodeFacts
<1>10. j \in 1 .. Len(n.keys) + 1 /\ j = Len(n.keys) + 1 /\ j \in DOMAIN n.kids BY ONLY <1>5, <1>9
<1>11. PICK leaf : leaf = n.kids[j] OBVIOUS
<1>12. leaf \in Leaves /\ \A k \in leaf.rows : /\ k \in Nat /\ InSlot(n.keys, j, k)
                                               /\ InSlot(t.keys, i, k) /\ k \in Contents(t) /\ k < key
  <2>1. /\ leaf \in Leaves
        /\ \A k \in leaf.rows : k \in Nat /\ InSlot(n.keys, j, k) /\ InSlot(t.keys, i, k)
    BY ONLY <1>4, <1>6, <1>7, <1>10, <1>11, LeafBounds
  <2>2. \A k \in leaf.rows : k \in RowsOf(n) BY <1>8, <1>10, <1>11, NodeFacts
  <2>3. \A k \in RowsOf(n) : k \in Contents(t) BY <1>4, <1>6, <1>7, ContentsRows
  <2>4. \A k \in Contents(t) : k < key BY <1>2 DEF AppendRow
  <2> QED BY ONLY <2>1, <2>2, <2>3, <2>4
<1>13. OneLeaf(t) \/ leaf.rows # {}
  <2>1. "append" \in Clients /\ op = "none" BY DEF AppendRow, Idle
  <2>2. LastLeaf(t) = leaf BY ONLY <1>3, <1>4, <1>5, <1>11 DEF LastLeaf
  <2> QED BY ONLY <1>2, <2>1, <2>2, Appendable DEF Appendable
<1>14. key \in Nat BY key \in Keys
<1>15. Leads(t.keys, MinKey, i, MinKey, key) /\ Leads(n.keys, MinKey, j, MinKey, key)
  <2>1. CASE OneLeaf(t)
    <3>1. Len(t.keys) = 0 /\ Len(n.keys) = 0
      BY ONLY <1>3, <1>4, <1>6, <1>9, <2>1 DEF OneLeaf
    <3> QED BY ONLY <1>6, <1>7, <1>9, <1>10, <1>14, <3>1, LastSlot
  <2>2. CASE leaf.rows # {}
    <3>1. PICK k : k \in leaf.rows BY <2>2
    <3>2. k \in Nat /\ InSlot(n.keys, j, k) /\ InSlot(t.keys, i, k) /\ k < key BY ONLY <1>12, <3>1
    <3> QED BY ONLY <1>6, <1>7, <1>9, <1>10, <1>14, <3>2, LastSlot
  <2> QED BY <1>13, <2>1, <2>2
<1>16. PICK p : p = [NoPath EXCEPT !.root = i, !.inner = j, !.rowKey = key] OBVIOUS
<1>17. /\ p \in Paths /\ p.root = i /\ p.inner = j /\ p.innerBound = MinKey /\ p.leafBound = MinKey
       /\ p.rowKey = key
  <2>1. i \in Nat /\ j \in Nat BY ONLY <1>6, <1>7, <1>9, <1>10
  <2> QED BY ONLY <1>16, <2>1, key \in Keys DEF NoPath, Paths, MinKey
<1>18. Fresh(t, p) BY ONLY <1>4, <1>15, <1>17 DEF Fresh
<1>19. LeafAt(t, p) = leaf BY ONLY <1>4, <1>11, <1>17 DEF LeafAt
<1>20. PICK s : /\ \/ s = UnsafeSplitLeafUnbalanced(t, p, key)
                   \/ s = [t |-> t, p |-> p] /\ ~ Full(LeafAt(t, p))
                /\ tree' = LeafInsert(s.t, s.p, key)
  BY ONLY <1>2, <1>3, <1>4, <1>5, <1>16, AppendRow(key) DEF AppendRow
<1>21. Grown(t, p, s, {}) /\ HasRoom(s)
  <2>1. CASE s = [t |-> t, p |-> p] /\ ~ Full(LeafAt(t, p))
    <3>1. HasRoom(s) BY ONLY <1>12, <1>19, <2>1, NotFull DEF HasRoom
    <3> QED BY <1>6, <1>18, <2>1, <3>1 DEF Grown
  <2>2. CASE s = UnsafeSplitLeafUnbalanced(t, p, key)
    <3>1. \A k \in LeafAt(t, p).rows : k < key BY ONLY <1>12, <1>19
    <3>2. key = p.rowKey BY ONLY <1>17
    <3> QED BY ONLY <1>6, <1>18, <2>2, <3>1, <3>2, LeafBegunGrows
  <2> QED BY <1>20, <2>1, <2>2
<1>22. Contents(s.t) = Contents(t) BY <1>21, Grew
<1>23. TreeGood(tree') /\ Contents(tree') = Contents(t) \cup {key}
  <2>1. PICK v : v = s.t OBVIOUS
  <2>2. PICK w : w = s.p OBVIOUS
  <2>3. TreeGood(v) /\ Fresh(v, w) /\ key = w.rowKey /\ Size(LeafAt(v, w)) < MaxRows
    BY ONLY <1>17, <1>21, <2>1, <2>2 DEF Grown, HasRoom
  <2>4. PICK u : u = LeafInsert(v, w, key) OBVIOUS
  <2>5. TreeGood(u) /\ Contents(u) = Contents(v) \cup {key} BY ONLY <2>3, <2>4, LeafInserted
  <2> QED BY ONLY <1>20, <1>22, <2>1, <2>2, <2>4, <2>5
<1>24. NoRange(key) BY DEF AppendRow
<1>25. Holds(Contents(tree'), key) BY ONLY <1>23, <1>24, key \in Keys, RangeOver
<1> QED BY ONLY <1>2, <1>23, <1>25

LEMMA InsertRangeBeginHolds ==
  ASSUME IInv, NEW key \in Keys, InsertRangeBegin(key)
  PROVE  Holds(Contents(tree) \cup {key}, key)
<1>1. TreeGood(tree) BY DEF IInv
<1>2. PICK s \in InsertRow(tree, NoPath, key) : tree' = s.t /\ path' = s.p BY DEF InsertRangeBegin
<1>3. RowDone(tree, s, key, Contents(tree) \cup {key})
  BY ONLY <1>1, <1>2, key \in Keys, NoPathFacts, InsertRowGood
<1>4. op' \in Ops /\ op' # "none" BY DEF InsertRangeBegin, Ops
<1> QED BY ONLY <1>2, <1>3, <1>4, key \in Keys, RangeGoes

\* The leaf that a range leaves is balanced, or not.
LEMMA LeftBehind ==
  ASSUME IInv, op # "none", NEW s, s = [t |-> tree, p |-> path] \/ s \in BalanceLeaf(tree, path)
  PROVE  TreeGood(s.t) /\ Fresh(s.t, s.p) /\ s.p \in Paths /\ Contents(s.t) = Contents(tree)
<1>1. TreeGood(tree) /\ Fresh(tree, path) BY DEF IInv
<1>2. Grown(tree, path, s, {})
  <2>1. CASE s = [t |-> tree, p |-> path] BY <1>1, <2>1 DEF Grown
  <2>2. CASE s \in BalanceLeaf(tree, path) BY <1>1, <2>2, BalanceLeafGood
  <2> QED BY <2>1, <2>2
<1>3. Contents(s.t) = Contents(tree) BY <1>2, Grew
<1> QED BY ONLY <1>2, <1>3 DEF Grown, Fresh

LEMMA InsertRangeNextHolds ==
  ASSUME IInv, NEW key \in Keys, InsertRangeNext(key)
  PROVE  Holds(Contents(tree) \cup {key}, key)
<1>1. PICK s : /\ s = [t |-> tree, p |-> path] \/ s \in BalanceLeaf(tree, path)
               /\ \E r \in InsertRow(s.t, s.p, key) : tree' = r.t /\ path' = r.p
  BY ONLY InsertRangeNext(key) DEF InsertRangeNext
<1>2. op # "none" BY DEF InsertRangeNext
<1>3. TreeGood(s.t) /\ Fresh(s.t, s.p) /\ s.p \in Paths /\ Contents(s.t) = Contents(tree)
  BY ONLY <1>1, <1>2, IInv, LeftBehind
<1>4. PICK r \in InsertRow(s.t, s.p, key) : tree' = r.t /\ path' = r.p BY <1>1
<1>5. RowDone(s.t, r, key, Contents(s.t) \cup {key}) BY ONLY <1>3, <1>4, key \in Keys, InsertRowGood
<1>6. RowDone(tree, r, key, Contents(tree) \cup {key}) BY ONLY <1>3, <1>5 DEF RowDone
<1>7. op' \in Ops /\ op' # "none" BY DEF InsertRangeNext, IInv
<1> QED BY ONLY <1>4, <1>6, <1>7, key \in Keys, RangeGoes

LEMMA EraseHolds ==
  ASSUME IInv, NEW key \in Keys, Erase(key)
  PROVE  Holds(Contents(tree) \ {key}, key)
<1>1. TreeGood(tree) BY DEF IInv
<1>2. PICK p : p = UpdateLeaf(tree, NoPath, key) OBVIOUS
<1>3. Fresh(tree, p) /\ key = p.rowKey BY ONLY <1>1, <1>2, key \in Keys, NoPathFacts, UpdateLeafFresh
<1>4. PICK u : u = LeafErase(tree, p, key) OBVIOUS
<1>5. TreeGood(u) /\ Fresh(u, p) /\ Contents(u) = Contents(tree) \ {key}
  BY ONLY <1>1, <1>3, <1>4, LeafErased
<1>6. PICK s \in BalanceLeaf(u, p) : tree' = s.t BY ONLY <1>2, <1>4, Erase(key) DEF Erase
<1>7. Grown(u, p, s, {}) BY ONLY <1>5, <1>6, BalanceLeafGood
<1>8. Contents(s.t) = Contents(u) BY <1>7, Grew
<1>9. TreeGood(tree') /\ Contents(tree') = Contents(tree) \ {key}
  BY ONLY <1>5, <1>6, <1>7, <1>8 DEF Grown
<1>10. NoRange(key) BY DEF Erase
<1>11. Holds(Contents(tree'), key) BY ONLY <1>9, <1>10, key \in Keys, RangeOver
<1> QED BY ONLY <1>9, <1>11

LEMMA EraseRowGood ==
  ASSUME NEW t, TreeGood(t), NEW p \in Paths, p.innerBound = 0 \/ Fresh(t, p), NEW key \in Keys,
         EraseRow(t, p, key), op' \in Ops, op' # "none"
  PROVE  Holds(Contents(t) \ {key}, key)
<1>1. PICK q : q = UpdateLeaf(t, p, key) OBVIOUS
<1>2. Fresh(t, q) /\ key = q.rowKey BY <1>1, UpdateLeafFresh
<1>3. tree' = LeafErase(t, q, key) /\ path' = q BY ONLY <1>1, EraseRow(t, p, key) DEF EraseRow
<1>4. TreeGood(tree') /\ Fresh(tree', q) /\ Contents(tree') = Contents(t) \ {key}
  <2>1. PICK u : u = LeafErase(t, q, key) OBVIOUS
  <2>2. TreeGood(u) /\ Fresh(u, q) /\ Contents(u) = Contents(t) \ {key}
    BY ONLY <1>2, <2>1, TreeGood(t), LeafErased
  <2> QED BY ONLY <1>3, <2>1, <2>2
<1> QED BY <1>2, <1>3, <1>4 DEF Holds, IInv, Fresh

LEMMA EraseRangeBeginHolds ==
  ASSUME IInv, NEW key \in Keys, EraseRangeBegin(key)
  PROVE  Holds(Contents(tree) \ {key}, key)
<1>1. TreeGood(tree) BY DEF IInv
<1>2. EraseRow(tree, NoPath, key) /\ op' \in Ops /\ op' # "none" BY DEF EraseRangeBegin, Ops
<1> QED BY ONLY <1>1, <1>2, key \in Keys, NoPathFacts, EraseRowGood

LEMMA EraseRangeNextHolds ==
  ASSUME IInv, NEW key \in Keys, EraseRangeNext(key)
  PROVE  Holds(Contents(tree) \ {key}, key)
<1>1. PICK s : /\ s = [t |-> tree, p |-> path] \/ s \in BalanceLeaf(tree, path)
               /\ EraseRow(s.t, s.p, key)
  BY ONLY EraseRangeNext(key) DEF EraseRangeNext
<1>2. op # "none" BY DEF EraseRangeNext
<1>3. TreeGood(s.t) /\ Fresh(s.t, s.p) /\ s.p \in Paths /\ Contents(s.t) = Contents(tree)
  BY ONLY <1>1, <1>2, IInv, LeftBehind
<1>4. op' \in Ops /\ op' # "none" BY DEF EraseRangeNext, IInv
<1>5. Holds(Contents(s.t) \ {key}, key) BY ONLY <1>1, <1>3, <1>4, key \in Keys, EraseRowGood
<1> QED BY ONLY <1>3, <1>5

LEMMA RangeEndHolds ==
  ASSUME IInv, RangeEnd
  PROVE  Holds(Contents(tree), path.rowKey)
<1>1. PICK s \in BalanceLeaf(tree, path) : tree' = s.t BY DEF RangeEnd
<1>2. op # "none" /\ NoRange(path.rowKey) BY DEF RangeEnd
<1>3. TreeGood(s.t) /\ Contents(s.t) = Contents(tree) BY ONLY <1>1, <1>2, IInv, LeftBehind
<1>4. path.rowKey \in Keys BY DEF IInv, Paths
<1>5. TreeGood(tree') /\ Contents(tree') = Contents(tree) BY ONLY <1>1, <1>3
<1>6. Holds(Contents(tree'), path.rowKey) BY ONLY <1>2, <1>4, <1>5, RangeOver
<1> QED BY ONLY <1>5, <1>6

LEMMA ClearHolds ==
  ASSUME IInv, Clear
  PROVE  Holds({}, path.rowKey)
<1>1. tree' = EmptyTree /\ NoRange(path.rowKey) BY DEF Clear
<1>2. path.rowKey \in Keys BY DEF IInv, Paths
<1>3. TreeGood(tree') /\ Contents(tree') = {} BY ONLY <1>1, EmptyTreeGood
<1>4. Holds(Contents(tree'), path.rowKey) BY ONLY <1>1, <1>2, <1>3, RangeOver
<1> QED BY ONLY <1>3, <1>4

LEMMA SortHolds ==
  ASSUME IInv, Sort
  PROVE  Holds(Contents(tree), path.rowKey)
<1>1. PICK x \in Positions(tree) : tree' = [tree EXCEPT !.kids[x[1]].kids[x[2]].order = "sorted"]
  BY DEF Sort
<1>2. PICK i \in DOMAIN tree.kids : \E j \in DOMAIN tree.kids[i].kids : x[1] = i /\ x[2] = j
  BY ONLY <1>1 DEF Positions
<1>3. PICK j \in DOMAIN tree.kids[i].kids : x[1] = i /\ x[2] = j BY <1>2
<1>4. TreeGood(tree) BY DEF IInv
<1>5. PICK u : u = [tree EXCEPT !.kids[i].kids[j].order = "sorted"] OBVIOUS
<1>6. TreeGood(u) /\ Contents(u) = Contents(tree) BY ONLY <1>2, <1>3, <1>4, <1>5, LeafSorted
<1>7. tree' = u BY ONLY <1>1, <1>3, <1>5
<1>8. NoRange(path.rowKey) BY DEF Sort
<1>9. path.rowKey \in Keys BY DEF IInv, Paths
<1>10. TreeGood(tree') /\ Contents(tree') = Contents(tree) BY ONLY <1>6, <1>7
<1>11. Holds(Contents(tree'), path.rowKey) BY ONLY <1>8, <1>9, <1>10, RangeOver
<1> QED BY ONLY <1>10, <1>11

-----------------------------------------------------------------------------
(* The theorems.                                                            *)

\* The tree begins empty.
LEMMA InitIInv == Init => IInv /\ Index!Init
<1> SUFFICES ASSUME Init PROVE IInv /\ Index!Init OBVIOUS
<1>1. tree = EmptyTree /\ path = NoPath /\ op = "none" BY DEF Init
<1>2. TreeGood(tree) /\ Contents(tree) = {} BY ONLY <1>1, EmptyTreeGood
<1>3. path.rowKey \in Keys BY ONLY <1>1, ConstantsAssumption DEF NoPath, MinKey
<1>4. IInv BY ONLY <1>1, <1>2, NoPathFacts DEF IInv, Ops
<1> QED BY ONLY <1>2, <1>3, <1>4 DEF Index!Init

\* Every step keeps the invariant, and adds or takes away the row it is about.
LEMMA NextIInv == IInv /\ Appendable /\ [Next]_vars
                    => IInv' /\ [Index!Next]_<<Contents(tree), path.rowKey>>
<1> DEFINE Goal == IInv' /\ [Index!Next]_<<Contents(tree), path.rowKey>>
<1> SUFFICES ASSUME IInv, Appendable, [Next]_vars PROVE Goal OBVIOUS
<1>1. ASSUME NEW key \in Keys, key \notin Contents(tree), Holds(Contents(tree) \cup {key}, key)
      PROVE  Goal
  BY <1>1 DEF Holds, Index!Next, Index!Insert
<1>2. ASSUME NEW key \in Keys, Holds(Contents(tree) \ {key}, key) PROVE Goal
  BY <1>2 DEF Holds, Index!Next, Index!Erase
<1>3. ASSUME Holds(Contents(tree), path.rowKey) PROVE Goal BY <1>3 DEF Holds
<1>4. ASSUME NEW key \in Keys, Insert(key) PROVE Goal
  <2>1. key \notin Contents(tree) BY <1>4 DEF Insert
  <2> QED BY <1>1, <1>4, <2>1, InsertHolds
<1>5. ASSUME NEW key \in Keys, AppendRow(key) PROVE Goal
  <2>1. \A k \in Contents(tree) : k < key BY <1>5 DEF AppendRow
  <2>2. key \notin Contents(tree) BY <1>5, <2>1
  <2> QED BY <1>1, <1>5, <2>2, AppendHolds
<1>6. ASSUME NEW key \in Keys, InsertRangeBegin(key) PROVE Goal
  <2>1. key \notin Contents(tree) BY <1>6 DEF InsertRangeBegin
  <2> QED BY <1>1, <1>6, <2>1, InsertRangeBeginHolds
<1>7. ASSUME NEW key \in Keys, InsertRangeNext(key) PROVE Goal
  <2>1. key \notin Contents(tree) BY <1>7 DEF InsertRangeNext
  <2> QED BY <1>1, <1>7, <2>1, InsertRangeNextHolds
<1>8. ASSUME NEW key \in Keys, Erase(key) PROVE Goal BY <1>2, <1>8, EraseHolds
<1>9. ASSUME NEW key \in Keys, EraseRangeBegin(key) PROVE Goal BY <1>2, <1>9, EraseRangeBeginHolds
<1>10. ASSUME NEW key \in Keys, EraseRangeNext(key) PROVE Goal BY <1>2, <1>10, EraseRangeNextHolds
<1>11. ASSUME RangeEnd PROVE Goal BY <1>3, <1>11, RangeEndHolds
<1>12. ASSUME Clear PROVE Goal
  <2>1. Holds({}, path.rowKey) BY <1>12, ClearHolds
  <2> QED BY <2>1 DEF Holds, Index!Next, Index!Clear
<1>13. ASSUME Sort PROVE Goal BY <1>3, <1>13, SortHolds
<1>14. ASSUME UNCHANGED vars PROVE Goal
  <2>1. tree' = tree /\ path' = path /\ op' = op BY <1>14 DEF vars
  <2> QED BY <2>1 DEF IInv
<1> HIDE DEF Goal
<1> QED BY <1>4, <1>5, <1>6, <1>7, <1>8, <1>9, <1>10, <1>11, <1>12, <1>13, <1>14 DEF Next

\* The tree is a set of rows: no split, merge or exchange loses one or makes
\* one, and each operation adds or takes away just the row it is about. With
\* append, if between operations the last of several leaves has a row.
THEOREM TreeIsIndex == Spec /\ []Appendable => IndexImplemented
<1>1. Init => IInv /\ Index!Init BY InitIInv
<1>2. IInv /\ Appendable /\ [Next]_vars
        => IInv' /\ [Index!Next]_<<Contents(tree), path.rowKey>>
  BY NextIInv
<1> QED BY <1>1, <1>2, PTL DEF Spec, IndexImplemented, Index!Spec

\* The path of a search is the only one.
LEMMA FreshUnique ==
  ASSUME NEW t, TreeGood(t), NEW p, Fresh(t, p), NEW q, Fresh(t, q), q.rowKey = p.rowKey
  PROVE  q = p
<1>1. PICK key : key = p.rowKey /\ key = q.rowKey OBVIOUS
<1>2. /\ p \in Paths /\ Leads(t.keys, MinKey, p.root, p.innerBound, key)
      /\ Leads(t.kids[p.root].keys, p.innerBound, p.inner, p.leafBound, key)
  BY <1>1 DEF Fresh
<1>3. /\ q \in Paths /\ Leads(t.keys, MinKey, q.root, q.innerBound, key)
      /\ Leads(t.kids[q.root].keys, q.innerBound, q.inner, q.leafBound, key)
  BY <1>1 DEF Fresh
<1>4. key \in Nat BY <1>1, <1>2, ConstantsAssumption DEF Paths
<1>5. t.keys \in Seq(Nat) /\ Ascending(t.keys) BY TreeFacts
<1>6. q.root = p.root
  <2>1. InSlot(t.keys, p.root, key) /\ InSlot(t.keys, q.root, key) BY ONLY <1>2, <1>3 DEF Leads
  <2> QED BY ONLY <1>4, <1>5, <2>1, SlotUnique
<1>7. q.innerBound = p.innerBound BY ONLY <1>2, <1>3, <1>6 DEF Leads
<1>8. PICK n : n = t.kids[p.root] OBVIOUS
<1>9. n.keys \in Seq(Nat) /\ Ascending(n.keys)
  <2>1. NodeGood(n) BY <1>8, FreshFacts
  <2> QED BY <2>1, NodeFacts
<1>10. q.inner = p.inner
  <2>1. InSlot(n.keys, p.inner, key) /\ InSlot(n.keys, q.inner, key)
    BY ONLY <1>2, <1>3, <1>6, <1>8 DEF Leads
  <2> QED BY ONLY <1>4, <1>9, <2>1, SlotUnique
<1>11. q.leafBound = p.leafBound BY ONLY <1>2, <1>3, <1>6, <1>7, <1>10 DEF Leads
<1>12. p \in Paths /\ q \in Paths BY ONLY <1>2, <1>3
<1>13. \A x \in Paths : x = [root |-> x.root, inner |-> x.inner, innerBound |-> x.innerBound,
                             leafBound |-> x.leafBound, rowKey |-> x.rowKey]
  BY DEF Paths
<1>14. /\ p = [root |-> p.root, inner |-> p.inner, innerBound |-> p.innerBound,
               leafBound |-> p.leafBound, rowKey |-> p.rowKey]
       /\ q = [root |-> q.root, inner |-> q.inner, innerBound |-> q.innerBound,
               leafBound |-> q.leafBound, rowKey |-> q.rowKey]
  BY ONLY <1>12, <1>13
<1>15. q.rowKey = p.rowKey BY ONLY <1>1
<1> QED BY ONLY <1>6, <1>7, <1>10, <1>11, <1>14, <1>15

\* The cached path of a range operation is the one that a search from the root
\* finds, after every split, merge and exchange; with append, under the same
\* condition.
LEMMA IInvFresh == IInv => PathFresh
<1> SUFFICES ASSUME IInv, op # "none"
             PROVE  path = [FindLeaf(tree, FindInner(tree, NoPath, path.rowKey), path.rowKey)
                              EXCEPT !.rowKey = path.rowKey]
  BY DEF PathFresh
<1>1. TreeGood(tree) /\ Fresh(tree, path) BY DEF IInv
<1>2. PICK key : key = path.rowKey OBVIOUS
<1>3. key \in Keys BY ONLY <1>1, <1>2 DEF Fresh, Paths
<1>4. PICK p : p = FindInner(tree, NoPath, key) OBVIOUS
<1>5. p \in Paths /\ InSlot(tree.keys, p.root, key) /\ p.innerBound = UpperBound(tree.keys, p.root, MinKey)
  BY ONLY <1>1, <1>3, <1>4, NoPathFacts, FindInnerFresh
<1>6. PICK q : q = [FindLeaf(tree, p, key) EXCEPT !.rowKey = key] OBVIOUS
<1>7. Fresh(tree, q) /\ q.rowKey = key BY ONLY <1>1, <1>3, <1>5, <1>6, FindLeafFresh
<1>8. q = path BY ONLY <1>1, <1>2, <1>7, FreshUnique
<1> QED BY ONLY <1>2, <1>4, <1>6, <1>8

THEOREM PathStaysFresh == Spec /\ []Appendable => []PathFresh
<1>1. Init => IInv BY InitIInv
<1>2. IInv /\ Appendable /\ [Next]_vars => IInv' BY NextIInv
<1>3. IInv => PathFresh BY IInvFresh
<1> QED BY <1>1, <1>2, <1>3, PTL DEF Spec

\* In a good tree nothing is too long, and a path leads to a leaf.
LEMMA IInvType == IInv => TypeOK
<1> SUFFICES ASSUME IInv PROVE TypeOK OBVIOUS
<1>1. TreeGood(tree) /\ op \in {"none", "insertRange", "eraseRange"} BY DEF IInv, Ops
<1>2. Len(tree.keys) \in Nat /\ Len(tree.kids) = Len(tree.keys) + 1 BY <1>1, TreeFacts
<1>3. DOMAIN tree.kids = 1 .. Len(tree.keys) + 1 BY <1>1, TreeFacts
<1>4. ASSUME NEW i \in DOMAIN tree.kids
      PROVE  /\ NodeGood(tree.kids[i]) /\ Len(tree.kids[i].keys) <= MaxKeys
             /\ Len(tree.kids[i].keys) \in Nat
             /\ Len(tree.kids[i].kids) = Len(tree.kids[i].keys) + 1
             /\ DOMAIN tree.kids[i].kids = 1 .. Len(tree.kids[i].keys) + 1
             /\ \A j \in DOMAIN tree.kids[i].kids : tree.kids[i].kids[j] \in Leaves
  <2>1. PICK n : n = tree.kids[i] OBVIOUS
  <2>2. NodeGood(n) /\ Len(n.keys) <= MaxKeys BY <1>1, <1>3, <1>4, <2>1, TreeFacts
  <2>3. n.kids \in Seq(Leaves) /\ Len(n.keys) \in Nat /\ Len(n.kids) = Len(n.keys) + 1
    BY <2>2, NodeFacts
  <2>4. DOMAIN n.kids = 1 .. Len(n.keys) + 1 /\ \A j \in DOMAIN n.kids : n.kids[j] \in Leaves
    BY ONLY <2>3
  <2> QED BY ONLY <2>1, <2>2, <2>3, <2>4
<1>5. path.root \in DOMAIN tree.kids /\ path.inner \in DOMAIN tree.kids[path.root].kids
  <2>1. CASE op = "none"
    <3>1. path.root = 1 /\ path.inner = 1 BY <2>1 DEF IInv
    <3>2. path.root \in DOMAIN tree.kids BY ONLY <1>2, <1>3, <3>1
    <3>3. /\ DOMAIN tree.kids[path.root].kids = 1 .. Len(tree.kids[path.root].keys) + 1
          /\ Len(tree.kids[path.root].keys) \in Nat
      BY ONLY <1>4, <3>2
    <3> QED BY ONLY <3>1, <3>2, <3>3
  <2>2. CASE op # "none"
    <3>1. Fresh(tree, path) BY <2>2 DEF IInv
    <3> QED BY ONLY <1>1, <3>1, FreshFacts
  <2> QED BY <2>1, <2>2
<1>6. \A i \in DOMAIN tree.kids : /\ Len(tree.kids[i].keys) <= MaxKeys
                                  /\ Len(tree.kids[i].kids) = Len(tree.kids[i].keys) + 1
  BY ONLY <1>4
<1>7. ASSUME NEW x \in Positions(tree), NEW leaf, leaf = tree.kids[x[1]].kids[x[2]]
      PROVE  leaf.rows \subseteq Keys /\ Size(leaf) <= MaxRows /\ leaf.order \in Orders
  <2>1. PICK i \in DOMAIN tree.kids : \E j \in DOMAIN tree.kids[i].kids : x[1] = i /\ x[2] = j
    BY ONLY <1>7 DEF Positions
  <2>2. PICK j \in DOMAIN tree.kids[i].kids : x[1] = i /\ x[2] = j BY <2>1
  <2>3. leaf \in Leaves BY ONLY <1>4, <1>7, <2>2
  <2> QED BY ONLY <2>3 DEF Leaves, Size
<1> QED BY ONLY <1>1, <1>2, <1>5, <1>6, <1>7 DEF TypeOK

\* No array of the tree overflows, neither the keys of an inner node nor the
\* rows of a leaf: what is full is split before it grows, rows move to a
\* neighbour only where there is room, and nodes merge only when both fit into
\* one. Every node keeps one child more than it has keys, and the path of a
\* range operation always leads to a leaf. With append, under the condition above.
THEOREM TypesKept == Spec /\ []Appendable => []TypeOK
<1>1. Init => IInv BY InitIInv
<1>2. IInv /\ Appendable /\ [Next]_vars => IInv' BY NextIInv
<1>3. IInv => TypeOK BY IInvType
<1> QED BY <1>1, <1>2, <1>3, PTL DEF Spec
=============================================================================
