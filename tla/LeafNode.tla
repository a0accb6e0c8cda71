------------------------------ MODULE LeafNode ------------------------------
(***************************************************************************)
(* Game/Database/MBPlusTree.h: one leaf of the MB+ tree, its rows in the    *)
(* order in which they are stored, of a row only its key. Rows are appended *)
(* unsorted, sorted when an iterator reaches the leaf, and partitioned when *)
(* the leaf is split or shares its rows with a neighbour. Positions count   *)
(* from 1 here, and from 0 in the code.                                     *)
(***************************************************************************)
EXTENDS Integers, SequencesExt

CONSTANTS Keys,               \* the keys: no two rows of a tree have the same
          MaxRows,            \* rows of a full leaf
          InsertionSortMax,   \* ranges up to this length are sorted by insertion (24)
          LinearRowSearchMax  \* ranges up to this length are searched one by one (24)

ASSUME ConstantsAssumption ==
  /\ Keys \subseteq Int
  /\ MaxRows \in Nat /\ MaxRows >= 4
  /\ InsertionSortMax \in Nat /\ InsertionSortMax >= 2
  /\ LinearRowSearchMax \in Nat \ {0}

VARIABLES rows, isUnsorted,
          found  \* the last Path::find: the key, and the key of the row it returned

vars == <<rows, isUnsorted, found>>

MinRows == MaxRows \div 3
Nothing == <<>>

-----------------------------------------------------------------------------
(* Sorting.                                                                 *)

Swap(s, i, j) == [s EXCEPT ![i] = s[j], ![j] = s[i]]

\* Bug: the first two rows of a range are taken to be in order.
InsertionSortLate(s, left, right) ==
  LET Sift(acc, i) == InsertAt(RemoveAt(acc, i),
                               Max({0} \cup {j \in 1 .. i - 1 : acc[j] <= acc[i]}) + 1, acc[i])
  IN  FoldLeft(Sift, s, [k \in 1 .. right - left - 1 |-> left + k + 1])

\* Each row moves down past the greater ones, and nothing stops it at left.
InsertionSort(s, left, right) ==
  LET Sift(acc, i) == InsertAt(RemoveAt(acc, i),
                               Max({0} \cup {j \in 1 .. i - 1 : acc[j] <= acc[i]}) + 1, acc[i])
  IN  FoldLeft(Sift, s, [k \in 1 .. right - left |-> left + k])

\* Median of three: afterwards the pivot is in the middle.
ChoosePivot(s, left, right) ==
  LET Ordered(t, i, j) == IF t[i] > t[j] THEN Swap(t, i, j) ELSE t
      middle == (left + right) \div 2
  IN  Ordered(Ordered(Ordered(s, left, middle), left, right), middle, right)

ChoosePivotForSort(s, left, right) ==
  Swap(ChoosePivot(s, left, right), (left + right) \div 2, right - 1)

\* The rows up to .at are at most the pivot and the others at least. A scan
\* that leaves the rows has no value.
RECURSIVE Hoare(_, _, _, _)
Hoare(s, i, j, pivot) ==
  LET down == Max({k \in DOMAIN s : k < j /\ s[k] <= pivot})
      up   == Min({k \in DOMAIN s : k > i /\ s[k] >= pivot})
  IN  IF up < down THEN Hoare(Swap(s, up, down), up, down, pivot)
                   ELSE [rows |-> s, at |-> down]

RECURSIVE QuickSort(_, _, _)
QuickSort(s, left, right) ==
  IF right - left <= InsertionSortMax
    THEN InsertionSort(s, left, right)
    ELSE LET chosen == ChoosePivotForSort(s, left, right)
             part == Hoare(chosen, left - 1, right + 1, chosen[right - 1])
         IN  QuickSort(QuickSort(part.rows, left, part.at), part.at + 1, right)

-----------------------------------------------------------------------------
(* Partitioning: where to cut the rows in two.                              *)

\* Bug: the pivot is left at the end of its range.
QuickPartitionNoReturn(s, left, right, pivotIndex) ==
  LET pivot == s[pivotIndex]
      Visit(acc, i) == IF acc.rows[i] < pivot
                         THEN [rows |-> Swap(acc.rows, acc.at, i), at |-> acc.at + 1]
                         ELSE acc
  IN  FoldLeft(Visit, [rows |-> Swap(s, pivotIndex, right), at |-> left],
               [k \in 1 .. right - left |-> left + k - 1])

QuickPartition(s, left, right, pivotIndex) ==
  LET pivot == s[pivotIndex]
      Visit(acc, i) == IF acc.rows[i] < pivot
                         THEN [rows |-> Swap(acc.rows, acc.at, i), at |-> acc.at + 1]
                         ELSE acc
      swept == FoldLeft(Visit, [rows |-> Swap(s, pivotIndex, right), at |-> left],
                        [k \in 1 .. right - left |-> left + k - 1])
  IN  [rows |-> Swap(swept.rows, right, swept.at), at |-> swept.at]

RECURSIVE QuickPrepare(_, _, _, _, _)
QuickPrepare(s, left, right, minLeft, minRight) ==
  IF left >= right
    THEN [rows |-> s, at |-> left]
    ELSE LET part == QuickPartition(ChoosePivot(s, left, right), left, right,
                                    (left + right) \div 2)
             before == part.at - 1
         IN  IF before < minLeft
               THEN QuickPrepare(part.rows, part.at + 1, right, minLeft, minRight)
             ELSE IF Len(s) - before >= minRight
               THEN part
             ELSE QuickPrepare(part.rows, left, part.at - 1, minLeft, minRight)

\* .at is the first row of the right part.
PrepareBalance(s, minLeft, minRight) == QuickPrepare(s, 1, Len(s), minLeft, minRight)

-----------------------------------------------------------------------------
(* Searching.                                                               *)

\* Binary search: [lower, upper) narrowed while it is too long to scan.
RECURSIVE Narrow(_, _, _, _)
Narrow(s, key, lower, upper) ==
  LET middle == (lower + upper) \div 2
  IN  IF upper - lower <= LinearRowSearchMax THEN lower .. upper - 1
      ELSE IF key < s[middle] THEN Narrow(s, key, lower, middle)
      ELSE Narrow(s, key, middle, upper)

\* Bug: an unsorted leaf is searched like a sorted one.
FindRowAlwaysBinary(s, unsorted, key) ==
  LET hits == {i \in Narrow(s, key, 1, Len(s) + 1) : s[i] = key}
  IN  IF hits = {} THEN 0 ELSE Min(hits)

\* The position of the row with a key, 0 (-1 in the code) when there is none.
FindRow(s, unsorted, key) ==
  LET range == IF unsorted THEN DOMAIN s ELSE Narrow(s, key, 1, Len(s) + 1)
      hits == {i \in range : s[i] = key}
  IN  IF hits = {} THEN 0 ELSE Min(hits)

-----------------------------------------------------------------------------
(* What happens to a leaf.                                                  *)

Init == rows = <<>> /\ isUnsorted = FALSE /\ found = Nothing

\* leafInsert
LeafInsert(key) ==
  /\ Len(rows) < MaxRows
  /\ key \notin ToSet(rows)
  /\ rows' = Append(rows, key)
  /\ isUnsorted' = TRUE
  /\ found' = Nothing

\* Bug: the last row moves into the gap of a leaf that stays flagged sorted.
LeafEraseUnflagged(key) ==
  LET pos == FindRow(rows, isUnsorted, key) IN
  /\ pos > 0
  /\ rows' = Front([rows EXCEPT ![pos] = Last(rows)])
  /\ UNCHANGED isUnsorted
  /\ found' = Nothing

\* leafErase, after Path::update
LeafErase(key) ==
  LET pos == FindRow(rows, isUnsorted, key) IN
  /\ pos > 0
  /\ rows' = Front([rows EXCEPT ![pos] = Last(rows)])
  /\ isUnsorted' = TRUE
  /\ found' = Nothing

Sorted == IF isUnsorted /\ rows # <<>> THEN QuickSort(rows, 1, Len(rows)) ELSE rows

\* An iterator reaches the leaf.
SortLeaf ==
  /\ rows # <<>>
  /\ rows' = Sorted
  /\ isUnsorted' = FALSE
  /\ found' = Nothing

\* Path::find: the position of the row, and then an iterator to that position,
\* whose constructor sorts the leaf
Find(key) ==
  LET pos == FindRow(rows, isUnsorted, key) IN
  IF pos > 0
    THEN rows' = Sorted /\ isUnsorted' = FALSE /\ found' = <<key, rows'[pos]>>
    ELSE UNCHANGED <<rows, isUnsorted>> /\ found' = Nothing

\* splitLeaf: this leaf keeps the left part, or it is the new one
Split ==
  LET cut == PrepareBalance(rows, MinRows, MinRows) IN
  /\ Len(rows) = MaxRows
  /\ rows' \in {SubSeq(cut.rows, 1, cut.at - 1), SubSeq(cut.rows, cut.at, MaxRows)}
  /\ UNCHANGED isUnsorted
  /\ found' = Nothing

\* balanceLeaf: a neighbour with `need' rows too few takes the last rows
GiveToNext(need) ==
  LET cut == PrepareBalance(rows, MinRows, need) IN
  /\ Len(rows) - MinRows >= need
  /\ rows' = SubSeq(cut.rows, 1, cut.at - 1)
  /\ UNCHANGED isUnsorted
  /\ found' = Nothing

\* balanceLeaf: ... or the first ones
GiveToPrevious(need) ==
  LET cut == PrepareBalance(rows, need, MinRows) IN
  /\ Len(rows) - MinRows >= need
  /\ rows' = SubSeq(cut.rows, cut.at, Len(rows))
  /\ UNCHANGED isUnsorted
  /\ found' = Nothing

Ascending(s) == \A i, j \in DOMAIN s : i < j => s[i] < s[j]

\* balanceLeaf: rows come from the previous leaf, in any order, or from the next
\* one, in ascending order when it is flagged sorted
Take(given, fromNext, nextUnsorted) ==
  /\ Len(rows) < MinRows
  /\ \A i \in DOMAIN rows, j \in DOMAIN given :
       IF fromNext THEN rows[i] < given[j] ELSE given[j] < rows[i]
  /\ nextUnsorted \/ ~fromNext \/ Ascending(given)
  /\ rows' = rows \o given
  /\ isUnsorted' = IF fromNext THEN isUnsorted \/ nextUnsorted ELSE TRUE
  /\ found' = Nothing

Next ==
  \/ \E key \in Keys : LeafInsert(key) \/ LeafErase(key) \/ Find(key)
  \/ SortLeaf
  \/ Split
  \/ \E need \in 1 .. MinRows : GiveToNext(need) \/ GiveToPrevious(need)
  \/ \E G \in SUBSET Keys, fromNext, nextUnsorted \in BOOLEAN :
       /\ Cardinality(G) \in MinRows - Len(rows) .. MaxRows - MinRows
       /\ \E given \in SetToSeqs(G) : Take(given, fromNext, nextUnsorted)

Spec == Init /\ [][Next]_vars

-----------------------------------------------------------------------------
(* Properties.                                                              *)

TypeOK ==
  /\ ToSet(rows) \subseteq Keys
  /\ Cardinality(ToSet(rows)) = Len(rows)
  /\ Len(rows) <= MaxRows
  /\ isUnsorted \in BOOLEAN
  /\ found \in {Nothing} \cup (Keys \X Keys)

\* The flag never lies: a leaf not flagged unsorted can be searched by halving
\* and iterated as it is, after any erase, split or exchange with a neighbour.
SortedUnlessFlagged == ~isUnsorted => Ascending(rows)

\* The search finds the row of a key exactly when there is one.
FindRowExact ==
  \A key \in Keys : LET pos == FindRow(rows, isUnsorted, key)
                    IN  IF key \in ToSet(rows) THEN pos > 0 /\ rows[pos] = key
                                              ELSE pos = 0

\* A cut separates the rows by key, with the cut row the least of the right
\* part; it leaves enough rows on both sides whenever there are enough.
PrepareExact ==
  \A minLeft \in 1 .. MinRows, minRight \in 0 .. MinRows :
    rows # <<>> =>
      LET cut == PrepareBalance(rows, minLeft, minRight) IN
      /\ cut.at \in DOMAIN rows
      /\ ToSet(cut.rows) = ToSet(rows)
      /\ \A i \in DOMAIN rows : IF i < cut.at THEN cut.rows[i] < cut.rows[cut.at]
                                              ELSE cut.rows[i] >= cut.rows[cut.at]
      /\ minLeft + Max({minRight, 1}) <= Len(rows) =>
           cut.at - 1 >= minLeft /\ Len(rows) - (cut.at - 1) >= minRight

\* Sorting puts the same rows in ascending order.
SortExact ==
  rows # <<>> => QuickSort(rows, 1, Len(rows)) = SetToSortSeq(ToSet(rows), <)

\* FindJoin works for any indices (README.md:4): the iterator that find returns
\* is at the row with the key that was asked for.
FindReturnsRow == found # Nothing => found[2] = found[1]
=============================================================================
