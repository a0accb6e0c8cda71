----------------------------- MODULE MBPlusTree -----------------------------
(***************************************************************************)
(* Game/Database/MBPlusTree.h: a B+ tree of always three levels, the root   *)
(* arrays, inner nodes and leaves. A row is only its key and a leaf the set *)
(* of its rows (LeafNode models their order); the links between leaves, and *)
(* lastLeaf, are the order of the leaves in the tree. Slots count from 1    *)
(* here, and from 0 in the code. The operations on a range process one key  *)
(* per step, and keep a cached path in between.                             *)
(***************************************************************************)
EXTENDS Integers, SequencesExt

CONSTANTS Keys,     \* the keys: no two rows of a tree have the same
          MaxKeys,  \* keys of a full inner node, and rows of a full leaf
          SizeMod,  \* size_t wraps at it (2^64 in the code)
          Clients,  \* the operations that clients use
          Asserts   \* the build stops when the assertion of balanceLeaf fails

ASSUME ConstantsAssumption ==
  /\ Keys \subseteq Nat /\ 0 \in Keys
  /\ MaxKeys \in Nat /\ MaxKeys >= 4
  /\ SizeMod \in Nat /\ SizeMod > 4 * MaxKeys
  /\ Clients \subseteq {"insert", "insertRange", "append", "erase", "eraseRange",
                        "eraseUnordered", "clear", "iterate"}

ASSUME BuildAssumption == Asserts \in BOOLEAN

VARIABLES tree,  \* .keys: rootKeys; .kids: inner nodes, with keys, and leaves for kids
          path,  \* of the range operation in progress; of others the key remains
          op     \* the range operation in progress

vars == <<tree, path, op>>

MaxRows == MaxKeys
MinKeys == MaxKeys \div 2
MinRows == MaxRows \div 3

\* MinKey<Key>()() is the least key, and stands for "unbounded" as an upper bound.
MinKey == 0

Size(leaf) == Cardinality(leaf.rows)

\* The order of a leaf's rows: "unsorted" is isUnsorted; without the flag the
\* rows are "sorted", or, when that is not known, "broken".
Orders == {"sorted", "unsorted", "broken"}
EmptyLeaf == [rows |-> {}, order |-> "sorted"]
EmptyTree == [keys |-> <<>>, kids |-> <<[keys |-> <<>>, kids |-> <<EmptyLeaf>>]>>]

LeafAt(t, p) == t.kids[p.root].kids[p.inner]
Positions(t) == UNION {{i} \X DOMAIN t.kids[i].kids : i \in DOMAIN t.kids}
Contents(t) == UNION {t.kids[x[1]].kids[x[2]].rows : x \in Positions(t)}

-----------------------------------------------------------------------------
(* Searching. A path caches the slots of a leaf and its upper bounds.       *)

NoPath == [root |-> 1, inner |-> 1, innerBound |-> MinKey, leafBound |-> MinKey,
           rowKey |-> MinKey]

Slot(keys, key) == Min({i \in DOMAIN keys : key < keys[i]} \cup {Len(keys) + 1})
UpperBound(keys, slot, outer) == IF slot \in DOMAIN keys THEN keys[slot] ELSE outer

\* findInner
FindInner(t, p, key) ==
  LET slot == Slot(t.keys, key)
  IN  [p EXCEPT !.root = slot, !.innerBound = UpperBound(t.keys, slot, MinKey)]

\* findLeaf
FindLeaf(t, p, key) ==
  LET node == t.kids[p.root]
      slot == Slot(node.keys, key)
  IN  [p EXCEPT !.inner = slot, !.leafBound = UpperBound(node.keys, slot, p.innerBound)]

\* Bug: a key below the last one is looked for in the cached leaf.
UpdateLeafAscending(t, p, key) ==
  LET q == IF key >= p.innerBound THEN FindLeaf(t, FindInner(t, p, key), key)
           ELSE IF key >= p.leafBound THEN FindLeaf(t, p, key)
           ELSE p
  IN  [q EXCEPT !.rowKey = key]

\* Path::updateLeaf
UpdateLeaf(t, p, key) ==
  LET q == IF key >= p.innerBound \/ key < p.rowKey
             THEN FindLeaf(t, FindInner(t, p, key), key)
           ELSE IF key >= p.leafBound THEN FindLeaf(t, p, key)
           ELSE p
  IN  [q EXCEPT !.rowKey = key]

-----------------------------------------------------------------------------
(* Growing. The state of an operation is a tree t and a path p.             *)

PutLeaf(node, key, leaf, pos) ==
  [keys |-> InsertAt(node.keys, pos - 1, key), kids |-> InsertAt(node.kids, pos, leaf)]

\* innerInsert and rootInsert: the leaf becomes the pos-th child
InnerInsert(t, p, key, leaf, pos) ==
  LET node == t.kids[p.root]
      numRight == (MaxKeys + 1) \div 2
      numLeft == MaxKeys + 1 - numRight
      middleKey == node.keys[numLeft]
      low == [keys |-> SubSeq(node.keys, 1, numLeft - 1),
              kids |-> SubSeq(node.kids, 1, numLeft)]
      high == [keys |-> SubSeq(node.keys, numLeft + 1, MaxKeys),
               kids |-> SubSeq(node.kids, numLeft + 1, MaxKeys + 1)]
      \* the root with the node split in two
      Root(l, h) == [keys |-> InsertAt(t.keys, p.root, middleKey),
                     kids |-> InsertAt(ReplaceAt(t.kids, p.root, l), p.root + 1, h)]
  IN  IF Len(node.keys) < MaxKeys
        THEN [t |-> [t EXCEPT !.kids[p.root] = PutLeaf(node, key, leaf, pos)], p |-> p]
      ELSE IF key < middleKey
        THEN [t |-> Root(PutLeaf(low, key, leaf, pos), high),
              p |-> [p EXCEPT !.innerBound = middleKey]]
      ELSE [t |-> Root(low, PutLeaf(high, key, leaf, pos - numLeft)),
            p |-> [p EXCEPT !.root = @ + 1, !.inner = @ - numLeft]]

\* Bug: a cut that leaves too few rows on one side.
CutsAnywhere(rows, minLeft, minRight) == rows

\* prepareBalance: the keys at which a leaf may be cut, the least of the right
\* part. Without enough rows on both sides it is some row.
Cuts(rows, minLeft, minRight) ==
  LET enough == {k \in rows : /\ Cardinality({r \in rows : r < k}) >= minLeft
                              /\ Cardinality({r \in rows : r >= k}) >= minRight}
  IN  IF enough # {} THEN enough ELSE rows

\* splitLeaf, with its possible outcomes
SplitLeaf(t, p, key) ==
  LET leaf == LeafAt(t, p)
      Part(S) == [leaf EXCEPT !.rows = S]
      At(cut) == [t EXCEPT !.kids[p.root].kids[p.inner] = Part({r \in leaf.rows : r < cut})]
      Path(cut) == IF key < cut THEN [p EXCEPT !.leafBound = cut]
                                ELSE [p EXCEPT !.inner = @ + 1]
  IN  {InnerInsert(At(cut), Path(cut), cut, Part({r \in leaf.rows : r >= cut}), p.inner + 1) :
         cut \in Cuts(leaf.rows, MinRows, MinRows)}

\* unsafeSplitLeafUnbalanced
UnsafeSplitLeafUnbalanced(t, p, key) ==
  InnerInsert(t, [p EXCEPT !.inner = @ + 1], key, EmptyLeaf, p.inner + 1)

\* splitLeafUnbalanced
SplitLeafUnbalanced(t, p, key) ==
  IF key <= Max(LeafAt(t, p).rows) THEN SplitLeaf(t, p, key)
                                   ELSE {UnsafeSplitLeafUnbalanced(t, p, key)}

\* leafInsert
LeafInsert(t, p, key) ==
  [t EXCEPT !.kids[p.root].kids[p.inner] =
     [rows |-> @.rows \cup {key}, order |-> "unsorted"]]

-----------------------------------------------------------------------------
(* Shrinking.                                                               *)

\* leafErase
LeafErase(t, p, key) ==
  IF key \in LeafAt(t, p).rows
    THEN [t EXCEPT !.kids[p.root].kids[p.inner] =
            [rows |-> @.rows \ {key}, order |-> "unsorted"]]
    ELSE t

\* Bug: a node is left with too few keys.
InnerEraseAlone(t, p, pos) ==
  [t |-> [t EXCEPT !.kids[p.root] = [keys |-> RemoveAt(@.keys, pos - 1),
                                     kids |-> RemoveAt(@.kids, pos)]],
   p |-> p]

\* innerErase and rootErase: the pos-th child goes; a node left with too few
\* keys gets a child of a neighbour, or is merged with one.
InnerErase(t0, p, pos) ==
  LET slot == p.root
      node == [keys |-> RemoveAt(t0.kids[slot].keys, pos - 1),
               kids |-> RemoveAt(t0.kids[slot].kids, pos)]
      t == [t0 EXCEPT !.kids[slot] = node]
      prev == t.kids[slot - 1]
      next == t.kids[slot + 1]
      Merge(l, r, at) == [keys |-> RemoveAt(t.keys, at),
                          kids |-> ReplaceAt(RemoveAt(t.kids, at + 1), at,
                            [keys |-> l.keys \o <<t.keys[at]>> \o r.keys,
                             kids |-> l.kids \o r.kids])]
  IN  IF Len(node.keys) >= MinKeys \/ Len(t.kids) = 1
        THEN [t |-> t, p |-> p]
      ELSE IF slot > 1 /\ Len(prev.keys) > MinKeys
        THEN [t |-> [keys |-> [t.keys EXCEPT ![slot - 1] = Last(prev.keys)],
                     kids |-> [t.kids EXCEPT
                       ![slot - 1] = [keys |-> Front(@.keys), kids |-> Front(@.kids)],
                       ![slot] = [keys |-> <<t.keys[slot - 1]>> \o @.keys,
                                  kids |-> <<Last(prev.kids)>> \o @.kids]]],
              p |-> [p EXCEPT !.inner = @ + 1]]
      ELSE IF slot < Len(t.kids) /\ Len(next.keys) > MinKeys
        THEN [t |-> [keys |-> [t.keys EXCEPT ![slot] = Head(next.keys)],
                     kids |-> [t.kids EXCEPT
                       ![slot] = [keys |-> Append(@.keys, t.keys[slot]),
                                  kids |-> Append(@.kids, Head(next.kids))],
                       ![slot + 1] = [keys |-> Tail(@.keys), kids |-> Tail(@.kids)]]],
              p |-> [p EXCEPT !.innerBound = Head(next.keys)]]
      ELSE IF slot < Len(t.kids)
        THEN [t |-> Merge(node, next, slot),
              p |-> [p EXCEPT !.innerBound = UpperBound(t.keys, slot + 1, MinKey)]]
      ELSE [t |-> Merge(prev, node, slot - 1),
            p |-> [p EXCEPT !.root = @ - 1, !.inner = @ + Len(prev.kids)]]

\* Bug: the flag of the leaf that goes is forgotten.
JoinedOrderFirst(a, b) == IF a = "sorted" /\ b # "sorted" THEN "broken" ELSE a

\* The order of a leaf that gets the rows of the one after it, with the flags
\* joined, and without (MERGE_WITH_NEXT flags the leaf that goes instead).
JoinedOrder(a, b) == IF "unsorted" \in {a, b} THEN "unsorted"
                     ELSE IF "broken" \in {a, b} THEN "broken" ELSE "sorted"
KeptOrder(a, b) == IF a = "sorted" /\ b # "sorted" THEN "broken" ELSE a

\* Bug: the key between the leaves stays as it was.
TakeFromPreviousStaleKey(t, p, minRight) ==
  LET node == t.kids[p.root]
      prev == node.kids[p.inner - 1]
      Node(cut) ==
        [keys |-> node.keys,
         kids |-> [node.kids EXCEPT
           ![p.inner - 1].rows = {r \in @ : r < cut},
           ![p.inner] = [rows |-> @.rows \cup {r \in prev.rows : r >= cut},
                         order |-> "unsorted"]]]
  IN  IF prev.rows = {} THEN {[t |-> t, p |-> p]}
      ELSE {[t |-> [t EXCEPT !.kids[p.root] = Node(cut)], p |-> p] :
              cut \in Cuts(prev.rows, MinRows, minRight)}

\* Rows move from the end of the previous leaf ...
TakeFromPrevious(t, p, minRight) ==
  LET node == t.kids[p.root]
      prev == node.kids[p.inner - 1]
      Node(cut) ==
        [keys |-> [node.keys EXCEPT ![p.inner - 1] = cut],
         kids |-> [node.kids EXCEPT
           ![p.inner - 1].rows = {r \in @ : r < cut},
           ![p.inner] = [rows |-> @.rows \cup {r \in prev.rows : r >= cut},
                         order |-> "unsorted"]]]
  IN  IF prev.rows = {} THEN {[t |-> t, p |-> p]}
      ELSE {[t |-> [t EXCEPT !.kids[p.root] = Node(cut)], p |-> p] :
              cut \in Cuts(prev.rows, MinRows, minRight)}

\* ... or from the start of the next one.
TakeFromNext(t, p, minLeft) ==
  LET node == t.kids[p.root]
      next == node.kids[p.inner + 1]
      Node(cut) ==
        [keys |-> [node.keys EXCEPT ![p.inner] = cut],
         kids |-> [node.kids EXCEPT
           ![p.inner] = [rows |-> @.rows \cup {r \in next.rows : r < cut},
                         order |-> JoinedOrder(@.order, next.order)],
           ![p.inner + 1].rows = {r \in @ : r >= cut}]]
  IN  IF next.rows = {} THEN {[t |-> t, p |-> p]}
      ELSE {IF cut = Min(next.rows) THEN [t |-> t, p |-> p]
            ELSE [t |-> [t EXCEPT !.kids[p.root] = Node(cut)],
                  p |-> [p EXCEPT !.leafBound = cut]] :
              cut \in Cuts(next.rows, minLeft, MinRows)}

MergeWithNext(t, p) ==
  LET node == t.kids[p.root]
      next == node.kids[p.inner + 1]
  IN  InnerErase(
        [t EXCEPT !.kids[p.root].kids[p.inner] =
           [rows |-> @.rows \cup next.rows, order |-> KeptOrder(@.order, next.order)]],
        [p EXCEPT !.leafBound = UpperBound(node.keys, p.inner + 1, p.innerBound)],
        p.inner + 1)

\* Bug: the leaf that got the rows goes, not the one that gave them.
MergeWithPreviousMisplaced(t, p) ==
  LET leaf == LeafAt(t, p) IN
  InnerErase(
    [t EXCEPT !.kids[p.root].kids[p.inner - 1] =
       [rows |-> @.rows \cup leaf.rows, order |-> JoinedOrder(@.order, leaf.order)]],
    [p EXCEPT !.inner = @ - 1],
    Max({p.inner - 1, 2}))

MergeWithPrevious(t, p) ==
  LET leaf == LeafAt(t, p) IN
  InnerErase(
    [t EXCEPT !.kids[p.root].kids[p.inner - 1] =
       [rows |-> @.rows \cup leaf.rows, order |-> JoinedOrder(@.order, leaf.order)]],
    [p EXCEPT !.inner = @ - 1],
    p.inner)

OneLeaf(t) == Len(t.kids) = 1 /\ Len(t.kids[1].kids) = 1

\* The possible outcomes of balanceLeaf: a leaf with too few rows takes rows
\* from its neighbours in the node, or is merged with one. A neighbour with too
\* few rows itself has, in unsigned arithmetic, a great many available.
Balancings(t, p) ==
  LET leaf == LeafAt(t, p)
      node == t.kids[p.root]
      hasPrev == p.inner > 1
      hasNext == p.inner < Len(node.kids)
      required == MinRows - Size(leaf)
      Available(slot) == (Size(node.kids[slot]) - MinRows) % SizeMod
      prevAvailable == Available(p.inner - 1)
      nextAvailable == Available(p.inner + 1)
      Enough(available) == (available + Size(leaf)) % SizeMod >= MinRows
      \* what the previous leaf lacks, then the next leaf
      fromBoth ==
        LET nextGives == (nextAvailable + Size(leaf)) % SizeMod
            prevRequired == IF nextGives < MinRows THEN MinRows - nextGives ELSE 0
            first == IF prevAvailable > 0 THEN TakeFromPrevious(t, p, prevRequired)
                                          ELSE {[t |-> t, p |-> p]}
            Rest(s) == LET size == Size(LeafAt(s.t, s.p)) IN
                       IF size < MinRows THEN TakeFromNext(s.t, s.p, MinRows - size) ELSE {s}
        IN  UNION {Rest(s) : s \in first}
  IN  IF Size(leaf) >= MinRows \/ OneLeaf(t) \/ ~(hasPrev \/ hasNext)
        THEN {[t |-> t, p |-> p]}
      ELSE IF hasPrev /\ Enough(prevAvailable)
        THEN TakeFromPrevious(t, p, required)
      ELSE IF hasNext /\ Enough(nextAvailable)
        THEN TakeFromNext(t, p, required)
      ELSE IF hasPrev /\ hasNext /\ Enough(prevAvailable + nextAvailable)
        THEN fromBoth
      ELSE {IF hasPrev THEN MergeWithPrevious(t, p) ELSE MergeWithNext(t, p)}

\* The assertions of balanceLeaf: the leaf has neighbours (line 631), and when it
\* is not merged with one it gets rows enough from them (line 633).
Asserted(t, p, s) ==
  \/ OneLeaf(t)
  \/ Cardinality(Positions(s.t)) < Cardinality(Positions(t))
  \/ Size(LeafAt(s.t, s.p)) >= MinRows

\* balanceLeaf
BalanceLeaf(t, p) == {s \in Balancings(t, p) : Asserts => Asserted(t, p, s)}

-----------------------------------------------------------------------------
(* The operations.                                                          *)

\* Bug: off by one.
FullLate(leaf) == Size(leaf) > MaxRows

Full(leaf) == Size(leaf) = MaxRows

Init == tree = EmptyTree /\ path = NoPath /\ op = "none"

\* No range operation is in progress, and clients use this operation.
Idle(operation) == op = "none" /\ operation \in Clients
NoRange(key) == path' = [NoPath EXCEPT !.rowKey = key] /\ op' = "none"

\* insert
Insert(key) ==
  LET p == UpdateLeaf(tree, NoPath, key) IN
  /\ Idle("insert") /\ key \notin Contents(tree)
  /\ \E s \in IF Full(LeafAt(tree, p)) THEN SplitLeaf(tree, p, key)
                                       ELSE {[t |-> tree, p |-> p]} :
       tree' = LeafInsert(s.t, s.p, key)
  /\ NoRange(key)

\* append: the caller's keys are in ascending order
AppendRow(key) ==
  LET last == Len(tree.kids)
      p == [NoPath EXCEPT !.root = last, !.inner = Len(tree.kids[last].kids), !.rowKey = key]
      s == IF Full(LeafAt(tree, p)) THEN UnsafeSplitLeafUnbalanced(tree, p, key)
                                    ELSE [t |-> tree, p |-> p]
  IN  /\ Idle("append") /\ \A k \in Contents(tree) : k < key
      /\ tree' = LeafInsert(s.t, s.p, key)
      /\ NoRange(key)

\* insert of a range: one row of it
InsertRow(t, p, key) ==
  LET q == UpdateLeaf(t, p, key)
  IN  {[t |-> LeafInsert(s.t, s.p, key), p |-> s.p] :
         s \in IF Full(LeafAt(t, q)) THEN SplitLeafUnbalanced(t, q, key)
                                     ELSE {[t |-> t, p |-> q]}}

InsertRangeBegin(key) ==
  /\ Idle("insertRange") /\ key \notin Contents(tree)
  /\ \E s \in InsertRow(tree, NoPath, key) : tree' = s.t /\ path' = s.p
  /\ op' = "insertRange"

\* ... the next row, in any order, once the leaf that is left is balanced
InsertRangeNext(key) ==
  /\ op = "insertRange" /\ key \notin Contents(tree)
  /\ \E s \in IF path.leafBound # MinKey /\ key >= path.leafBound
                THEN BalanceLeaf(tree, path) ELSE {[t |-> tree, p |-> path]} :
       \E r \in InsertRow(s.t, s.p, key) : tree' = r.t /\ path' = r.p
  /\ UNCHANGED op

\* erase
Erase(key) ==
  LET p == UpdateLeaf(tree, NoPath, key) IN
  /\ Idle("erase")
  /\ \E s \in BalanceLeaf(LeafErase(tree, p, key), p) : tree' = s.t
  /\ NoRange(key)

\* erase of a range: one row of it
EraseRow(t, p, key) ==
  LET q == UpdateLeaf(t, p, key) IN tree' = LeafErase(t, q, key) /\ path' = q

EraseRangeBegin(key) ==
  /\ Idle("eraseRange")
  /\ EraseRow(tree, NoPath, key)
  /\ op' = "eraseRange"

\* ... the next row, in ascending order for a Table::Eraser, which iterates
\* another tree, and in any order for a Universe::Eraser
EraseRangeNext(key) ==
  /\ op = "eraseRange" /\ (key >= path.rowKey \/ "eraseUnordered" \in Clients)
  /\ \E s \in IF key >= path.leafBound THEN BalanceLeaf(tree, path)
                                       ELSE {[t |-> tree, p |-> path]} :
       EraseRow(s.t, s.p, key)
  /\ UNCHANGED op

\* The end of a range.
RangeEnd ==
  /\ op # "none"
  /\ \E s \in BalanceLeaf(tree, path) : tree' = s.t
  /\ NoRange(path.rowKey)

\* clear
Clear == Idle("clear") /\ tree' = EmptyTree /\ NoRange(path.rowKey)

\* An iterator, or a find, reaches a leaf and sorts it.
Sort ==
  /\ Idle("iterate")
  /\ \E x \in Positions(tree) :
       /\ tree.kids[x[1]].kids[x[2]].order = "unsorted"
       /\ tree.kids[x[1]].kids[x[2]].rows # {}
       /\ tree' = [tree EXCEPT !.kids[x[1]].kids[x[2]].order = "sorted"]
  /\ NoRange(path.rowKey)

Next ==
  \/ \E key \in Keys :
       \/ Insert(key) \/ AppendRow(key) \/ InsertRangeBegin(key) \/ InsertRangeNext(key)
       \/ Erase(key) \/ EraseRangeBegin(key) \/ EraseRangeNext(key)
  \/ RangeEnd \/ Clear \/ Sort

Spec == Init /\ [][Next]_vars

-----------------------------------------------------------------------------
(* Properties.                                                              *)

\* The arrays hold what is put into them: no node or leaf outgrows its arrays,
\* and every node has one child more than keys.
TypeOK ==
  /\ op \in {"none", "insertRange", "eraseRange"}
  /\ path.root \in DOMAIN tree.kids
  /\ path.inner \in DOMAIN tree.kids[path.root].kids
  /\ Len(tree.kids) = Len(tree.keys) + 1
  /\ \A i \in DOMAIN tree.kids :
       /\ Len(tree.kids[i].keys) <= MaxKeys
       /\ Len(tree.kids[i].kids) = Len(tree.kids[i].keys) + 1
  /\ \A x \in Positions(tree) : LET leaf == tree.kids[x[1]].kids[x[2]] IN
       leaf.rows \subseteq Keys /\ Size(leaf) <= MaxRows /\ leaf.order \in Orders

Below(key, bound) == bound = MinKey \/ key < bound
LowerBound(keys, slot, outer) == IF slot > 1 THEN keys[slot - 1] ELSE outer

\* Every row is within the bounds of its leaf (assertLeafBounds), after every
\* exchange with a neighbour: iteration is then in order from leaf to leaf.
Bounds ==
  \A i \in DOMAIN tree.kids :
    LET node == tree.kids[i]
        lower == LowerBound(tree.keys, i, MinKey)
        upper == UpperBound(tree.keys, i, MinKey)
    IN  \A j \in DOMAIN node.kids :
          LET lo == LowerBound(node.keys, j, lower)
              hi == UpperBound(node.keys, j, upper)
          IN  \A r \in node.kids[j].rows : lo <= r /\ Below(r, hi)

\* After every split, merge and exchange, the cached path of a range operation
\* is the one that a search from the root finds.
PathFresh ==
  op # "none" =>
    path = [FindLeaf(tree, FindInner(tree, NoPath, path.rowKey), path.rowKey)
              EXCEPT !.rowKey = path.rowKey]

\* A leaf has neighbours to balance with, unless it is the only one: no split,
\* merge or exchange leaves a node with a single leaf beside other nodes. The
\* assertion of MBPlusTree.h:631 ("Should have neighbors") relies on it.
HaveNeighbors ==
  \A i \in DOMAIN tree.kids : Len(tree.kids[i].kids) > 1 \/ OneLeaf(tree)

\* The assertion of balanceLeaf: a leaf that a range operation leaves gets rows
\* enough from its neighbours, when it is not merged with one.
BalanceAssertion ==
  op # "none" => \A s \in Balancings(tree, path) : Asserted(tree, path, s)

\* Balancing the leaf of a path mends it, and harms no other leaf, as long as
\* the leaves beside it in its node have enough rows themselves: it is merged, or
\* has rows enough then, and so has every leaf that had enough (balanceLeaf).
Few(t) == {x \in Positions(t) : Size(t.kids[x[1]].kids[x[2]]) < MinRows}
Beside(p) == {x \in Positions(tree) : x[1] = p.root /\ x[2] \in {p.inner - 1, p.inner + 1}}
BalanceMends ==
  op # "none" /\ ~OneLeaf(tree) /\ Beside(path) \cap Few(tree) = {} =>
    \A s \in Balancings(tree, path) :
      OneLeaf(s.t) \/ Cardinality(Few(s.t)) = Cardinality(Few(tree) \ {<<path.root, path.inner>>})

\* No leaf is flagged sorted while its rows may be out of order, although merging
\* with the next leaf flags the leaf that goes (line 682).
SortedUnlessFlagged ==
  \A x \in Positions(tree) : tree.kids[x[1]].kids[x[2]].order # "broken"

\* The tree implements a set of rows: splits, merges and exchanges lose none and
\* make none, and an operation adds or takes away just the row it is about.
Index == INSTANCE IndexSpec WITH contents <- Contents(tree), last <- path.rowKey
IndexImplemented == Index!Spec
=============================================================================
