------------------------------ MODULE Queries ------------------------------
(***************************************************************************)
(* Game/Database: the joins, and queries made of them over a universe that  *)
(* is changed meanwhile. A plan is a tree of joins over tables; its         *)
(* iterator has the same shape and holds a position for each table. Outer   *)
(* and anti joins have a table on the right, and find joins, which look up  *)
(* the rows of a table by the keys of a plan, are at the root.              *)
(***************************************************************************)
EXTENDS Universe

CONSTANT Plans  \* the queries that clients run

VARIABLE query  \* the query that is running: its plan, its iterator, the rows
                \* it has visited, what it should visit, and whether no
                \* row is to be found in a leaf that is still to be sorted

vars == <<universeVars, query>>

Idle == [plan |-> <<>>, iter |-> <<>>, out |-> <<>>, expected |-> <<>>, reliable |-> TRUE]
None == -1

-----------------------------------------------------------------------------
(* Plans.                                                                   *)

Table(c) == [op |-> "table", of |-> c]
Merge(op, left, right) == [op |-> op, left |-> left, right |-> right]
Find(op, left, c) == [op |-> op, left |-> left, of |-> c]
Finds == {"find", "findAnti", "findOuter"}

\* require<cs...>(), and then include<cs...>() or exclude<cs...>()
Require(cs) == FoldRight(LAMBDA c, plan : Merge("merge", Table(c), plan), Front(cs), Table(Last(cs)))
Include(plan, cs) == FoldRight(LAMBDA c, p : Merge("outer", p, Table(c)), cs, plan)
Exclude(plan, cs) == FoldRight(LAMBDA c, p : Merge("anti", p, Table(c)), cs, plan)

-----------------------------------------------------------------------------
(* Iterators over the tables as they are.                                   *)

RECURSIVE AtEnd(_)
AtEnd(it) ==
  CASE it.op = "table" -> it.pos > Len(rows[it.of])
    [] it.op = "merge" -> AtEnd(it.left) \/ AtEnd(it.right)
    [] OTHER           -> AtEnd(it.left)

\* The id by which a plan is joined: a merge join has the name of its right side.
RECURSIVE Key(_)
Key(it) ==
  CASE it.op = "table" -> rows[it.of][it.pos]
    [] it.op = "merge" -> Key(it.right)
    [] OTHER           -> Key(it.left)

\* Path::find in a table: the position at which the row is stored, and the row
\* that is there once the iterator has sorted the leaf
Found(c, key) ==
  Sorted(ToSet(rows[c]))[Min({i \in DOMAIN rows[c] : rows[c][i] = key})]

\* A row of a query: the ids of the rows that are joined in it.
RECURSIVE Row(_)
Row(it) ==
  CASE it.op = "table" -> <<Key(it)>>
    [] it.op = "merge" -> Row(it.left) \o Row(it.right)
    [] it.op = "outer" -> Row(it.left) \o
         (IF ~AtEnd(it.right) /\ Key(it.right) = Key(it.left) THEN Row(it.right) ELSE <<None>>)
    [] it.op = "find"  -> Append(Row(it.left), it.result)
    [] it.op = "findOuter" ->
         Append(Row(it.left), IF Has(it.of, Key(it)) THEN Found(it.of, Key(it)) ELSE None)
    [] OTHER -> Row(it.left)

RECURSIVE FindMatch(_), Advance(_)
Left(it) == [it EXCEPT !.left = Advance(@)]
Right(it) == [it EXCEPT !.right = Advance(@)]

FindMatch(it) ==
  IF it.op = "findOuter" \/ AtEnd(it) THEN it ELSE
  CASE it.op = "merge" ->
         IF Key(it.left) < Key(it.right) THEN FindMatch(Left(it))
         ELSE IF Key(it.right) < Key(it.left) THEN FindMatch(Right(it))
         ELSE it
    [] it.op = "anti" ->
         IF AtEnd(it.right) \/ Key(it.left) < Key(it.right) THEN it
         ELSE IF Key(it.right) < Key(it.left) THEN FindMatch(Right(it))
         ELSE FindMatch(Left(Right(it)))
    [] it.op = "outer" ->
         IF ~AtEnd(it.right) /\ Key(it.right) < Key(it.left) THEN FindMatch(Right(it)) ELSE it
    [] it.op = "find" ->
         IF Has(it.of, Key(it)) THEN [it EXCEPT !.result = Found(it.of, Key(it))]
         ELSE FindMatch(Left(it))
    [] it.op = "findAnti" ->
         IF Has(it.of, Key(it)) THEN FindMatch(Left(it)) ELSE it

Advance(it) ==
  CASE it.op = "table" -> [it EXCEPT !.pos = @ + 1]
    [] it.op = "merge" -> FindMatch(Left(Right(it)))
    [] OTHER           -> FindMatch(Left(it))

RECURSIVE Start(_)
Start(plan) ==
  CASE plan.op = "table" -> [op |-> "table", of |-> plan.of, pos |-> 1]
    [] plan.op \in Finds ->
         FindMatch([op |-> plan.op, left |-> Start(plan.left), of |-> plan.of, result |-> None])
    [] OTHER -> FindMatch([plan EXCEPT !.left = Start(@), !.right = Start(@)])

RECURSIVE Iterated(_)
Iterated(plan) ==
  CASE plan.op = "table"    -> {plan.of}
    [] plan.op \in Finds    -> Iterated(plan.left)
    [] OTHER                -> Iterated(plan.left) \cup Iterated(plan.right)

-----------------------------------------------------------------------------
(* What a plan promises: its joins as relations between the tables.         *)

RECURSIVE Relation(_)
Relation(plan) ==
  IF plan.op = "table" THEN {<<id>> : id \in ToSet(rows[plan.of])}
  ELSE LET L == Relation(plan.left)
           R == IF plan.op \in Finds THEN {<<id>> : id \in ToSet(rows[plan.of])}
                                     ELSE Relation(plan.right)
           joined == {l \o r : <<l, r>> \in {p \in L \X R : Head(p[1]) = Head(p[2])}}
           alone == {l \in L : \A r \in R : Head(l) # Head(r)}
       IN  CASE plan.op \in {"merge", "find"}      -> joined
             [] plan.op \in {"anti", "findAnti"}   -> alone
             [] plan.op \in {"outer", "findOuter"} -> joined \cup {Append(l, None) : l \in alone}

Expected(plan) == SetToSortSeq(Relation(plan), LAMBDA l, r : Head(l) < Head(r))

-----------------------------------------------------------------------------
(* A query.                                                                 *)

\* The iterators over the tables are made, which sorts them.
Begin(plan) ==
  /\ query = Idle
  /\ query' = [Idle EXCEPT !.plan = plan, !.expected = Expected(plan),
                           !.reliable = plan.op \notin {"find", "findOuter"} \/ ~isUnsorted[plan.of]]
  /\ Sort(Iterated(plan))

\* A find in a table that has the row makes an iterator, which sorts it.
SortFound(found) == Sort(IF found THEN {query.plan.of} ELSE {})

Running == query.plan # <<>> /\ query.iter # <<>>

\* The joins look for their first match.
First ==
  LET it == Start(query.plan) IN
  /\ query.plan # <<>> /\ query.iter = <<>>
  /\ query' = [query EXCEPT !.iter = it]
  /\ SortFound(CASE it.op = "find"     -> ~AtEnd(it)
                 [] it.op = "findAnti" -> it.left # Start(query.plan.left)
                 [] OTHER              -> FALSE)

\* The client takes the row that the iterator is at, and the next turn begins.
Visit ==
  LET it == Advance(query.iter) IN
  /\ Running /\ ~AtEnd(query.iter)
  /\ query' = [query EXCEPT !.out = Append(@, Row(query.iter)), !.iter = it]
  /\ SortFound(CASE it.op = "find"      -> ~AtEnd(it)
                 [] it.op = "findAnti"  -> it.left # Advance(query.iter.left)
                 [] it.op = "findOuter" -> Has(it.of, Key(query.iter))
                 [] OTHER               -> FALSE)

\* The loop over the query ends, or the client leaves it.
Stop ==
  /\ query # Idle
  /\ query' = Idle
  /\ UNCHANGED universeVars

Init == UniverseInit /\ query = Idle

Next ==
  \/ Ask /\ UNCHANGED query
  \/ query = Idle /\ Commit /\ UNCHANGED query
  \/ \E plan \in Plans : Begin(plan)
  \/ First \/ Visit \/ Stop

Spec == Init /\ [][Next]_vars

-----------------------------------------------------------------------------
(* Properties.                                                              *)

TypeOK ==
  /\ UniverseTypeOK
  /\ query.plan \in Plans \cup {<<>>}
  /\ query.plan = <<>> => query = Idle

\* A query visits exactly the entities that have the components it requires and
\* lack those it excludes, each once, in the order of their ids and with their
\* own rows, as the tables were when it began, whatever is asked of the open
\* handles meanwhile; a find join does so when the table it searches was sorted
\* before (Query.h, MergeJoin.h:27-45, MergeAntiJoin.h:29-44,
\* MergeOuterJoin.h:29-33, Table.h:12-15).
QueryExact ==
  Running /\ query.reliable =>
             /\ IsPrefix(query.out, query.expected)
             /\ AtEnd(query.iter) => query.out = query.expected
=============================================================================
