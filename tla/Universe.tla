------------------------------ MODULE Universe ------------------------------
(***************************************************************************)
(* Game/Database/Universe.h and Table.h: entities are ids, and a component  *)
(* is a table of the rows of the entities that have it, of a row only its   *)
(* id. Rows are inserted and erased, and entities erased, through handles:  *)
(* their destructors, run last handle first, carry out what was asked of    *)
(* them, so that a query that is running sees no change. A table is an      *)
(* MB+ tree of one leaf: its rows in the order in which they are stored.    *)
(*                                                                          *)
(* The clients' part is in the guards: at most one handle of a kind for a   *)
(* table, no row inserted into a table that will still have one with its    *)
(* id, and no row for an entity that is to be erased before the row is in.  *)
(***************************************************************************)
EXTENDS Integers, SequencesExt

CONSTANTS Components,
          MaxId,      \* MaxKey<TId>: ids that are given out are below it
          MaxHandles, \* bound on the handles that are open at once
          MaxDead     \* bound on the entities that are erased together

ASSUME UniverseAssumption == MaxId \in Nat /\ MaxHandles \in Nat /\ MaxDead \in Nat

VARIABLES rows, isUnsorted,  \* of each component's table
          toInsert, toErase, \* ... and what its open handles were asked for
          dead,              \* Universe::toErase
          nextId,
          scope,             \* the open handles, the last one opened last
          live, gone         \* ids that are in use, and those of erased entities

tables == <<rows, isUnsorted>>
asked == <<toInsert, toErase, dead>>
universeVars == <<tables, asked, nextId, scope, live, gone>>

Ids == 0 .. MaxId - 1

Inserter(c) == [kind |-> "insert", of |-> {c}]
Eraser(c) == [kind |-> "erase", of |-> {c}]
EntityEraser == [kind |-> "eraseEntity", of |-> Components]
Handles == {Inserter(c) : c \in Components} \cup {Eraser(c) : c \in Components} \cup {EntityEraser}

UniverseInit ==
  /\ rows = [c \in Components |-> <<>>]
  /\ isUnsorted = [c \in Components |-> FALSE]
  /\ toInsert = [c \in Components |-> <<>>]
  /\ toErase = [c \in Components |-> {}]
  /\ dead = <<>>
  /\ nextId = 0
  /\ scope = <<>>
  /\ live = {} /\ gone = {}

-----------------------------------------------------------------------------
(* A table.                                                                 *)

Has(c, id) == id \in ToSet(rows[c])

\* leafErase: the last row moves into the gap.
EraseKey(s, key) ==
  IF key \in ToSet(s)
    THEN Front([s EXCEPT ![Min({i \in DOMAIN s : s[i] = key})] = Last(s)])
    ELSE s

\* The keys of a range are erased one after the other.
EraseAll(s, keys) ==
  LET left[n \in 0 .. Len(keys)] == IF n = 0 THEN s ELSE EraseKey(left[n - 1], keys[n])
  IN  left[Len(keys)]

\* LeafNode::sort
Sorted(S) ==
  CHOOSE s \in [1 .. Cardinality(S) -> S] : \A i, j \in DOMAIN s : i < j => s[i] < s[j]

\* A range of rows is inserted, a range of keys erased.
InsertRange(c, range) ==
  /\ rows' = [rows EXCEPT ![c] = @ \o range]
  /\ isUnsorted' = [isUnsorted EXCEPT ![c] = @ \/ range # <<>>]

EraseRange(C, range) ==
  /\ rows' = [c \in Components |-> IF c \in C THEN EraseAll(rows[c], range) ELSE rows[c]]
  /\ isUnsorted' = [c \in Components |->
       isUnsorted[c] \/ (c \in C /\ \E id \in ToSet(range) : Has(c, id))]

-----------------------------------------------------------------------------
(* What clients do while a query runs, and between queries.                 *)

Open(h) == \E i \in DOMAIN scope : scope[i] = h

\* Handle h does what it was asked for before handle g does.
Before(h, g) == \E i, j \in DOMAIN scope : scope[i] = h /\ scope[j] = g /\ i > j

NewId ==
  /\ nextId # MaxId
  /\ live' = live \cup {nextId}
  /\ nextId' = nextId + 1
  /\ UNCHANGED <<tables, asked, scope, gone>>

\* A row with this id may be inserted into the table of c by a handle that is open.
Insertable(c, id) ==
  /\ id \in live
  /\ id \notin ToSet(toInsert[c])
  /\ Has(c, id) => id \in toErase[c] /\ Before(Eraser(c), Inserter(c))

\* Bug: the row is inserted at once.
InsertAtOnce(c, id) ==
  /\ Open(Inserter(c)) /\ Insertable(c, id)
  /\ InsertRange(c, <<id>>)
  /\ UNCHANGED <<asked, nextId, scope, live, gone>>

Insert(c, id) ==
  /\ Open(Inserter(c)) /\ Insertable(c, id)
  /\ toInsert' = [toInsert EXCEPT ![c] = Append(@, id)]
  /\ UNCHANGED <<tables, toErase, dead, nextId, scope, live, gone>>

Erase(c, id) ==
  /\ Open(Eraser(c))
  /\ toErase' = [toErase EXCEPT ![c] = @ \cup {id}]
  /\ UNCHANGED <<tables, toInsert, dead, nextId, scope, live, gone>>

EraseEntity(id) ==
  /\ Open(EntityEraser) /\ Len(dead) < MaxDead
  /\ id < nextId
  /\ \A c \in Components : id \in ToSet(toInsert[c]) => Before(Inserter(c), EntityEraser)
  /\ dead' = Append(dead, id)
  /\ live' = live \ {id}
  /\ UNCHANGED <<tables, toInsert, toErase, nextId, scope, gone>>

-----------------------------------------------------------------------------
(* What clients do between queries only.                                    *)

OpenHandle(h) ==
  /\ Len(scope) < MaxHandles /\ ~Open(h)
  /\ scope' = Append(scope, h)
  /\ UNCHANGED <<tables, asked, nextId, live, gone>>

\* The destructor of the handle that was opened last.
Close(h) ==
  /\ scope # <<>> /\ Last(scope) = h
  /\ scope' = Front(scope)
  /\ UNCHANGED nextId

\* Bug: what is inserted stays in the list.
CloseInserterKeeps(c) ==
  /\ Close(Inserter(c))
  /\ InsertRange(c, toInsert[c])
  /\ UNCHANGED <<asked, live, gone>>

CloseInserter(c) ==
  /\ Close(Inserter(c))
  /\ InsertRange(c, toInsert[c])
  /\ toInsert' = [toInsert EXCEPT ![c] = <<>>]
  /\ UNCHANGED <<toErase, dead, live, gone>>

\* The rows to erase are in a tree of their own, which hands them out sorted.
CloseEraser(c) ==
  /\ Close(Eraser(c))
  /\ EraseRange({c}, Sorted(toErase[c]))
  /\ toErase' = [toErase EXCEPT ![c] = {}]
  /\ UNCHANGED <<toInsert, dead, live, gone>>

\* Bug: the list is emptied for each table.
CloseEntityEraserOnce ==
  /\ Close(EntityEraser)
  /\ \E c \in Components : EraseRange({c}, dead)
  /\ dead' = <<>>
  /\ gone' = gone \cup ToSet(dead)
  /\ UNCHANGED <<toInsert, toErase, live>>

\* The entities to erase are handed to every table in the order of the calls.
CloseEntityEraser ==
  /\ Close(EntityEraser)
  /\ EraseRange(Components, dead)
  /\ dead' = <<>>
  /\ gone' = gone \cup ToSet(dead)
  /\ UNCHANGED <<toInsert, toErase, live>>

\* Table::append, of a key above all others
AppendRow(c, id) ==
  /\ id \in live /\ id \notin ToSet(toInsert[c])
  /\ \A key \in ToSet(rows[c]) : key < id
  /\ InsertRange(c, <<id>>)
  /\ UNCHANGED <<asked, nextId, scope, live, gone>>

\* Table::clear
ClearTable(c) ==
  /\ rows' = [rows EXCEPT ![c] = <<>>]
  /\ isUnsorted' = [isUnsorted EXCEPT ![c] = FALSE]
  /\ UNCHANGED <<asked, nextId, scope, live, gone>>

\* Iterators over the tables of C are made, which sort them.
Sort(C) ==
  /\ rows' = [c \in Components |-> IF c \in C THEN Sorted(ToSet(rows[c])) ELSE rows[c]]
  /\ isUnsorted' = [c \in Components |-> isUnsorted[c] /\ c \notin C]
  /\ UNCHANGED <<asked, nextId, scope, live, gone>>

\* Steps that change no table, and those that do.
Ask ==
  \/ NewId
  \/ \E c \in Components, id \in Ids : Insert(c, id) \/ Erase(c, id)
  \/ \E id \in Ids : EraseEntity(id)

Commit ==
  \/ \E h \in Handles : OpenHandle(h)
  \/ \E c \in Components : CloseInserter(c) \/ CloseEraser(c) \/ ClearTable(c)
  \/ CloseEntityEraser
  \/ \E c \in Components, id \in Ids : AppendRow(c, id)

\* The tables by themselves: queries, of which they see only that iterators sort
\* them, may run at any time.
UniverseNext == Ask \/ Commit \/ \E C \in SUBSET Components : Sort(C)
UniverseSpec == UniverseInit /\ [][UniverseNext]_universeVars

-----------------------------------------------------------------------------
(* Properties.                                                              *)

UniverseTypeOK ==
  /\ rows \in [Components -> Seq(Ids)]
  /\ isUnsorted \in [Components -> BOOLEAN]
  /\ toInsert \in [Components -> Seq(Ids)]
  /\ toErase \in [Components -> SUBSET Ids]
  /\ dead \in Seq(Ids) /\ Len(dead) <= MaxDead
  /\ nextId \in 0 .. MaxId
  /\ scope \in Seq(Handles) /\ Len(scope) <= MaxHandles
  /\ live \subseteq Ids /\ gone \subseteq Ids

\* No table ever has two rows with the same id: merge joins pass over both of
\* their inputs' rows at once, and would lose rows otherwise (MergeJoin.h:47-50).
UniqueKeys == \A c \in Components : IsInjective(rows[c])

\* Once an entity's eraser is gone, so are its rows, for good, in every table
\* (Universe.h:118-122). That no handle opened before it still has a row to insert
\* for the entity is the clients' part: see the guards of Insert and EraseEntity.
DeadStayDead ==
  \A c \in Components : gone \cap (ToSet(rows[c]) \cup ToSet(toInsert[c])) = {}
=============================================================================
