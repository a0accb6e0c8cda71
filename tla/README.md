# Verification of the forgotten engine

TLA+ models, model-checking configurations and machine-checked proofs for the
game engine in this repository: its work-stealing task system on User-Mode
Scheduling (`Game/Concurrency`), its in-memory database (`Game/Database`) and
its game loop (`Game/Core`).

## 1. The system

| Part | State | Operations | Talks to |
|---|---|---|---|
| `Concurrency/Mutex` | `count`, `handOff` (thread, version), `waiting` | `lock`, `tryLock`, `unlock`, the continuation of a blocked `lock` | `ConcurrentTaskStack`; `enqueueContext`, `executeContext` of the scheduler |
| `Concurrency/Event` | `signaled`, `waiting` | `wait`, `signal`, the continuation of a `wait` | the same |
| `Concurrency/Latch` | `counter`, an event | constructor, `wait`, `countDown` | `Event` |
| `Concurrency/Promise` | `value`, an event | `fulfill`, `wait` | `Event` |
| `Concurrency/Task`: `ConcurrentTaskStack` | tagged `top`, the tasks' `right` | `push`, `pop`, `peek` | |
| `Concurrency/Task`: `BoundedConcurrentTaskDeque` | `bottom`, `top`, `tasks` | `push`, `pop` (owner), `steal` (thieves) | |
| `Concurrency/Scheduler` | per thread three deques, sleeping contexts, completion list | `schedulerFunction`, `workerThread`, `enqueueTask`, `enqueueContext`, `executeContext`, sleeping | all of the above, the UMS kernel interface |
| `Database/MBPlusTree` | a three-level tree: a root array, inner nodes, linked leaves of columnar rows sorted lazily | `insert`, `append`, `erase`, their range forms, `clear`, iterators, finders | |
| `Database/*Join` | the two iterators or finders they combine | merge, find, outer and anti joins | the trees, `FlatTable` |
| `Database/Table`, `FlatTable`, `Universe` | trees, rows to insert, rows to erase, the next id | deferred inserters and erasers, component queries, `newId` | `MBPlusTree`, the joins |
| `Core/GameLoop` | real time, game time, two predictors | one round: render, substeps, slow-down, sleep | `sleepFor` of the scheduler |
| `Core/Window`, `Graphics`, `GameLogic` | input queues | event pump, stubs | SFML |
| `Archive` | | an earlier engine, not built any more | |

A *task* runs on a UMS worker thread; a *scheduler thread* executes one worker at
a time. A task that blocks calls `UmsThreadYield` with a *continuation*: the
scheduler thread switches the task out and then runs the continuation, which
publishes the task in a stack of waiters and re-checks the condition. From the
push on, the task may be resumed by another scheduler thread while the
continuation is still running. That is where the hard behaviour is: the
publication races with `unlock` and `signal`, wake-ups may be lost or doubled,
and the stack and the deques underneath are lock-free.

What makes each part correct:

* **Mutex**: one holder; no ownership lost or duplicated on its way through
  `handOff`; no task waits while ownership is on offer; no null context is
  executed; every `lock` returns.
* **Event, Latch, Promise**: a `wait` returns only after the signal (the last
  `countDown`, the value), and then always.
* **ConcurrentTaskStack**: an atomic stack in spite of tasks that are pushed
  again while an operation is stalled (ABA).
* **BoundedConcurrentTaskDeque**: each task exactly once, on a processor that
  lets loads overtake stores.
* **Scheduler**: each context executed by one thread at a time, none forgotten.
* **MBPlusTree**: a sorted map; sizes and separators within their bounds;
  positions found stay valid.
* **Joins, Universe**: the results of relational joins; deferred updates are
  applied exactly once.
* **GameLoop**: game time follows real time within the bound the code sets.

The full list of hazards, line by line, is in `PROJECT.json`. "Bug:" in a module
marks a variant of a definition that no specification uses: replacing the
definition by it breaks the property that the mutant in `PROJECT.json` names,
which shows that the property says something about the code.

## 2. Plan

In order of importance; the modules of all eight steps are there.

| Step | Modules | Specified by | Runs | Theorems |
|---|---|---|---|---|
| 1. blocking | `Mutex`, `Event`, `Latch`, `Promise`, `MCOneShot` | `LockSpec`, `EventSpec` | `mutex`, `oneshot` | every invariant; the safety of `EventSpec` and of `LockSpec` |
| 2. lock-free | `TaggedPointer`, `TaskStack`, `TaskDeque`, `MCLockFree`; `SharedDeque` | `StackSpec`, `DequeSpec` | `lock_free`, `shared_deque` | freshness of the tag, tasks taken once, both refinements |
| 3. leaves | `LeafNode` | reference definitions (sets, `SetToSortSeq`) | `leaf_node`, `leaf_find` | |
| 4. tree | `MBPlusTree` | `IndexSpec` | `tree`, `tree_rows`, `tree_assert` | `IndexImplemented`, `PathFresh`, `TypeOK`, for every capacity |
| 5. scheduler | `Scheduler` | one place per worker, every task ends | `scheduler` | `OnePlace`, for every number of tasks |
| 6. queries | `Queries`, `MCQueries` | the joins of relational algebra | `universe` | |
| 7. tables | `Universe` | one row per entity and table, erased for good | `universe` | `UniqueKeys`, `DeadStayDead`, for every number of tables, ids and handles |
| 8. game loop | `GameLoop` | bounds on the lag of game time | `game_loop` | `Follows` and `BreakEven`, for every prediction |

Still to be modelled: a table of more than one leaf under the universe, a third
inner node in the tree (11 keys, point operations only), and `FlatTable`. The scheduler
with several threads is worth modelling once its deques have one owner each (third
finding).

## 3. The models

### Tasks, threads and continuations (`Mutex`, `Event`, `Latch`, `Promise`)

`on[s]` is the task that scheduler thread `s` executes and `cont[s]` the
continuation it runs. A task that yields leaves `on[s]`, and its continuation
starts with its first step: from there on both may be interleaved with anything.
`ready` stands for the deques of the scheduler: any idle thread may take any
context out of it. That is weaker than any policy of the work-stealing deques,
so that safety carries over to each of them; for liveness see section 5. `pc[t]`
is the next step of a task, one label per atomic access of `lock`, `tryLock`,
`unlock`, `wait` or `signal`; `reg[t]` and `cont[s].old` are the hand-offs the code
has loaded into local variables. All of these accesses are sequentially
consistent in the code (the default of `std::atomic`), so that interleaving is
the right semantics.

* **`Mutex`** has one action per atomic access of `lock`, `tryLock`, `unlock` and
  the continuation (`Mutex.cpp:8-60`). `Block` is a worker that blocks in the
  kernel and becomes ready again. Two pairs of steps of the code are one action:
  `waiting.pop()` with the `enqueueContext` or `executeContext` that follows (the
  popped task is in nobody else's reach), and a compare-and-swap with the branch
  on its result. A hand-off names `Thread0` whichever thread `unlock` runs on, for a worker has
  a `threadIndex` of its own, which is 0: only versions tell hand-offs apart.
* **`Event`** is the same for `Event.cpp`. `Latch` and `Promise` instantiate its
  actions and put their own before them: `counter` and its `fetch_sub`, and `value`.
  The store of `signaled` is a step of its own, so that a task that has counted
  down to zero may be overtaken before it. `MCOneShot` runs the event by itself, in a
  latch and in a promise, over one set of variables: an initial state chooses which.
* `LockSpec` (a lock: out, blocked, holding) and `EventSpec` (a flag and those who
  wait for it) say what clients get.

The stack of waiters is a sequence with atomic `push`, `pop` and `peek`; that the
compare-and-swap loops of `Task.cpp` give that is what `TaskStack` shows.

### `TaskStack` and `TaskDeque`

* **`TaskStack`**: `top` with its pointer and its tag, `right` of each task, and one
  action per atomic access. A popped task is `loose` and may be pushed again at
  once: that is the reuse that the tag is for. `age[p]` counts the updates of `top`
  since `p` loaded it, and `MaxStale` bounds it below the number of tags. `StackSpec`
  is the atomic stack. The pointers and their tags are `TaggedPointer`'s.
* **`TaskDeque`**: `bottom`, `top` and the slots in memory, and the store buffer of
  the owner, because the code relies on `MemoryBarrier` in `pop` and on nothing but
  a compiler barrier in `push`. The processor (x86, the only one the code builds
  for) is external: stores reach memory in order and late, loads overtake them,
  `MemoryBarrier` and interlocked operations wait for the buffer to drain. `DequeSpec` is
  a deque whose pushes, pops and steals happen at once, each at some point between
  the call and the return.
* **`MCLockFree`** runs the two side by side, an initial state chooses which.
* **`SharedDeque`** is the deque with two owners, each with a store buffer of its own:
  two instances of `TaskDeque`'s actions over one memory. That is how the scheduler uses
  the deques of thread 0 as soon as it has a second thread: `threadIndex` is a thread's
  own and nobody sets a worker's, so that every worker pushes to and pops from them.

### `Scheduler`

The scheduler of a process with one processor (`numSchedulerThreads` is the number
of bits in the affinity mask). With one thread, the thread and the workers that it
executes take turns, an operation of a deque has nothing beside it, and so it is one
step; the walk along a completion list is, too. With more, `SharedDeque` shows that
tasks are lost and doubled, and no property of the scheduler is claimed.

The thread's `pc` is a label of `schedulerFunction`: "activated" is its call,
"schedule" and "wait" are the steps of the loop, "interrupted" and "await" those after
`SCHEDULE_AFTER_INTERRUPT`, and "run" is `executeContext`, which does not return: the
kernel calls the function again when the worker yields or blocks, so that its local
variables are gone (`Execute` resets them). A worker's `at` is its place in `workerThread`.
`context` and `task` are the two pointers between a task and its worker, which a
worker that has ended one task hands on to the next, by itself (`Fetch`) or from the
pool (`UsePooled`). The client is a set of tasks that spawn and wait for later ones at
an event of each, and block in the kernel by a system call ("activated" follows) or
an interrupt ("interrupted" follows). The end of the main task stops the workers. With
nobody to steal from, `steal` returns null and is left out.

### `Universe` and `Queries`

* **`Universe`**: `rows[c]` is the table of component `c`, as one leaf, in the order in
  which its rows are stored, of a row only its id; `toInsert`, `toErase` and `dead` are
  the lists of the handles; `scope` is the handles that are open. A handle's destructor
  commits what it was asked for, and C++ runs destructors last handle first (`Close`).
  `EraseRange` and `InsertRange` are the tree's operations on a range for one leaf,
  and `Sort` is the sorting of the leaves that an iterator comes to. `UniverseSpec` is
  the tables by themselves, in which leaves may be sorted at any time: each step of
  `Queries` is one of `UniverseNext` or leaves the tables alone, so what holds of
  `UniverseSpec` holds of the tables under queries.
* **`Queries`**: a plan is a record, a tree of joins, built by `Require`, `Include` and
  `Exclude` as the universe's templates build it; an iterator has its shape. `FindMatch`
  and `Advance` are the `findMatch` and `operator++` of the six iterators, `Key` follows
  the `NameOf` rules of `Query.h`, and `Relation` is what each join means. Iterators look at
  the tables as they are: that nothing changes under them is what is to be shown.
  `SortFound` is the sorting of the leaf where `find` has found a row. A find join over a table that is still to be sorted
  returns other rows (first finding below); `reliable` is false for such a query, and
  `QueryExact` then claims nothing.

The clients' part is in the guards of `Universe`: one handle of a kind for a table
at a time, and none opened or closed inside a query's loop; no row inserted into a
table that has one with its id and will not have erased it before; no row for an
entity that is to be erased first. The code checks none of this: where clients do
otherwise, a table does get a second row of an entity, or keeps one of an erased
entity, and `UniqueKeys` and `DeadStayDead` claim nothing.

### `GameLoop`

Time is counted in ticks. Only differences matter: `lag` is `now - gameTime`, and
`renderLag` the same for the frame that was rendered last. How long a render and an
update take, how much longer than asked for a sleep lasts, and the error of a
step's way through a `float` (line 83) are chosen from small sets.

### `LeafNode` and `MBPlusTree`

* **`LeafNode`** is one leaf with its rows in the order in which they are stored:
  insertion sort, quicksort with Hoare's partition, the median of three,
  `quickPrepare` with Lomuto's partition, binary and linear search, translated
  loop by loop, and the operations that change a leaf, those of its neighbours
  included.
* **`MBPlusTree`** is the whole tree, a leaf of it just the set of its rows and what is
  known of their order: "unsorted" (flagged), "sorted" (not flagged), "broken" (not
  flagged, and perhaps not sorted). Where the code cuts a leaf depends on the order
  of its rows; the model takes any cut that leaves enough rows on both sides
  (`Cuts`), which is what `PrepareExact` shows the code to do. The path of an
  operation holds slots and upper bounds instead of pointers; `PathFresh` says that
  the cached ones stay those that a search finds. `next`, `previous` and `lastLeaf`
  are not variables: they are the order of the leaves. An operation on a range
  takes one step per row, with the balancing of the leaf it leaves, as the code's
  loop does; no other operation runs between them (the tree is not concurrent).
  `size_t` arithmetic of `balanceLeaf` is done modulo `SizeMod`. `Balancings` are the
  outcomes that its arithmetic leads to, and `Asserts` says whether the build stops
  when the assertion about them fails (`Asserted`).
* **`IndexSpec`**: a set of keys, changed by one row at a time.

The inputs are those the code's own callers produce. Keys are unique in a tree
(`insert` does not look; rows are identified by their key everywhere). `append` gets
ascending keys: that is its contract. A `Table::Eraser` erases in ascending order,
because it iterates a tree of rows to erase (`Table.h:27`); a `Universe::Eraser` in
any order (`Universe.h:113`, the client "eraseUnordered"); a `Table::Inserter`
inserts in any order (`Table.h:13`). Ranges may name keys that are not there.

## 4. The runs

| Run | Instance | What it shows |
|---|---|---|
| `mutex` | 3 tasks, 2 threads, 2 calls each, 1 kernel block | `MutualExclusion`; ownership is one token (`OneToken`) that is never lost (`TokenNotLost`) and never left on offer while a task waits and nobody will look (`NoLostHandOff`); a continuation that takes a hand-off finds a task (`NoNullExecute`); a context is in one place (`OnePlace`); every `lock` returns (`AllReturn`); the mutex implements `LockSpec`, its liveness included |
| `oneshot` | 3 tasks, 3 threads, 2 calls each; counts 0, 2, 3; 2 values | no wake-up lost, with several signals and several continuations popping each other's tasks; `EventSpec` implemented; a latch opens at zero and not before, and then releases everyone; `wait` on a promise returns the value |
| `lock_free` | the deque: 2 thieves, 2 slots, 4 tasks; the stack: 3 tasks, 2 processes, 4 tags | no task lost; `DequeSpec` implemented; `pop` returns null only when nothing is left; `StackSpec` implemented; a swap that succeeds has seen every update; lock-free |
| `leaf_node` | 6 keys, 6 rows, ranges longer than 2 take the quick paths | search, cut and sort are exact for every reachable order of rows; `isUnsorted` never lies |
| `tree` | 9 keys, 4 rows and keys a node | all operations but iteration and erasing in no order, with one and two inner nodes, and no assertions: sizes of arrays, cached paths, neighbours to balance with (`HaveNeighbors`), `IndexSpec` |
| `tree_rows` | 9 keys, 6 rows and keys a node, at least 2 rows a leaf | all operations, in a build with assertions: every row within the bounds of its leaf (`Bounds`); balancing mends a leaf whose neighbours have enough rows, and harms no other (`BalanceMends`); the order flag (`SortedUnlessFlagged`) |
| `scheduler` | 4 tasks, 1 thread, 3 kernel blocks | a worker is in one place (`OnePlace`), and every task that is created ends unless the main task ends before (`EveryTaskRuns`), although the thread stops looking for new tasks, and waits without limit for its list |
| `universe` | 2 components, 3 ids, 2 handles, 6 plans | queries are exact while rows come and go (`QueryExact`); no table has an id twice (`UniqueKeys`); erased entities stay erased (`DeadStayDead`) |
| `game_loop` | steps of 2 to 12 ticks, 3 substeps, windows of 3, renders of 1 or 8, updates of 0, 5 or 15 | game time is never ahead by a step, and behind by no more than one when a frame begins (`Follows`); sleeping ends when the errors break even (`BreakEven`); updates never stop (`GameAdvances`) |
| `leaf_find` | violation | see the first finding |
| `tree_assert` | violation | see the second finding |
| `shared_deque` | violation | see the third finding |

Why the bounds are enough. Three tasks and two threads are what it takes for a
holder, a waiter and a barging third, with an `unlock` and a continuation running
at the same time, and for two continuations, or one and a draining signal, that
pop each other's tasks. Four tags and three stale updates bring the stack through
every reuse of a pointer short of a wrapped tag. Four tasks in two slots reuse both
slots under a stalled thief. With leaves of four rows, nine keys are enough to
split a node and, on the way back, to take all four branches of `innerErase`; leaves
that need two rows are what `balanceLeaf` needs to take rows from both neighbours,
and nine keys fill three of them, so that a leaf has a neighbour on each side.
A sort or a search that is exact for six rows with thresholds of two has been
through recursion on both sides. Four tasks are a parent and three children,
of which one gets a pooled context, one a worker that has just ended a task and one
a new worker; three kernel blocks let a worker be blocked while another is interrupted and
the list is waited for, more than once. Three ids let
each side of a join skip a row before, between and after matches; two handles are
an inserter and an eraser in either order. Updates of 15 ticks are longer than any step,
so that the game falls behind by three steps a round; updates of 0 let it get ahead.
`scheduler` and `game_loop` are checked for liveness under the fairness of section 5. Of the passing runs two
may stop: `scheduler`, for when the main task has ended the thread waits for ever,
which is what the code does (line 272), and `tree_rows`, at an assertion that fails.

### Findings

1. **`find` returns the wrong row** (`leaf_find`). `Path::find` (`MBPlusTree.h:279-285`)
   looks up a position in a leaf that may be unsorted, and returns an iterator to
   that position, whose constructor sorts the leaf (line 204). With rows 2, 1 in a
   leaf, `find(1)` yields row 2. `FindJoin` joins with what `find` returns.
2. **Erasing in no order breaks the balance of the tree** (`tree_assert`). The range
   form of `erase` balances a leaf only when it moves on to a greater key
   (line 842). A key below the leaf leaves it underfull or empty, and the next
   `balanceLeaf` beside it computes `next->size - MinRows` below zero in unsigned
   arithmetic: the assertion of line 633 fails. Without assertions the empty leaf
   stays, and an iterator that enters it reads a row that is not there. It is not
   only that order: where leaves must hold two rows or more (in the code they must hold tens), inserting a range in
   no order, or `append`, leaves a leaf with too few, and erasing in ascending order
   beside it fails the same assertion. So no property says that every leaf has enough rows.
   `BalanceMends` and `HaveNeighbors` say what balancing does achieve, in every state.
3. **Two owners of one deque** (`shared_deque`). A pop that finds more than one task
   left takes the last one without an interlocked operation (`Task.h:96-99`), which is right for
   a deque with one owner. The deques of the scheduler have several (`Scheduler.cpp:12`,
   58-64): thread 0, and every worker that another thread executes. With two tasks
   in the deque, two pops at once return the same one.

`balanceLeaf` flags the wrong leaf when it merges with the next one (line 682).
`SortedUnlessFlagged` holds nevertheless in a build with assertions: the leaf that gets the rows
has always been flagged before, unless the assertion of line 633 has failed. In a build
without, the runs' operations, inserting in no order or erasing in no order among them,
reach leaves that are not flagged and not sorted, and then rows outside the bounds of
their leaf as well (TLC finds both when `Asserts` is `FALSE` in `tree_rows`).

## 5. Fairness

`FairSpec` of `Mutex`, and the specifications of `Event`, `Latch` and `Promise`, assume weak
fairness of each scheduler thread's step: a system thread that can go on does go
on, and an idle one takes some ready context. The first is what the operating
system gives. The second is what `schedulerFunction` does with its own deque, stealing and
its completion list: an assumption of these modules, and `EveryTaskRuns` in `Scheduler`. Nothing
is assumed about which context is taken; calls per task are bounded, so no
ready context is passed over for ever. No fairness is assumed of `Block`. `TaskStack`
assumes weak fairness of each process, for `LockFree` only.

`Scheduler` assumes weak fairness of its thread, in `schedulerFunction` and in the
worker it executes, and that the kernel unblocks every worker in the end. It also assumes
that the kernel interrupts no worker inside an operation of a deque. Tasks block a bounded
number of times and otherwise end: for a task that runs for ever nothing is claimed
of what is left in the deques. `GameLoop` assumes that its one thread goes on.

## 6. The proofs

Checked by TLAPS for every number of tasks and threads (of the scheduler, one thread) and every bound. Each
property below is also a property of a run; what is proved of a refinement is
its safety part, or all of it where its specification claims no liveness. A
theorem about `Spec` needs no fairness.

| Module | Theorems | Inductive invariant |
|---|---|---|
| `MutexProofs` | `TypeCorrect`, `TokenUnique`, `MutexExcludes` | `TypeOK`, `CarriesTask`, `ReadOffers`, `OneToken` |
| | `TasksInOnePlace`, `HandOffNotLost`, `SafetyImplemented`; `VersionGuards`, `NullNotExecuted`, `TokenKept` | with it `Exclusive`, `Parked`, `Runnable`, `NoLostHandOff`; and `EarlierVersion`, `Found`, `TokenNotLost` |
| `EventProofs` | `TypeCorrect`, `WakeupsNotLost`, `SafetyImplemented` | `TypeOK`, `Exclusive`, `Parked`, `PopsSignaled`, `NoLostWakeup` |
| `OneShotProofs` | `WrappedWakeupsNotLost`, `WrappedSafetyImplemented`, `LatchOpensAtZero`, `PromiseOneValue` | that of the event with `Kinds`, `Counting`, `Fulfilled` |
| `TaskStackProofs` | `TagsGuardSwaps`, `AtomicStack` | `TypeOK`, `Owned`, `Tagging`, `Linking`, and that some sequence is the list (`Holds`) |
| `TaskDequeProofs` | `DequeLosesNothing`, `NullOnlyWhenEmpty`, `AtomicDeque` | that some history of stores and of tasks explains the state (`Holds`) |
| `MBPlusTreeProofs` | `TreeIsIndex`, `PathStaysFresh`, `TypesKept` | the order and number of keys and rows (`TreeGood`), and that the path is a search's (`Fresh`) |
| `SchedulerProofs` | `WorkersInOnePlace` | `State`, and that each worker has a place (`Located`) |
| `GameThreadProofs` | `RowsUnique`, `ErasedForGood` | `Typed`, `InsertedOnce`, `LiveApart`, `RowsAlive` (`TablesInv`) |
| | `TimeFollows`, `SleepBreaksEven` | `TypeOK`, `Follows`, `SinceRender`, `Slowed` (`LoopInv`) |

**The mutex.** `OneToken` alone is not inductive: a compare-and-swap on `handOff`
makes a new owner out of the value it expects, so it must be known that `tryLock`
and the continuations only go on to it with a value that offers the mutex
(`ReadOffers`), and that a continuation that is to push carries a task
(`CarriesTask`). `NoLostHandOff` says that somebody will still look: it needs that a
task waits in the stack once, or is carried to it (`Parked`), and that a thread runs
a task or a continuation and never both (`Exclusive`). `OnePlace` follows from `Parked`
and `Runnable`. `SafetyImplemented` maps each step to one of `LockSpec` or to a stutter.

None of this needs anything of the version: it holds for every `VersionMod`, 1
included, so a version that wraps never costs mutual exclusion or a wake-up.
`NoNullExecute` and `TokenNotLost` do need it: with `VersionMod` 1, 2 or 4 instead of 16
TLC finds both violated. They are therefore proved of the behaviours in which no
hand-off comes back while a continuation is about to compare it (`NoReuse`);
`VersionGuards` derives that from `NoWrap`, that the version grows, which holds of
the instance of `mutex` (TLC) and of the 16 bits of the code as long as fewer than
65536 hand-offs pass during one stalled continuation.

**The event, the latch and the promise.** A lost wake-up is a count that comes out
short, tasks on the stack against continuations that will pop, so the proof needs
`Parked` and `Exclusive` again, and that only a signaled event is drained or popped
(`PopsSignaled`). The lemmas are about the event's actions, not about its clients':
`OneShotProofs` instantiates `EventProofs` for the latch and for the promise and
adds the clients' steps. `Counting` says that nobody is about to signal a
latch, or has done so, before its counter is zero, and `Fulfilled` that nobody signals a promise, or goes on
to read it, before the value is stored.

**The stack.** `Tagging` says that a process's tag is that of `top` minus the
updates since (`age`), modulo the tags: with `MaxStale` below their number a swap
that succeeds has seen every update (`SwapIsFresh`). `Linking` says that what a pop has read under the top
still holds while nothing has been updated, and `Owned` that a task being pushed is in one
process's hands. The abstract stack is the sequence that the pointers
form; that it exists is the last conjunct, that there is only one the lemma that
evaluates the refinement mapping.

**The deque.** The owner's stores sit in a buffer, so what thieves see is an
earlier state of the owner's. `Holds(f, g)` keeps both in view: `f` is what `bottom`
will be after each of the buffered stores and `g` the task at each index; every task left is in its slot
or on its way there (`Items`), and an operation whose compare-and-swap would
succeed has the first task (`Racing`). The claims about the one last task, which the owner and
a thief both go for, come out of it.

**The tree.** The invariant says that every row is in the leaf where a search for
its key ends: the keys of the root and of each node ascend, and a key of a row lies
between those beside its slot, at both levels (`TreeGood`). `Fresh(t, p)` says the
same of the key of a path, and that the cached bounds are those of its slots. The nodes of the
root and the leaves of a node are alike in that, so the lemmas about putting a child
beside another and about moving one over a key are proved once and used at both
levels. Each split, merge and exchange keeps `TreeGood`, the path fresh and the
contents as they are (`Grown` for those that add a leaf); contents and path then follow from one
lemma per operation. No leaf need have a least number of rows for this, so it holds
even where the sizes go wrong (second finding), and of erasing in no order as well.
`TypesKept` needs the other bound: that a row is only added where there is room
(`HasRoom`). A full leaf is split first, and a cut leaves rows on both sides
(`CutsLeaveEnough`: the least row with enough rows below it leaves enough above it); what is
taken from a neighbour, which has more than it must, comes to a leaf that has too few
(`Room`), and leaves are merged only when together they have no more than fits.
`PathFresh` says that the path is the very one a search yields; that follows from `Fresh`, since a key
has one slot (`SlotUnique`).

`append` alone does not search. It puts its row in the last leaf, which is right as
long as the keys that lead there are no greater than the row's, and that follows
from a row in that leaf or from there being no other. The three theorems
therefore assume, where clients append, just that: between operations the last of
several leaves has a row (`Appendable`). The assumption is
needed: where rows are both appended and erased in no order, the last leaf can be left
empty, and a row that is appended then goes where no search finds it. Without
"append" among the clients `Appendable` is true and the theorems hold of every behaviour.

**The tables.** `UniqueKeys` needs that what a handle will insert is asked for
once and is in the table only if it will be erased before (`InsertedOnce`), in
the order in which the handles will be closed. `DeadStayDead` needs that ids in use are no
longer given out nor erased yet (`LiveApart`), and that rows and rows to insert are of such ids, or of ones
whose erasure will follow (`RowsAlive`).

**The game loop.** `Follows` at the start of a frame depends on how far the updates
of the frame before went, and these on its predictions: the proof shows that a
prediction, the mean of a window without its extremes, is never negative, and
nothing else is used of it. `SinceRender` and `Slowed` bound the lag after the
clamping at the end of a round. `SleepBreaksEven` follows from the arithmetic of
halving (`HalfTheDifference`).

**The scheduler.** `OnePlace` counts the places of a worker, and a count says nothing
of what a step moves. The invariant says of each worker the kind of its place, as a
function `kind`: each step moves workers by changing it, and a function gives a worker
one place. It needs that a worker and its task
point at each other (`Belongs`), which contexts that are taken over break for a
moment inside a step; that no list has anything twice (`NoDuplicates`); that a
task without a worker that has not begun is in one deque (`Fresh`); that what is pooled
or in hand has ended (`Ended`), so that no unfinished task loses its worker; and that
there is a worker left for a new task (`WorkerLeft`, a pigeonhole argument).

**Assumptions.** Those on the constants, by name `ConstantsAssumption`, `ThreadAssumption`, `BuildAssumption`,
`OneShotAssumption`, `TagAssumption` or `SchedulerAssumption` in the modules: null is not a task, "not
a scheduler thread" is not a thread, the bounds are numbers, the sets of an event's
threads and of a stack's tasks are finite, a latch's counts are naturals. TLC evaluates them
in the runs.

**How the models are written for the proofs.** What a proof needs to reason about is
not a recursive operator: the list of the stack (`List`) and the unblocked workers of
a completion list (`Unblocked`) are chosen by what they satisfy, the owner's view of
`bottom` is the last of the buffered stores, and the sum of a predictor's window is the size of a set of
ticks (`Ticks`). The rows that are left of a table when a range is erased from it are a recursive
function (`EraseAll`), of which the proof uses one step at a time, and a sorted table is
chosen by what it satisfies (`Sorted`).

**Only model-checked.** Every liveness property (`AllReturn`, `Released`, `LockFree`,
`GameAdvances`, `EveryTaskRuns`, and the liveness of `LockSpec` and `EventSpec`): fairness and
ENABLED are out of the prover's reach. `LeafNode` and `Queries`: their sorting,
cutting and joining are recursive operators, which the prover cannot
handle, and what they compute is shown by induction over the data, which it cannot do
either. Of `MBPlusTree`, what is about the least sizes of nodes and leaves (`HaveNeighbors`,
`BalanceMends`), `Bounds`, and the order flag, `SortedUnlessFlagged`.

## 7. What the models leave out

* **Callers' contracts.** A latch is counted down at most as often as it was
  constructed for; a promise is fulfilled once; a deque is not pushed over its
  capacity (`push` does not check; it holds 65536 in the scheduler) nor 2^31 times; no
  operation on a stack is stalled for as many updates as there are tags (64).
* **Memory.** Lifetimes of tasks, leaves, nodes and closures: a closure that lives on
  the stack of the task it publishes, `pop` reading `right` of a freed task.
* **The values in rows.** A row is its key; `Columnar` and `Row` are compile-time layout.
* **An iterator kept while the tree changes.** The code gives no guarantee for it.
* **The scheduler with several threads**, but for the race of two owners for a deque
  (`SharedDeque`). What goes wrong with several threads besides: `victims` stays zero, for
  nothing calls the constructor that fills it in, so that every thread steals from
  thread 0; a worker that has been made ready (line 131) may be stolen, block again
  and be relinked before its link in the completion list is read (line 132); and a thread
  waits for its own list after an interrupt of another's worker (line 272).
* **Sleeping.** `sleepUntil` (line 360) puts a task where a pair is needed and does not
  compile, and `dequeueSleepingContexts` reads the top of a queue that may be empty.
  `GameLoop` takes `sleepFor` to last at least as long as it is asked for.
* **What only an assertion checks**: that ids do not run out (`Universe.h:167`).
* **`FlatTable`**, an array in the order of its appends, and rows, names and columns:
  layout at compile time.
* **Windows, graphics and game logic**: input and output, mostly stubs.
* **`Archive`**, an earlier engine that the solution no longer builds, and the
  **third-party code** under `Game/Include` and `Game/Box2D` (CML, SFML, fmt, Box2D), which is by far the largest part of the repository's lines.
