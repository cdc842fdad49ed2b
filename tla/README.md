# NeuG: a TLA+ model of transactions, durability, storage and graph procedures

NeuG is an HTAP property-graph database written in C++. The same engine runs
in two ways:

- **embedded** (`NeugDB::Connect`, `QueryProcessor`): one shared mutex, writes
  at timestamp 0, durability by checkpoint only;
- **service** (`NeugDBService`): a pool of sessions, snapshot timestamps from a
  version manager, a write-ahead log (WAL) per session, background compaction.

This directory holds the TLA+ modules that model the concurrent and the
crash-sensitive parts of the engine and the algorithms of two extensions, the
TLC configurations that check them on small instances, and proofs for TLAPS.
`PROJECT.json` maps each definition to the lines it models and lists the runs,
the hazards, the theorems and the finding.

## 1. The system

| Part | Source | What it does |
|---|---|---|
| Version manager | `src/src/transaction/version_manager.cc` | `write_ts_` hands out write timestamps, `read_ts_` is the newest snapshot, a ring of bits records inserts that ended out of order. A counter (`pending_reqs_`) is the gate: readers and inserters count up, an update transaction subtracts `thread_num_` and waits until it is alone. |
| Transactions | `src/src/transaction/*_transaction.cc` | Read, insert (buffered, logged, then ingested, in parallel with others), update (applied in place with an undo log, alone), compact. |
| WAL | `src/src/transaction/wal/` | One append-only file per session. The parser collects the records of all files by timestamp. |
| Open, Close, recovery | `src/src/main/neug_db.cc` | Lock the directory, load the checkpoint, replay the WAL; on Close compact and write a checkpoint. |
| Property graph | `src/src/storages/graph/` | Schema, vertex tables (key index, columns, `VertexTimestamp`), edge tables (outgoing and incoming CSR), `Dump`, `Compact`. |
| CSR | `src/include/neug/storages/csr/` | Adjacency lists whose entries carry timestamps; inserters lock a list, readers do not. |
| Service | `src/src/server/` | A handler takes a session from the pool; the session picks the transaction for a query, gets the plan from a cache, runs it, commits or aborts, and sends the result. A thread compacts periodically. |
| Query cache | `src/include/neug/execution/execute/query_cache.h` | Plans per query text: one cache for all, one per session, a version that schema changes raise. |
| File lock | `src/src/main/file_lock.cc` | A table in the process and a POSIX lock on a file keep two databases off one directory. |
| Compiler, execution | `src/src/compiler`, `src/src/execution` | Cypher to plans to pipelines of operators over a snapshot. |
| Extensions | `src/extension/` | Louvain, k-core, sampled match, JSON, Parquet. |

How they interact: a handler takes a session, the session a timestamp from the
version manager; it runs the plan against the property graph through a
transaction object, which appends to the session's WAL before (insert) or after
(update) it changes the graph. Recovery rebuilds the graph from checkpoint and
WAL, and the version manager starts over at the last timestamp of the log. A
checkpoint or a compaction is an update transaction that rewrites timestamps in
the tables. A schema change commits, drops the cached plans and gives the
planner the new schema. The extensions' procedures are called by a query and
read the graph through the same interface.

## 2. Modules

| Module | Models | Kind |
|---|---|---|
| `SnapshotOracle` | what a version manager promises | abstract specification |
| `VersionManager` | the gate, the counters and the ring, one atomic access per step | detailed |
| `VersionManagerProofs` | exclusion and the gate counter; snapshots, the ring and the refinement of `SnapshotOracle` | proofs |
| `AutoCompaction` | `VersionManager` with the compaction thread and its `clear()` | composition |
| `Durability` | transactions, WAL, checkpoint, crash and recovery, on top of `SnapshotOracle` | composition |
| `EdgeUpdates` | neighbour lists, offsets, undo and replay of edge operations | detailed |
| `MutableCsr` | `put_edge` beside readers without a lock, deletion, compaction and dump of the lists, on top of `SnapshotOracle` | composition |
| `MutableCsrProofs` | the inductive invariant; readers find their edges, lists and counts are exact | proofs |
| `SchemaChanges` | types and properties under commit, abort, replay and compaction | detailed |
| `Service` | session pool, plan caches and `Eval`, on top of `SnapshotOracle` | composition |
| `ServiceProofs` | the pool, its wakeups and the caches | proofs |
| `VertexMap` | what the vertex timestamps promise: a map from vertex to timestamp | abstract specification |
| `VertexTimestamp` | the border, the entries and the removed set of a vertex table | detailed |
| `VertexTimestampProofs` | types, scans, the vertex count and the refinement of `VertexMap` | proofs |
| `FileLock`, `FileLockProofs` | process table and POSIX lock; their exactness | detailed, proofs |
| `AdjacencyBuild` | the parallel build of the adjacency lists of Louvain | detailed |
| `Projections` | the graphs that the procedures fold out of the stored one | operators |
| `LouvainComputer`, `KcoreComputer` | the two algorithms | detailed |
| `ComputerProofs` | what the parallel build and the peeling keep | proofs |
| `LouvainProofs` | what coarsening and moving vertices keep | proofs |
| `GraphProcedures` | a call: build or project, compute, write the file, return | composition |
| `GraphProceduresProofs` | the theorems about the procedures, for every call | proofs |
| `MC...` | instances for TLC | |

A definition whose comment starts with "Fault:" is a broken variant of the
definition that follows it. It is not part of any specification; it shows that
a property notices the fault.

### VersionManager and SnapshotOracle

State: `write_ts`, `read_ts`, `pending_reqs`, `pending_update_reqs` and `buf`
are the atomics of the class (`buf` is the set of bits that are set), `pc`,
`mode` and `ts` are the program counter, the kind and the timestamp of each
session's thread. Each action is one atomic access of the code:

- `acquire_read_timestamp` and `acquire_insert_timestamp` are `EnterGate`
  (the `fetch_add`), `BackOff` (take it back when the gate is closed), `Poll`
  (wait until it looks open), then `ReadSnapshot` or `TakeInsertTs`;
- `release_insert_timestamp` is `PublishInsert` (the section under the spin
  lock that moves `read_ts_` over the bits) and `LeaveGate`;
- `acquire_update_timestamp` is `TakeSlot` (compare-and-swap), `CloseGate`
  (subtract `thread_num_`), `Drained` (the wait), `TakeUpdateTs`;
- its release is `PublishUpdate`, `ReopenGate`, `FreeSlot`; `RevertUpdate` is
  `revert_update_timestamp`, with its early return.

`SnapshotOracle` has no gate and no ring: transactions begin and end in one
step, an update begins only alone, and the read timestamp is *defined* as the
newest timestamp below every outstanding one. `ImplementsOracle` states that
`VersionManager` implements it with running sessions as transactions. The
modules that need timestamps (`Durability`, `MutableCsr`, `Service`) take them
from the oracle, so that what is shown of them holds with the version manager.

### AutoCompaction

Adds the compaction thread of `NeugDBService` as one more session, the
`CompactTransaction`'s `Commit` (release, then `clear()`, in that order) and the
stores of `clear()` one by one.

### Durability

State: the graph in memory (`graph`: timestamp and value per key, the keys of
the index by vertex number, capacity, edges with timestamps), the redo and undo
of each session, the number its added vertices start from (`base`), how far a
logged insert is ingested (`pos`), whether a session's WAL file still has a name
(`linked`), the records in the WAL directory, the checkpoint, and the progress
of `Dump`.

- Insert: `InsertVertex` and `InsertEdge` fill `arc`, with the detour over
  vertex numbers (`GetVertexIndex`, `GetVertexId`) of the code; `LogInsert`
  appends; `IngestOp` applies one operation at a time, interleaved with other
  sessions (an edge in one step; `MutableCsr` has the steps of `put_edge`);
  `IngestThrows` is the exception path; `EndInsert`, `AbortInsert`.
- Update: `UpdateAddVertex`, `UpdateAddEdge`, `UpdateVertexProperty`,
  `UpdateDeleteVertex` change the graph and push undo; `CommitUpdate`;
  `AbortUpdate` runs `revert_changes`.
- Checkpoint: `RemoveOldCheckpoint`, `LinkNewCheckpoint`, `RemoveWal` are the
  steps of `PropertyGraph::Dump` on the disk; `CommitCompaction` is the
  compaction transaction.
- `CrashAndRecover` is possible in every state; `Recover` is
  `LocalWalParser::open` with `NeugDB::ingestWals`; `TornAppend` is a crash
  inside `append`; `CloseAndOpen` an orderly restart.

### EdgeUpdates

One update transaction at a time (exclusion is `VersionManager`'s business),
with slots in both directions. The operators compute the offsets the way the
code does: `record_to_csr_offset_pair`, `search_other_offset_with_cur_offset`,
iterators that skip tombstones. Each operation is followed through its redo
record, its undo record, `Abort` and `Replay`. `ConcurrentInserts` is two
insert transactions that put their edges in the lists in any order.

### MutableCsr

The lists of one CSR, memory access by memory access. A writer takes the lock of
a list (`LockList`), grows the buffer when it is full (`GrowList`), raises the
size (`CountEntry`) and then writes the entry, neighbour first, timestamp last
(`WriteNeighbor`, `WriteTimestamp`). A reader loads the buffer and the size
(`LoadList`, `LoadDegree`) and visits the entries (`VisitEntry`) without a lock.
A fresh buffer is zeroed, what lies behind a buffer is arbitrary, and old
buffers stay, as the arena frees none. An
update deletes an edge and may abort; `CommitCompaction`, `CreateCheckpoint` and
`CloseAndOpen` rewrite the lists, with the counters that `compact` and
`open_internal` compare.

### SchemaChanges

`g` is the property graph as the schema sees it: names and tombstones of labels,
the properties of each type with their soft deletes, the table of each type with
its columns by index and by name, the edge tables. Each operation of
`UpdateTransaction` on types and properties is a `Txn...` action that changes
the graph, appends a redo record and pushes an undo record; deletions are soft
until `Commit` makes them final (`ApplyDeletions`). `Abort` folds `Undo` over
the records. A transaction and a compaction take the next timestamp of `clock`
and put it on their record. `Redo` replays one operation, as `IngestWal` does, and
`Recovered` is what a restart can build: the records sorted by timestamp, as
`LocalWalParser::open` sorts them, those with the same timestamp in any order.
`Compact` renumbers labels and starts the timestamps over, as `clear()` does.
`LogOrdered` says that no transaction has committed since with a timestamp the log
had reached. Data operations are there to show what schema changes do to rows,
columns and edges.

### Service

A handler goes through `Receive` (a request arrives and a session is taken or
waited for), `Retry` and `SpuriousWakeup` (the condition variable),
`BeginTransaction`, `FindLocal`, `CheckVersion`, `ReloadVersion`, `FindGlobal`,
`CompilePlan`, `ParsePlan`, `InsertGlobal` (the caches, with the unlocked
compilation), `Execute`, the commit with `BumpVersion` and `ClearGlobal` after a
schema change, `SinkResults` and `ReleaseSession`; early returns are actions of
their own. Schema and data are counted: a plan carries the numbers of the
schemas it was compiled and parsed with.

### VertexTimestamp and VertexMap

`first` is `init_vertex_num_`, `inserted` the array that starts there, `removed`
the set for the vertices below. `NewLid` and `Reserve` are the index and
`EnsureCapacity`; `InsertVertex`, `RemoveVertex`, `RevertRemoveVertex` and
`Compact` the methods. `live` is a history variable: the vertices inserted and
not removed since. `VertexMap` is the map from vertex to timestamp it
represents, with inserts, removals and a reset of all timestamps.

### FileLock

`held` is `opened_dbs_`, `posix` the lock the kernel keeps for each process.
`Create`, `HoldLock`, `SetLock`, `Unlock`, `HoldUnlock` and `Destroy` are the
steps of the constructor, of `lock`, of `unlock` and of the destructor, which
closes the descriptor; `Crash` ends a process and releases what it held.

### The graph procedures

A stored graph has vertex labels, some dropped, whose deleted vertices keep their
number, and edge types between them. `AdjacencyBuild` numbers the vertices label
by label (`GlobalId`), only for the labels below `vertex_label_num`, skips edge
types of labels without an offset, and has the threads of OpenMP claim source
vertices, count degrees, and fill lists through shared cursors, one edge type
after another. `Projections` computes
the weights of the coauthor, infrastructure, datasource and project graphs from
a bibliography. `LouvainComputer` chooses the best community of every node from
the totals of the previous round, applies the moves, coarsens and maps back;
weights are integers and gains are scaled by 2m, so that comparisons are exact.
A node with several equally good communities takes any of them, since the code's
choice depends on the order of a hash map. `KcoreComputer` is the peeling with
its bins and swaps, one visited neighbour per step. `GraphProcedures` calls them
and writes the result file. A `CALL` is never a read request, so it runs as an
update, alone; therefore the modules take the stored edges as fixed during a
call.

## 3. What TLC checks

Twelve runs. `tlc -config <cfg> <MC module>` repeats one.

| Run | cfg | Properties | Shows |
|---|---|---|---|
| `version_manager` | `VersionManager` | `UpdateExclusive`, `SnapshotComplete`, `UpdateIsNext`, `GateCount`, `RingExact`, `ImplementsOracle`, `UpdateDrains`, `GateReopens` | Sessions interleave every atomic access: an update is alone, snapshots cover finished work only, the ring loses nothing, the whole implements `SnapshotOracle`, an update that closed the gate gets in, and sessions that were turned away get in once updates stop. |
| `auto_compaction_exclusive` | `AutoCompactionExclusive` | `UpdateExclusive` violated | `clear()` after the release erases the count of sessions that have entered meanwhile. |
| `durability_recovery` | `DurabilityRecovery` | `RecoverySucceeds`, `RecoversCommitted` | Three transactions, two values, a crash at every point and a second one after recovery: `Open` succeeds and shows exactly the committed data. |
| `durability_mid_commit` | `DurabilityMidCommit` | `RecoversFromLog`, `LoggedInsertsApply`, `SnapshotStable` | Two operations per transaction, with checkpoints, compactions, torn records and crashes between them: what the log holds is recovered, logged inserts apply whole, and the vertices of a snapshot do not change. |
| `edge_updates_commit` | `EdgeUpdatesCommit` | `Mirrored`, `NoDangling`, `ReplayExact` | Committed edge operations keep both directions equal, leave no edge at a deleted vertex, and replay to the same graph. |
| `edge_updates_abort` | `EdgeUpdatesAbort` | `UndoRestores` | An update transaction can be undone wherever it stands. |
| `vertex_timestamp_map` | `VertexTimestampMap` | `ForeachExact`, `CountExact`, `MapSpec` | The border and the two representations are invisible: the table is a map. |
| `file_lock_table` | `FileLockTable` | `RegisteredExact`, `ExclusiveIfProtected` | The process table counts exactly, and a writer is alone while its POSIX lock stands. |
| `mutable_csr` | `MutableCsr` | `ReadsComplete`, `ListExact`, `CountsAgree` | Writers append and grow lists under a reader without a lock: it misses no edge of its snapshot, no list loses an entry, and compaction and reopening agree with the counters. |
| `schema_changes` | `SchemaChanges` | `RecoveryAgrees`, `TablesMatch`, `NoDanglingEdges`, `AbortRestores` | Types and properties are created, renamed, dropped and revived: replay agrees with the running graph while the timestamps in the log ascend, indexes agree with names, no edge outlives its type, an abort leaves no trace. |
| `service` | `Service` | `PoolExact`, `NoLostWakeup`, `PlanCurrent`, `RequestAnswered` | Handlers share sessions and caches while the schema changes: no session or wakeup is lost, no stale plan runs, every request is answered. |
| `graph_procedures` | `GraphProcedures` | `BuiltExact`, `CoarseExact`, `ResultExact`, `CorenessExact`, `BinsExact`, `MovesPay`, `CallReturns` | The parallel build equals the sequential one in every order, and the stored graph where label ids have no gaps; coarsening preserves weights; results match the definitions of modularity and coreness; every call returns. |

### Bounds

- `VersionManager`: three sessions give an update, an insert and one more that
  is turned away or ends out of order; a ring of four bits wraps within `MaxTs`.
  `MaxTs` stops new write timestamps, not the sessions. The run uses `FairSpec`,
  which contains `BoundedSpec`: outstanding timestamps fit in the ring (2^20 in
  the code, not enforced; see section 5). Timestamps are naturals: a 32-bit wrap
  takes 2^32 transactions without a restart. Section 4 has the proofs for any
  number of sessions and any ring.
- `Durability`: two sessions, two keys, two or three timestamps, one or two
  operations. Two of each is what it takes for a conflict, for an edge between
  vertices of different transactions, and for a commit to be half done.
  `MaxRestarts = 1` lets the system go on after a recovery; recovery from every
  state is evaluated by the invariants whether or not a crash step is left.
  `ListSize` and `Reserve` stand for 4096 and are out of reach except in the
  variants of section 5 about them. In `durability_recovery` the sessions may be
  exchanged, each with its own key.
- `EdgeUpdates`: two vertices, two values, at most two or three edges; two
  edges in one list is what an offset can get wrong.
- `MutableCsr`: three sessions on two lists, three timestamps, buffers that
  start at two entries (8 in the code), so that a third edge grows one under a
  reader; one compaction or checkpoint. Sessions and vertices are symmetric.
- `SchemaChanges`: two vertex types and an edge type between them, two property
  names, three operations after a base log, one compaction, timestamps up to 4:
  a log can reach a timestamp again after the compaction. One operation per
  transaction, as a Cypher statement has; section 5 has transactions of two.
- `Service`: three handlers on two sessions, so that one waits; six kinds of
  request (a read, an update, an insert, a schema change, one in the wrong
  mode, one that does not parse); three requests in all.
- `VertexTimestamp`: capacity up to 5, initially 3, so that `Reserve` and
  `Compact` both move things.
- `FileLock`: two handles in one process, one in another, each in any mode.
- `GraphProcedures`: two threads and two edge types; four stored graphs, one
  empty, one with a single label, one with edges both ways between two labels and
  a dropped one behind them, one with a label dropped below two others, with
  parallel edges, a self-loop, an edge back, deleted edges and vertices;
  projections of all 64 graphs on four countries, of two joined triangles, of a
  wheel, and of bibliographies with shared, missing and crowded entries; three
  levels of three
  iterations, where synchronous moves already swap nodes back and forth.

### Workloads

`Durability`, `EdgeUpdates` and `VertexTimestamp` take a constant `Workload`
that says which operations clients use; `MutableCsr` and `SchemaChanges` have
Boolean constants for the same purpose. The passing runs leave out combinations
in which the code itself does not keep the property; section 5 lists each of
them with the configuration that shows it. So the passing runs say: *outside
these combinations the property holds*. In particular the durability runs have
sessions insert keys of their own, `durability_recovery` has no checkpoint or
compaction before the crash, and `RecoversFromLog` in `durability_mid_commit`
speaks of states in which the log still has every session's file. `RecoveryAgrees`
of `SchemaChanges` speaks of logs with ascending timestamps, and with
`ReplayUnordered = FALSE` the run does not go on from a restart that replayed
another. `BuiltExact` compares with the stored graph where no dropped label lies
below a valid one.
`RecoversCommitted` says nothing about a state from which `Open` fails, which is
`RecoverySucceeds`' subject.

Deadlock is not checked where the instance really stops: `DurabilityMidCommit`
(a process that died in `TornAppend` after its last restart stays dead),
`MutableCsr`, `SchemaChanges`, `Service` and `GraphProcedures` (the bounds on
transactions, operations, requests and calls end the behaviours; in the last two
the liveness properties cover waiting for ever), and `AutoCompactionExclusive`
(a lost increment can leave everyone waiting). The other runs check it.

### Fairness

- `FairSpec` (`VersionManager`): weak fairness of each session's steps within a
  transaction. Threads are scheduled and transactions end, since their
  destructors release the timestamp. No fairness is assumed of beginning one.
  `GateReopens` is conditional on updates ceasing: the code polls the gate, and
  a poll can miss every opening while updates keep coming.
- `SFairSpec` (`Service`): weak fairness of each handler's own steps. Nothing is
  assumed of arriving requests or of spurious wakeups, so `RequestAnswered`
  needs the signals of the pool.
- `PFairSpec` (`GraphProcedures`): a running procedure goes on. Nothing is
  assumed of calls.

## 4. What is proved

TLAPS checks the theorems for every value of the constants.

**`VersionManagerProofs`** (any finite nonempty set of sessions, any ring):
`TypeCorrect`, `UpdateIsExclusive` and `GateCountExact` state that `TypeOK`,
`UpdateExclusive` and `GateCount` are invariants of `Spec`, also where the ring
overflows. Neither of the last two is inductive alone: that an update finds the
gate at `-thread_num_` proves it alone only because the counter is exact, and
the counter is exact only because one update subtracts at a time. The inductive
invariant `GateInv` (`GateInvariant`) adds

- `ModeOK`: which program points go with which kind of transaction;
- `SlotOK`: the compare-and-swap slot has one holder, and a free slot has none;
- `UpdateLast`: nobody took a timestamp after a running update, so that
  `revert_update_timestamp` takes the branch that reopens the gate.

The proof has one case per action. `CountStep` reduces a change of the
cardinality to the session that moved.

The second part of the module is about `BoundedSpec`: `SnapshotsAreComplete`
(`SnapshotComplete`), `RingIsExact` (`RingExact`), `UpdateHoldsNext`
(`UpdateIsNext`), `TimestampsAreUnique`, `NothingIsStranded`,
`SnapshotOnlyAdvances`, and `RefinesOracle` (`ImplementsOracle`): the version
manager implements `SnapshotOracle`. The inductive invariant is `SnapInv`:
`GateInv`, `FitsRing`, `RingExact`, and `TsOK` (held write timestamps are
different and lie between `read_ts_` and `write_ts_`). It is needed because
`release_insert_timestamp` reads a bit and takes it for a timestamp: that is
right only if the bits are exactly those of the released timestamps, and these
are told apart by their bits only while the outstanding ones fit in the ring
(lemma `SameBit`). `Advance` and `Frontier` say where the loop over the ring
stops; `OracleActions` maps every action to a step of the oracle or a stutter.

**`ServiceProofs`** (any finite sets of handlers and sessions, any queries,
flags and requests, spurious wakeups included): `PoolIsExact` (`PoolExact`),
`WakeupsAreNotLost` (`NoLostWakeup`), `PlansAreCurrent` (`PlanCurrent`) and
`CachesAreCurrent`. The invariant has three layers. `PoolInv`: a handler has a
session exactly while it is inside `Eval`, and no two have the same. `TxnInv`,
which needs it: a handler inside a transaction holds a timestamp of its own, an
update is alone, and uncommitted changes belong to an update about to commit.
`CacheInv`, which needs both: outside the three steps in which a committing
schema change clears the caches, every cached plan that a session would trust is
of the current schema. A plan compiled without the lock is still current when it
is stored only because its session has been in a transaction all the while,
which keeps schema changes out. The exclusion is the one `SnapshotOracle`
specifies and `RefinesOracle` proves of the version manager.

**`VertexTimestampProofs`** (any capacity, any `DELETED`, and `Workload = {}`:
no vertex below the border is inserted again): `VertexTypeCorrect` (`VTypeOK`),
`ForeachIsExact` (`ForeachExact`), `CountIsExact` (`CountExact`) and `RefinesMap`
(`MapSpec`). `StepIsMapStep` shows that every step changes the timestamp of one
vertex, resets all of them or changes none; `Compact` is the case in which every
entry changes its index and the map only resets. Scans and the refinement follow
from it; the count follows from types alone, by matching the entries of the array
with the vertices above the border (`CountOfTable`).

**`MutableCsrProofs`** (any finite set of sessions, any
vertices, capacities and numbers of transactions): `ReadersFindTheirEdges`
(`ReadsComplete`), `ListsAreExact` (`ListExact`) and `CountsAlwaysAgree`
(`CountsAgree`, where `CheckpointDeleted` is false; with it there is a
counterexample, section 5). The invariant `CsrInv` (`CsrInvHolds`) has four
layers over the types:

- `TxnInv`: who may hold timestamps together, from the oracle;
- `PutInv`: a list has one `put_edge` in progress, the holder of its lock, and
  the slot it fills is the last one counted;
- `SlotInv`: every other slot below the size holds an edge, no edge stands in
  two of them, and each carries the timestamp of its transaction, one older than
  every writer (compaction resets them) or the deletion mark;
- `WalkInv`: the buffer a reader loaded, which may be several growths old, still
  carries every entry of its snapshot (`Carries`), and what it has passed it has
  seen. This is what makes a walk without a lock right: entries never move within
  a buffer, a copy is complete before it is published, and the size a reader
  loads after the buffer may be too large for it only in slots of later edges.

Steps that rewrite lists in place need the update to be alone (`UpdateAlone`).
`CountInv` adds that `edge_num_` is the number of edges, and that an undo takes
back an edge that is there or brings back one that is not.

**`GraphProceduresProofs`** states the results about the procedures, for any stored
graphs, bibliographies, threads, labels and configurations. What the steps of the
algorithms keep is proved in `ComputerProofs` (the build and k-core) and in
`LouvainProofs`.

*The parallel build.* `BuildIsExact` (`BuiltExact`). `IdsInRange`, `IdsDiffer` and
`IdsOnto` show that global ids number the vertices of the labels with an offset,
dropped labels and deleted vertices notwithstanding, and `SequentialExact` that
the sequential build then is the stored graph if the ids of the valid labels have
no gaps (`LabelsDense`). The invariant `BInv` speaks of the two *ends* of
every visible edge. In the first pass the count of a vertex is the number of its
ends of handled edges. In the second there is an assignment of slots to the ends
taken so far (`SlotMap`): different at one vertex, without gaps up to the cursor,
written exactly for the handled edges. `CursorCounts` concludes that a cursor
never passes the end of its list, `TakeSlot` is the `fetch_add`, and `AllHandled`
turns the assignment into the equation with the sequential build. `CallOK` says
that no procedure returns while the threads of a build are running.

*k-core.* `CorenessIsExact` (`CorenessExact`) and `BinsAreExact` (`BinsExact`). The
invariant `PeelInv` says that `vert` and `pos` are inverse permutations, that
`vert` is sorted by degree, that `bin` points to the first vertex of each degree
above the level reached, and, for the result: a peeled vertex is in the core of
its degree and has at most that many neighbours behind it; one not yet peeled is
in the core of the level, and its degree is the number of neighbours it has left.
`NotInHigherCore` is the argument why no peeled vertex belongs to a higher core
(the least position in such a core would have too few neighbours behind it).
`SortIsPermutation` and `SortFillsBins` establish the invariant from the counting
sort, and `SequentialUndirected`, `CoauthorUndirected` and `OrgProjectUndirected`
show that every graph handed to the procedure is undirected, which it relies on
and nowhere checks.

*Louvain.* `CoarseIsExact` (`CoarseExact`), `ResultIsExact` (`ResultExact`) and
`EveryMovePays` (`MovesPay`). `LInv` says that the nodes of every level partition
the vertices of level 0 and that the weights between them and their weighted
degrees are sums over those vertices (`CoarseOf`), so that it does not matter how
often the graph was coarsened; and that the communities are numbered without gaps
when the result is composed (`Onto`). `MInv` says that `comm_total` holds the
weighted degrees of each community of the partition that `LocalMove` reads. The
modularity is written as a sum over ordered pairs of vertices (`Together`);
`TogetherSplit` isolates the pairs that the move of one node adds and removes,
`GainPays` turns the comparison of two gains into a comparison of these sums, and
`ChoicePays` concludes that a node that changes its community would, moving
alone, raise the modularity, although its own weight and its self-loop are part of
what `best_delta` compares. That rests on symmetric weights: `SequentialWeighted`,
`ListsWeighted`, `CoauthorWeighted`, `InfraWeighted` and `DatasourceWeighted` show
that every graph handed to the procedure is finite and has them. Weights and the
resolution are natural numbers in these theorems; the code has doubles, and what
rounding does to a comparison is not covered.

**`FileLockProofs`** (any finite set of databases, any processes, crashes
included): `TableIsExact` (`RegisteredExact`) and `WritersAreAlone`
(`ExclusiveIfProtected`). The invariant `LockInv` says that the table entry of a
process is absent, zero for its one writer, or the number of its readers; that
the POSIX lock of a process with a protected database has that database's mode;
and that two processes hold the file together only for reading. That the table
lets only readers share a process is what keeps the one lock per process right
for all of them.

Assumptions: `SessionsAssumption`, `RingAssumption`, `TsAssumption`,
`VertexAssumption`, `ServiceAssumption`, `LockAssumption`, `MutableCsrAssumption`,
`LabelsAssumption`, `NoEdgeAssumption`, `StoredAssumption` (a stored edge starts at
a vertex of its type, and the types have label ids below `vertex_label_num`),
`LouvainParameters` (the bounds on levels and passes, and a natural number as
resolution) and `BibliographyAssumption` (finitely many works, authors, services
and organizations), which TLC evaluates in the runs.

**Model-checked only.** Liveness (`UpdateDrains`, `GateReopens`,
`RequestAnswered`, `CallReturns`) is beyond the prover. `Durability`,
`EdgeUpdates` and `SchemaChanges` state what folding a log, a list or an undo
stack computes; their properties are checked on the instances of section 3.

## 5. Where the code and its documentation disagree

The run `auto_compaction_exclusive` shows such a disagreement and is the finding
of `PROJECT.json`. Each row below is a further counterexample that TLC finds in
seconds; most are the reason why a passing run leaves a combination out. A name
in the first column is a cfg of this directory; otherwise the column says how to
change the cfg of a run (only the named property is checked).

| Configuration | Property violated | What happens | Cause |
|---|---|---|---|
| `VersionManager` with `Spec`, `RingSize = 2`, `InitTs = 0`, `MaxTs = 5` | `SnapshotComplete` | more outstanding timestamps than ring bits | `release_insert_timestamp` takes the bit of a later timestamp for that of a running insert (`version_manager.cc:98`). |
| `DurabilityCheckpointLoss` | `RecoversCommitted` | a session commits after a `CHECKPOINT` | Its WAL file was removed under it (`property_graph.cc:1040`); `doc/source/transaction/transaction.md:154`: "Crash recovery automatically replays WAL to restore consistent state". |
| the same with `CheckpointAtomic` | `CheckpointAtomic` | a crash inside `Dump` | The old checkpoint is removed before the new one is linked (`file_utils.cc:313`). |
| `DurabilityCheckpointEdges` | `CheckpointComplete` | edges of a checkpoint without compaction | Edges keep their timestamps, readers start at 0 (`edge_table.cc:603`). |
| `DurabilityRecovery` with `Workload = {"compaction"}` | `RecoversCommitted` | a compaction before the crash | Timestamps start over, the log stays (`compact_transaction.cc:64`). |
| `DurabilityRecovery` with `Reserve = 1` | `RecoverySucceeds` | a full vertex table | Inserts do not call `EnsureCapacity`; logging comes first (`vertex_table.cc:125`). |
| `DurabilityRecovery` with `ListSize = 1` | `RecoverySucceeds` | more than 4096 timestamps before an update | `insert_wal_list_` is read without a bound (`local_wal_parser.cc:111`). |
| `DurabilitySharedKeys` | `RecoverySucceeds` | two sessions insert one key | The record is appended before `IngestWal` finds the key taken; replaying it throws (`insert_transaction.cc:155`). |
| the same with `MaxOps = 2` | `AllOrNothing` | the same | The operations before the one that throws stay (`insert_transaction.cc:160`). |
| `DurabilityTornRecord` | `RecoverySucceeds` | a crash inside `append` | Nothing tells a torn payload from a whole one (`local_wal_parser.cc:66`). |
| `DurabilityMidCommit` | `NumbersExact` | an insert links a vertex that a concurrent insert added after its own first one | Numbers from `added_vertices_base_` on are taken for the transaction's own, also those the table has handed out since (`insert_transaction.cc:69`): the edge goes to another vertex, or `CHECK` fails where `insert_transaction.h:124` says "false if vertices don't exist". Queries in insert mode cannot name existing vertices; callers of `InsertTransaction` can. |
| `DurabilityRecovery` with `Workload = {"reinsert"}`, `MaxOps = 2`, `MaxRestarts = 0` | `UndoRestores` | a deleted key added again | Its old property values are overwritten and not logged (`undo_log.cc:28`). |
| `EdgeUpdatesCommit` with `Labels = {"A", "B"}`, `Tables <- MCBetween`, `Workload = {"vertex"}`, `MaxTs = 2` | `NoDangling` | `DeleteVertex` with edges between two labels | The sides are swapped (`property_graph.cc:718`). |
| `EdgeUpdatesCommit` with `Workload = {"vertex", "abort"}`, `MaxTs = 2` | `UndoRestores` | aborting `DeleteVertex` | Incoming edges within one label are not collected (`update_transaction.cc:121`). |
| `EdgeUpdatesSetOffset` | `Mirrored` | a property update in a list with tombstones | An offset that counts visible edges is used on slots: the two directions change different edges (`generic_view_utils.cc:177`). |
| the same with `Workload = {"delete_all", "tombstones"}` | `Mirrored` | `DeleteEdges` with tombstones | One offset counts visible edges, the other slots (`update_transaction.cc:820`). |
| `EdgeUpdatesReplayOrder` | `ReplayExact` | replay after concurrent inserts | Replay orders slots by timestamp (`update_transaction.cc:841`). |
| the same with `Workload = {"batch", "abort"}` | `ReplayExact` | replay after an abort | Aborted edges leave slots that replay does not (`update_transaction.cc:805`). |
| the same with `Workload = {"abort", "parallel"}` | `UndoRestores` | equal parallel edges | The search by data and timestamp finds the first for both (`update_transaction.cc:766`). |
| the same with `Bundled = FALSE`, `Workload = {"set", "batch"}` | `UndoRestores` | unbundled properties | Only the outgoing slot is stamped (`edge_table.cc:710`). |
| `MutableCsr` with `MaxRewrites = 0` | `ReadsOnlySnapshot` | a reader visits an entry being written | The size is raised before the entry has its timestamp (`mutable_csr.h:138`); `generic_view.h:66`: "Only edges with `timestamp <= read_timestamp` are visible". |
| `MutableCsr` with `CheckpointDeleted = TRUE` | `CountsAgree` | a `CHECKPOINT` of lists with deleted entries | `dump` writes the deleted entries too, and opening compares their number with `edge_num_`; `transaction.md:81` says a checkpoint persists the changes. |
| `VertexTimestampMap` with `Limit = 4`, `Initial = 2`, `DELETED = 3`, `Workload = {"reinsert"}` | `KeptVisible` | a checkpointed vertex inserted again | Growing downwards keeps the front of the entries (`vertex_timestamp.h:63`). |
| the same | `RemovedCounted` | the same | The vertex stays in `removed_vertices_` (`vertex_timestamp.h:64`). |
| the same with `Workload = {"embedded"}` | `ForeachExact` | the same, at timestamp 0 | `InsertVertex` returns at once (`vertex_timestamp.h:58`). |
| `FileLockReaders` | `Exclusive` | one of two readers of a process closes | `F_UNLCK` is for the whole process (`file_lock.cc:136`). |
| the same with `Modes <- MCWriters` | `Exclusive` | a failed second open in the writer's process | Closing its descriptor drops the lock (`file_lock.cc:94`). |
| `SchemaChangesNewLabel` | `RecoveryAgrees` | a transaction that created a type aborts | The label id stays taken (`schema.cc:868`, `undo_log.cc:20`); replay, which never sees the transaction, numbers later types differently, and the log names data by label id. |
| `SchemaChangesLoop` | `NoDanglingEdges` | dropping a type with edges to itself | The label is tombstoned first, so the loop over valid labels skips it (`property_graph.cc:621`). |
| `SchemaChangesAddBackAbort` | `AbortRestores` | one transaction drops a type or a property and creates it again, then aborts | Undo records name what the transaction's other changes moved (`undo_log.cc`). |
| the same | `AbortCompletes` | the same | Undoing a deletion that was already taken back throws in `Abort`. |
| the same | `RecoveryAgrees` | the same, committed | The property stands twice, once deleted softly, and commit no longer deletes it; replay deletes at once. |
| `SchemaChanges` with `MaxOps = 2`, `RenameOnto = TRUE` | `TablesMatch` | renaming a property to a name in use | `rename_properties` does not look (`schema.cc:96`). |
| `SchemaChanges` with `MaxOps = 2` | `PlanIdsCurrent` | a compaction after a type was dropped | Labels are renumbered (`property_graph.cc:866`), the planner keeps the ids it has. |
| `SchemaChanges` with `MaxOps = 2` | `ReplayAgrees` | a commit between a compaction and the crash | Timestamps start over (`compact_transaction.cc:64`) and the log is sorted by them (`local_wal_parser.cc:90`), so that the commit is replayed before or beside earlier ones; `doc/source/transaction/transaction.md:154`: "Crash recovery automatically replays WAL to restore consistent state". |
| `ServiceSink` | `SinkSeesSnapshot` | an update commits between a reader's release and its sink | Results are sent after the transaction ended (`neug_db_session.cc:184`); `read_transaction.h:51`: "Read-only transaction for consistent snapshot access to graph data." |
| the same | `SchemaReplyCommitted` | `GetSchema` beside a running schema change | It reads the schema outside any transaction (`brpc_service_mgr.cc:194`). |
| `GraphProcedures` | `EveryVertexNumbered` | a type dropped below another | Offsets are given to the label ids below `vertex_label_num`, which is the number of labels left (`louvain_functions.h:508`, `schema.cc:448`); `louvain_functions.h:504`: "global_id = label_offsets_[label] + vid  for any valid label". |
| `GraphProceduresFiles` | `ResultFileIntact` | two calls within a millisecond; a file that cannot be opened | The name is the time in milliseconds and k-core does not look at the stream; `louvain_functions.h:1463`: "Helper: generate unique output file path". |

## 6. What is not modelled

The mapped definitions cover a small share of the repository's lines. What is
modelled is the part with protocols: shared state that several actors change,
state that must survive a crash, and algorithms with a definition to compare
with. Most of the code is something else:

- **Compiler, planner, execution operators** (the largest part): pure functions
  of a query and a snapshot over an unbounded language. They have no state of
  their own between requests, and their correctness is that of Cypher's
  semantics, which no small instance covers. Exceptions that are modelled: the
  operators that compute edge offsets, the flags that choose a transaction, and
  the caching of plans.
- **Loaders, JSON and Parquet readers, language bindings, HTTP handlers,
  configuration**: I/O, format conversion and forwarding.
- **Containers, allocators, typed columns**: memory mapping and values; the
  protocols above see a column as one value per vertex. The doubling of the WAL
  file and the dummy log have no effect on which records are found. The hash
  table of the key index is a map.
- **Single-edge and immutable CSRs, sorted lists, batch loading**: `EdgeUpdates`
  and `MutableCsr` have the mutable CSR with multiple edges, which transactions
  use.
- **Edge properties in schema changes**: updated in `EdgeUpdates`, never added,
  renamed or dropped; their schema operations mirror those of vertex properties.
- **Embedded query processor, connections**: a read-write embedded database has
  one connection, so the interleavings of the service do not arise; every state
  change of `ConnectionManager` is one critical section.
- **Sampled match**: randomised estimation in floating point, whose result is a
  distribution.

Abstractions in what is modelled: atomics are sequentially consistent, as the
code's default memory order; a WAL append is on disk when it returns (the
writer syncs), except in `TornAppend`; keys, values and payloads are model
values; one vertex label and one edge label in `Durability`; the weights and the
resolution of Louvain are natural numbers where the code's are doubles; stored
graphs have no edge type with a label id of `vertex_label_num` or more, for which
`BuildGraph` reads behind `label_offsets_`; a pipeline of the service is one step.

## 7. Further work

- `SnapshotStable` of `Durability` (vertices) for any number of sessions: it needs an
  invariant about what an insert in progress has written, and no induction over
  data.
- `IdIndexer`: probing and growth as operators checked against a map.
- Schema changes of edge properties, in the manner of vertex properties.
