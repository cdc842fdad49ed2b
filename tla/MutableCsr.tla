----------------------------- MODULE MutableCsr -----------------------------
(***************************************************************************)
(* The adjacency lists of one MutableCsr under the transactions of the     *)
(* service: inserts append to the lists while readers walk them, updates   *)
(* delete and undo alone, compaction and checkpoints rewrite the lists.    *)
(* Timestamps come from SnapshotOracle.                                    *)
(*                                                                         *)
(* A transaction adds at most one edge, so its timestamp names the edge    *)
(* and stands for the neighbour and the data of its entry.                 *)
(***************************************************************************)
EXTENDS SnapshotOracle, FiniteSets, Sequences, Functions

CONSTANTS
  Vertices,   \* the source vertices
  MinCap,     \* smallest capacity put_edge allocates (8)
  MaxTs,      \* bound: no writer begins once next exceeds it
  MaxRewrites,  \* bound on compactions and checkpoints
  CheckpointDeleted \* whether CHECKPOINT, which does not compact first, is
                    \* used while the lists hold deleted entries

ASSUME MutableCsrAssumption ==
  /\ IsFiniteSet(Sessions) /\ 0 \notin Sessions
  /\ InitTs \in Nat /\ MaxTs \in Nat /\ MinCap \in Nat \ {0, 1}
  /\ MaxRewrites \in Nat /\ CheckpointDeleted \in BOOLEAN

VARIABLES
  bufs,      \* bufs[v]: the buffers v's list had, the current one last; the
             \* arena never frees one
  size,      \* adj_list_size_
  lock,      \* locks_: the session that holds the lock, 0 when free
  edge_num,  \* edge_num_
  put,       \* the put_edge of each writer
  walk,      \* the NbrList each reader walks
  undo,      \* what the running update transaction has to undo
  live,      \* history: the edges put and not deleted
  rewrites,  \* how often the lists were compacted or dumped
  thrown     \* whether compact or open_internal threw

cvars == <<vars, bufs, size, lock, edge_num, put, walk, undo, live, rewrites, thrown>>
lists == <<bufs, size, lock, edge_num, live>>

INVALID_TIMESTAMP == MaxTs + Cardinality(Sessions) + 1

\* Arena memory is a fresh mapping.
Zeroed == [nbr |-> 0, ts |-> 0]

Garbage == -1

Buffer(v) == bufs[v][Len(bufs[v])]

NoPut == [pc |-> "none", v |-> 0, i |-> 0]

NoWalk == [pc |-> "none", v |-> 0, b |-> 0, n |-> 0, i |-> 0, seen |-> <<>>]

NoUndo == [op |-> "none", v |-> 0, i |-> 0]

CInit ==
  /\ Init
  /\ bufs = [v \in Vertices |-> <<<<>>>>]
  /\ size = [v \in Vertices |-> 0]
  /\ lock = [v \in Vertices |-> 0]
  /\ edge_num = 0
  /\ put = [s \in Sessions |-> NoPut]
  /\ walk = [s \in Sessions |-> NoWalk]
  /\ undo = NoUndo
  /\ live = {}
  /\ rewrites = 0
  /\ thrown = FALSE

-----------------------------------------------------------------------------

(***************************************************************************)
(* put_edge, called by InsertTransaction::IngestWal and by AddEdge of an   *)
(* update transaction                                                      *)
(***************************************************************************)
SetPc(s, pc) == put' = [put EXCEPT ![s].pc = pc]

PutOnly == UNCHANGED <<vars, walk, undo, rewrites, thrown>>

\* Fault: the list is not locked.
LockListFree(s, v) ==
  /\ s \in Writers /\ put[s].pc = "none" /\ undo = NoUndo
  /\ lock' = [lock EXCEPT ![v] = s]
  /\ put' = [put EXCEPT ![s] = [pc |-> "locked", v |-> v, i |-> 0]]
  /\ UNCHANGED <<bufs, size, edge_num, live>> /\ PutOnly

LockList(s, v) ==
  /\ s \in Writers /\ put[s].pc = "none" /\ undo = NoUndo
  /\ lock[v] = 0
  /\ lock' = [lock EXCEPT ![v] = s]
  /\ put' = [put EXCEPT ![s] = [pc |-> "locked", v |-> v, i |-> 0]]
  /\ UNCHANGED <<bufs, size, edge_num, live>> /\ PutOnly

Max2(a, b) == IF a > b THEN a ELSE b

\* The list is full: half as much again, copied into the session's arena.
GrowList(s) ==
  LET v == put[s].v
      cap == Len(Buffer(v))
      grown == [i \in 1..Max2(cap + cap \div 2, MinCap) |->
                  IF i <= size[v] THEN Buffer(v)[i] ELSE Zeroed]
  IN  /\ put[s].pc = "locked"
      /\ size[v] = cap
      /\ bufs' = [bufs EXCEPT ![v] = Append(@, grown)]
      /\ SetPc(s, "room")
      /\ UNCHANGED <<size, lock, edge_num, live>> /\ PutOnly

HasRoom(s) == put[s].pc = "locked" /\ size[put[s].v] < Len(Buffer(put[s].v))

\* The size counts the entry before it is written.
CountEntry(s) ==
  LET v == put[s].v
  IN  /\ put[s].pc = "room" \/ HasRoom(s)
      /\ size' = [size EXCEPT ![v] = @ + 1]
      /\ put' = [put EXCEPT ![s] = [pc |-> "counted", v |-> v, i |-> size[v] + 1]]
      /\ UNCHANGED <<bufs, lock, edge_num, live>> /\ PutOnly

\* Writes a field of the entry of s in the buffer the list has now.
Written(v, i, entry) == [bufs EXCEPT ![v][Len(bufs[v])][i] = entry]

WriteNeighbor(s) ==
  LET p == put[s]
  IN  /\ p.pc = "counted"
      /\ bufs' = Written(p.v, p.i, [Buffer(p.v)[p.i] EXCEPT !.nbr = at[s]])
      /\ SetPc(s, "named")
      /\ UNCHANGED <<size, lock, edge_num, live>> /\ PutOnly

\* The timestamp makes the entry an edge; the edge is counted and the lock
\* released.
WriteTimestamp(s) ==
  LET p == put[s]
  IN  /\ p.pc = "named"
      /\ bufs' = Written(p.v, p.i, [Buffer(p.v)[p.i] EXCEPT !.ts = at[s]])
      /\ edge_num' = edge_num + 1
      /\ lock' = [lock EXCEPT ![p.v] = 0]
      /\ live' = live \union {<<p.v, at[s]>>}
      /\ SetPc(s, "done")
      /\ undo' = IF phase[s] = "update" THEN [op |-> "put", v |-> p.v, i |-> p.i]
                 ELSE undo
      /\ UNCHANGED <<vars, size, walk, rewrites, thrown>>

-----------------------------------------------------------------------------

(***************************************************************************)
(* GenericView::get_edges and the walk of NbrIterator                      *)
(***************************************************************************)
ReadOnly == UNCHANGED <<vars, lists, put, undo, rewrites, thrown>>

LoadList(s, v) ==
  /\ phase[s] = "read" /\ walk[s].pc = "none"
  /\ walk' = [walk EXCEPT ![s] = [pc |-> "list", v |-> v, b |-> Len(bufs[v]),
                                  n |-> 0, i |-> 0, seen |-> <<>>]]
  /\ ReadOnly

LoadDegree(s) ==
  /\ walk[s].pc = "list"
  /\ walk' = [walk EXCEPT ![s].pc = "walk", ![s].n = size[walk[s].v], ![s].i = 1]
  /\ ReadOnly

\* The i-th entry of a buffer.  Behind its end any memory may be.
Entries(v, b, i) ==
  IF i <= Len(bufs[v][b]) THEN {bufs[v][b][i]}
  ELSE [nbr : {Garbage}, ts : {0, INVALID_TIMESTAMP}]

\* Fault: the edges of the newest transaction of the snapshot are skipped.
VisibleBefore(ts, time) == ts < time

Visible(ts, time) == ts <= time

VisitEntry(s) ==
  LET w == walk[s]
  IN  /\ w.pc = "walk" /\ w.i <= w.n
      /\ \E e \in Entries(w.v, w.b, w.i) :
           walk' = [walk EXCEPT ![s].i = @ + 1,
                                ![s].seen = IF Visible(e.ts, at[s])
                                            THEN Append(@, e.nbr) ELSE @]
      /\ ReadOnly

WalkDone(s) == walk[s].pc = "walk" /\ walk[s].i > walk[s].n

-----------------------------------------------------------------------------

(***************************************************************************)
(* Update transactions: at most one operation each, then Commit or Abort   *)
(***************************************************************************)
Fresh(s) == phase[s] = "update" /\ put[s].pc = "none" /\ undo = NoUndo

\* delete_edge of the entry at an offset.
delete_edge(v, i) ==
  /\ bufs' = Written(v, i, [Buffer(v)[i] EXCEPT !.ts = INVALID_TIMESTAMP])
  /\ edge_num' = edge_num - 1
  /\ live' = live \ {<<v, Buffer(v)[i].nbr>>}

\* Fault: the edge that comes back is not counted.
revert_delete_edgeUncounted(v, i, ts) ==
  /\ bufs' = Written(v, i, [Buffer(v)[i] EXCEPT !.ts = ts])
  /\ edge_num' = edge_num
  /\ live' = live \union {<<v, Buffer(v)[i].nbr>>}

revert_delete_edge(v, i, ts) ==
  /\ bufs' = Written(v, i, [Buffer(v)[i] EXCEPT !.ts = ts])
  /\ edge_num' = edge_num + 1
  /\ live' = live \union {<<v, Buffer(v)[i].nbr>>}

UpdateDeleteEdge(s, v, i) ==
  /\ Fresh(s)
  /\ i <= size[v] /\ Buffer(v)[i].ts <= at[s]
  /\ delete_edge(v, i)
  /\ undo' = [op |-> "delete", v |-> v, i |-> i]
  /\ UNCHANGED <<vars, size, lock, put, walk, rewrites, thrown>>

\* revert_changes and release.
AbortUpdate(s) ==
  /\ phase[s] = "update" /\ undo # NoUndo
  /\ IF undo.op = "put" THEN delete_edge(undo.v, undo.i)
     ELSE revert_delete_edge(undo.v, undo.i, at[s])
  /\ undo' = NoUndo
  /\ put' = [put EXCEPT ![s] = NoPut]
  /\ End(s)
  /\ UNCHANGED <<size, lock, walk, rewrites, thrown>>

-----------------------------------------------------------------------------

(***************************************************************************)
(* Compaction, checkpoints                                                 *)
(***************************************************************************)
\* The slots of lists of these sizes, and the sum of the sizes.
Slots(sizes) == UNION {{v} \X (1..sizes[v]) : v \in Vertices}

Total(sizes) == Cardinality(Slots(sizes))

\* The slots of v's list that are not deleted, and how many up to the i-th.
Kept(v) == {i \in 1..size[v] : Buffer(v)[i].ts # INVALID_TIMESTAMP}

Rank(v, i) == Cardinality({j \in Kept(v) : j <= i})

CompactSizes == [v \in Vertices |-> Cardinality(Kept(v))]

\* compact moves the live entries to the front, in place and in order, and
\* reset_timestamp shows them to every reader.  What was behind them stays.
CompactBuffer(v) ==
  [i \in 1..Len(Buffer(v)) |->
     IF i <= Cardinality(Kept(v))
     THEN [nbr |-> Buffer(v)[CHOOSE j \in Kept(v) : Rank(v, j) = i].nbr, ts |-> 0]
     ELSE Buffer(v)[i]]

\* EdgeTable::Compact; compact throws unless it finds edge_num_ edges.
Compact ==
  /\ size' = CompactSizes
  /\ bufs' = [v \in Vertices |-> [bufs[v] EXCEPT ![Len(bufs[v])] = CompactBuffer(v)]]

\* dump writes every list up to its capacity, open_internal maps the lists
\* again and throws unless the sizes add up to edge_num_.
DumpAndOpen(buffers, sizes) ==
  /\ size' = sizes
  /\ bufs' = [v \in Vertices |-> <<buffers[v]>>]

Rewrite(sizes) ==
  /\ rewrites < MaxRewrites
  /\ rewrites' = rewrites + 1
  /\ thrown' = (Total(sizes) # edge_num)
  /\ UNCHANGED <<lock, edge_num, put, walk, undo, live>>

\* CompactTransaction::Commit.
CommitCompaction(s) ==
  /\ Fresh(s)
  /\ Compact
  /\ Rewrite(CompactSizes)
  /\ End(s)

\* UpdateTransaction::CreateCheckpoint, for a CHECKPOINT statement.
CreateCheckpoint(s) ==
  /\ Fresh(s)
  /\ CheckpointDeleted \/ CompactSizes = size
  /\ DumpAndOpen([v \in Vertices |-> Buffer(v)], size)
  /\ Rewrite(size)
  /\ End(s)

\* NeugDB::Close with compact_on_close, compact_csr and checkpoint_on_close,
\* then Open.  Timestamps go on here: compaction has made every edge older than
\* every reader, so that starting over with 1 would not tell them apart.
CloseAndOpen ==
  /\ \A s \in Sessions : phase[s] = "idle"
  /\ DumpAndOpen([v \in Vertices |-> CompactBuffer(v)], CompactSizes)
  /\ Rewrite(CompactSizes)
  /\ UNCHANGED vars

-----------------------------------------------------------------------------

Begin(s) ==
  /\ \/ BeginRead(s)
     \/ next <= MaxTs /\ (BeginInsert(s) \/ BeginUpdate(s))
  /\ UNCHANGED <<lists, put, walk, undo, rewrites, thrown>>

\* A transaction commits, its put_edge being over, or a reader is through.
Finish(s) ==
  /\ phase[s] # "idle"
  /\ put[s].pc \in {"none", "done"}
  /\ walk[s].pc = "none" \/ WalkDone(s)
  /\ End(s)
  /\ put' = [put EXCEPT ![s] = NoPut]
  /\ walk' = [walk EXCEPT ![s] = NoWalk]
  /\ undo' = IF phase[s] = "update" THEN NoUndo ELSE undo
  /\ UNCHANGED <<lists, rewrites, thrown>>

Step(s) ==
  \/ Begin(s) \/ Finish(s)
  \/ \E v \in Vertices : LockList(s, v) \/ LoadList(s, v)
  \/ GrowList(s) \/ CountEntry(s) \/ WriteNeighbor(s) \/ WriteTimestamp(s)
  \/ LoadDegree(s) \/ VisitEntry(s)
  \/ \E v \in Vertices, i \in 1..MaxTs : UpdateDeleteEdge(s, v, i)
  \/ AbortUpdate(s) \/ CommitCompaction(s) \/ CreateCheckpoint(s)

CNext ==
  \/ \E s \in Sessions :
       /\ ~thrown
       /\ Step(s)
  \/ ~thrown /\ CloseAndOpen

CSpec == CInit /\ [][CNext]_cvars

-----------------------------------------------------------------------------

\* A reader's walk over a list finds every edge of its snapshot, however the
\* writers grow and extend the list meanwhile: put_edge never moves an entry
\* within a buffer, copies the list before it publishes the new buffer, and
\* publishes that before it raises the size.
ReadsComplete ==
  \A s \in Sessions : WalkDone(s) =>
    \A x \in live : x[1] = walk[s].v /\ x[2] <= at[s] =>
      x[2] \in Range(walk[s].seen)

\* And it finds each once and nothing else: no edge of a transaction that has
\* not committed, no half-written entry and no memory behind the list.
ReadsOnlySnapshot ==
  \A s \in Sessions :
    LET seen == walk[s].seen
    IN  /\ \A i \in DOMAIN seen : seen[i] <= at[s] /\ <<walk[s].v, seen[i]>> \in live
        /\ IsInjective(seen)

\* A list no put_edge is working on holds every edge put on it and not deleted
\* exactly once: writers that fill and grow the same list lose nothing of each
\* other, and deletions, undo, compaction and reopening keep the rest.
ListExact ==
  \A v \in Vertices : lock[v] = 0 =>
    LET edges == {x \in live : x[1] = v}
    IN  /\ {Buffer(v)[i].nbr : i \in Kept(v)} = {x[2] : x \in edges}
        /\ Cardinality(Kept(v)) = Cardinality(edges)

\* compact and open_internal find as many edges as edge_num_ counts, so neither
\* throws.
CountsAgree == ~thrown
=============================================================================
