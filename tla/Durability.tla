----------------------------- MODULE Durability -----------------------------
(***************************************************************************)
(* Insert, update and compaction transactions of the service, the          *)
(* write-ahead log they append to, checkpoints, crashes and the recovery   *)
(* of NeugDB::Open.  Timestamps come from SnapshotOracle, which            *)
(* VersionManager implements.                                              *)
(*                                                                         *)
(* The graph is one vertex label with one property and one edge label.     *)
(* WAL files are a set of records: recovery orders records by timestamp.   *)
(***************************************************************************)
EXTENDS SnapshotOracle, FiniteSets, Sequences, SequencesExt, FiniteSetsExt

CONSTANTS
  Keys, Vals,
  KeysOf,      \* KeysOf[s]: the keys the client of session s inserts
  Workload,    \* what else happens: a subset of AllWorkloads
  ListSize,    \* initial size of insert_wal_list_ (4096)
  Reserve,     \* vertices a table has room for when opened (4096)
  MaxTs,       \* bound: no transaction begins once next exceeds it
  MaxOps,      \* bound on the operations of a transaction
  MaxRestarts   \* bound on crashes, restarts and compactions

AllWorkloads == {"checkpoint", "compaction", "torn_write", "reinsert"}

ASSUME WorkloadAssumption == Workload \subseteq AllWorkloads

VARIABLES
  graph,    \* the in-memory PropertyGraph
  arc,      \* arc_: the redo operations of each session's transaction
  base,     \* added_vertices_base_ of its insert transaction, -1 until set
  undo,     \* undo_logs_ of its update transaction, top first
  pos,      \* how much of a logged insert is ingested, -1 before the append
  linked,   \* whether the session's WAL file is still in the WAL directory
  wal,      \* the records of the files in the WAL directory
  ckpt,     \* what the checkpoint directory holds
  dump,     \* how far PropertyGraph::Dump has come
  failed,   \* timestamps of inserts whose Commit threw, since the last start
  restarts  \* how often timestamps started over or the process did

dvars == <<vars, graph, arc, base, undo, pos, linked, wal, ckpt, dump,
           failed, restarts>>

\* Larger than every timestamp handed out.
DELETED_TIMESTAMP == MaxTs + Cardinality(Sessions) + 1

EmptyGraph ==
  [vts |-> [k \in Keys |-> DELETED_TIMESTAMP],
   val |-> [k \in Keys |-> CHOOSE v \in Vals : TRUE],
   lids |-> <<>>,        \* the keys of the indexer by lid, deleted ones included
   capacity |-> Reserve,
   edges |-> {}]

-----------------------------------------------------------------------------

(***************************************************************************)
(* The operations of PropertyGraph on a graph g at timestamp t             *)
(***************************************************************************)
IsValid(g, k, t) == g.vts[k] <= t

LidOf(keys, k) == (CHOOSE i \in DOMAIN keys : keys[i] = k) - 1

HasRoom(g) == Len(g.lids) < g.capacity

\* EnsureCapacity: room for at least one more vertex.
EnsureCapacity(g) ==
  IF HasRoom(g) THEN g ELSE [g EXCEPT !.capacity = Len(g.lids) + 1]

AddVertex(g, k, v, t) ==
  [g EXCEPT !.vts[k] = t, !.val[k] = v,
            !.lids = IF k \in Range(@) THEN @ ELSE Append(@, k)]

AddEdge(g, s, d, t) == [g EXCEPT !.edges = @ \union {<<s, d, t>>}]

Isolated(g, k) == \A e \in g.edges : e[1] # k /\ e[2] # k

DeleteVertex(g, k) == [g EXCEPT !.vts[k] = DELETED_TIMESTAMP]

\* VertexTimestamp::Dump; the edges are dumped with their timestamps.
Dumped(g) ==
  [g EXCEPT !.vts = [k \in Keys |-> IF @[k] = DELETED_TIMESTAMP THEN @[k] ELSE 0]]

\* PropertyGraph::Compact resets the edges too.
Compact(g) == [Dumped(g) EXCEPT !.edges = {<<e[1], e[2], 0>> : e \in @}]

\* PropertyGraph::Open of what Dump wrote.
Opened(c) ==
  [c EXCEPT !.capacity = Max({Reserve, Len(c.lids) + 1})]

Visible(g, t) ==
  [vertices |-> {<<k, g.val[k]>> : k \in {k \in Keys : IsValid(g, k, t)}},
   edges |-> {<<e[1], e[2]>> : e \in {e \in g.edges : e[3] <= t}}]

Content(g) == Visible(g, DELETED_TIMESTAMP - 1)

-----------------------------------------------------------------------------

(***************************************************************************)
(* Replaying one redo operation: [ok, g], where ok turns FALSE on an       *)
(* exception or a failed CHECK.                                            *)
(***************************************************************************)
Ok(g) == [ok |-> TRUE, g |-> g]

Failed(r) == [ok |-> FALSE, g |-> r.g]

\* InsertTransaction::IngestWal.  AddVertex throws when the key is there, and
\* fails when the table is full.
IngestInsert(r, op, t) ==
  CASE ~r.ok -> r
    [] op.op = "vertex" /\ HasRoom(r.g) /\ r.g.vts[op.k] = DELETED_TIMESTAMP ->
         Ok(AddVertex(r.g, op.k, op.v, t))
    [] op.op = "edge" /\ IsValid(r.g, op.s, t) /\ IsValid(r.g, op.d, t) ->
         Ok(AddEdge(r.g, op.s, op.d, t))
    [] OTHER -> Failed(r)

\* UpdateTransaction::IngestWal.
IngestUpdate(r, op, t) ==
  CASE ~r.ok -> r
    [] op.op = "vertex" ->
         IF IsValid(r.g, op.k, t) THEN r
         ELSE Ok(AddVertex(EnsureCapacity(r.g), op.k, op.v, t))
    [] op.op = "edge" /\ IsValid(r.g, op.s, t) /\ IsValid(r.g, op.d, t) ->
         Ok(AddEdge(r.g, op.s, op.d, t))
    [] op.op = "set" /\ IsValid(r.g, op.k, t) -> Ok([r.g EXCEPT !.val[op.k] = op.v])
    [] op.op = "remove" /\ IsValid(r.g, op.k, t) -> Ok(DeleteVertex(r.g, op.k))
    [] OTHER -> Failed(r)

\* One record; a compaction is a record without operations.
Ingest(r, rec) ==
  CASE rec.type = "insert" ->
         FoldLeft(LAMBDA q, op : IngestInsert(q, op, rec.ts), r, rec.ops)
    [] rec.type = "update" /\ rec.ops # <<>> ->
         FoldLeft(LAMBDA q, op : IngestUpdate(q, op, rec.ts), r, rec.ops)
    [] OTHER -> IF r.ok THEN Ok(Compact(r.g)) ELSE r

Records(w, type, t) == {rec \in w : rec.type = type /\ rec.ts = t}

LastTs(w) == Max({rec.ts : rec \in w} \union {0})

(***************************************************************************)
(* LocalWalParser::open keeps one insert record per timestamp, in a list   *)
(* that grows up to the last insert; the update records are sorted.        *)
(* get_insert_wal does not check its index: reading past the list is       *)
(* undefined.                                                              *)
(***************************************************************************)
ListLength(w) ==
  Max({ListSize} \union {rec.ts + 1 : rec \in {r \in w : r.type = "insert"}})

ReadsInBounds(w) ==
  \A u \in {r \in w : r.type = "update"} :
    \A t \in 1..(u.ts - 1) : t < ListLength(w) \/ Records(w, "update", t) # {}

(***************************************************************************)
(* NeugDB::ingestWals: updates in timestamp order, and between two of them *)
(* the inserts in between.  An insert with the timestamp of an update is   *)
(* skipped.  Of two inserts with one timestamp the parser keeps the one it *)
(* reads last, in the unspecified order of the directory.                  *)
(***************************************************************************)
IngestAt(r, w, t) ==
  LET updates == Records(w, "update", t)
      inserts == Records(w, "insert", t)
  IN  CASE updates # {} -> FoldSet(LAMBDA rec, q : Ingest(q, rec), r, updates)
        [] updates = {} /\ inserts # {} -> Ingest(r, CHOOSE rec \in inserts : TRUE)
        [] OTHER -> r

\* Fault: the log is replayed without the inserts after the last update.
ingestWals_NoTail(g, w) ==
  LET last == Max({rec.ts : rec \in {r \in w : r.type = "update"}} \union {0})
      replay[t \in 0..last] == IF t = 0 THEN Ok(g) ELSE IngestAt(replay[t - 1], w, t)
  IN  replay[last]

ingestWals(g, w) ==
  LET replay[t \in 0..LastTs(w)] ==
        IF t = 0 THEN Ok(g) ELSE IngestAt(replay[t - 1], w, t)
      r == replay[LastTs(w)]
  IN  IF ReadsInBounds(w) THEN r ELSE Failed(r)

-----------------------------------------------------------------------------

Idle == [s \in Sessions |-> <<>>]
Unset == [s \in Sessions |-> -1]

DInit ==
  /\ Init
  /\ graph = EmptyGraph /\ ckpt = EmptyGraph
  /\ arc = Idle /\ undo = Idle
  /\ base = Unset /\ pos = Unset
  /\ linked = [s \in Sessions |-> TRUE]
  /\ wal = {}
  /\ dump = "none"
  /\ failed = {}
  /\ restarts = 0

disk == <<linked, wal, ckpt>>

\* GetReadTransaction, GetInsertTransaction, GetUpdateTransaction.
Begin(s) ==
  /\ BeginRead(s) \/ (next <= MaxTs /\ (BeginInsert(s) \/ BeginUpdate(s)))
  /\ UNCHANGED <<graph, arc, base, undo, pos, disk, dump, failed, restarts>>

\* Commit or Abort gives the timestamp back; clear() forgets the operations.
Release(s) ==
  /\ End(s)
  /\ arc' = [arc EXCEPT ![s] = <<>>]
  /\ base' = [base EXCEPT ![s] = -1]
  /\ undo' = [undo EXCEPT ![s] = <<>>]
  /\ pos' = [pos EXCEPT ![s] = -1]

Working(s, p) == phase[s] = p /\ pos[s] = -1 /\ dump = "none"

EndRead(s) ==
  /\ phase[s] = "read"
  /\ Release(s)
  /\ UNCHANGED <<graph, disk, dump, failed, restarts>>

-----------------------------------------------------------------------------

(***************************************************************************)
(* Insert transactions collect operations and apply them at Commit         *)
(***************************************************************************)
AddedVertices(s) ==
  LET added == SelectSeq(arc[s], LAMBDA op : op.op = "vertex")
  IN  [i \in DOMAIN added |-> added[i].k]

\* In the snapshot, or added by this transaction.
Found(s, k) == IsValid(graph, k, at[s]) \/ k \in Range(AddedVertices(s))

\* The vertex number of a key that was found.
GetVertexIndex(s, k) ==
  IF IsValid(graph, k, at[s]) THEN LidOf(graph.lids, k)
  ELSE base[s] + LidOf(AddedVertices(s), k)

(***************************************************************************)
(* The key of a vertex number: from base on, the transaction's own         *)
(* vertices, and the CHECK fails when there are not so many.               *)
(***************************************************************************)
Owns(s, vid) == base[s] # -1 /\ vid >= base[s]

HasVertexId(s, vid) == Owns(s, vid) => vid - base[s] < Len(AddedVertices(s))

GetVertexId(s, vid) ==
  IF Owns(s, vid) THEN AddedVertices(s)[vid - base[s] + 1] ELSE graph.lids[vid + 1]

Serialize(s, op) ==
  /\ Len(arc[s]) < MaxOps
  /\ arc' = [arc EXCEPT ![s] = Append(@, op)]

(***************************************************************************)
(* A deleted key is inserted again only by a client of workload            *)
(* "reinsert": when the transaction itself deleted it, and when the vertex *)
(* was there at the last checkpoint or compaction, which VertexTimestamp   *)
(* keeps apart from the later ones.                                        *)
(***************************************************************************)
Reinserts(s, k) ==
  \/ [op |-> "remove", k |-> k] \in Range(arc[s])
  \/ k \in Range(ckpt.lids)
  \/ "compaction" \in Workload /\ k \in Range(graph.lids)

\* create_id_indexer_if_not_exists: numbers go on from the size of the table.
CreateIdIndexer(s) ==
  base' = [base EXCEPT ![s] = IF @ = -1 THEN Len(graph.lids) ELSE @]

\* Fault: keys added earlier in the transaction are not looked up.
InsertVertex_NoLocalLookup(s, k, v) ==
  /\ Working(s, "insert")
  /\ Reinserts(s, k) => "reinsert" \in Workload
  /\ CreateIdIndexer(s)
  /\ IF IsValid(graph, k, at[s]) THEN UNCHANGED arc
     ELSE Serialize(s, [op |-> "vertex", k |-> k, v |-> v])
  /\ UNCHANGED <<vars, graph, undo, pos, disk, dump, failed, restarts>>

InsertVertex(s, k, v) ==
  /\ Working(s, "insert")
  /\ Reinserts(s, k) /\ ~Found(s, k) => "reinsert" \in Workload
  /\ CreateIdIndexer(s)
  /\ IF Found(s, k) THEN UNCHANGED arc
     ELSE Serialize(s, [op |-> "vertex", k |-> k, v |-> v])
  /\ UNCHANGED <<vars, graph, undo, pos, disk, dump, failed, restarts>>

\* The record names the vertices by key.  A process that a failed CHECK ends
\* is one of those CrashAndRecover ends.
InsertEdgeRedo(s, src, dst) ==
  /\ HasVertexId(s, src) /\ HasVertexId(s, dst)
  /\ Serialize(s, [op |-> "edge", s |-> GetVertexId(s, src), d |-> GetVertexId(s, dst)])

\* Fault: the endpoints are looked up in the newest data, not the snapshot.
InsertEdge_AnyVersion(s, src, dst) ==
  /\ Working(s, "insert")
  /\ \A k \in {src, dst} : Found(s, k) \/ graph.vts[k] # DELETED_TIMESTAMP
  /\ Serialize(s, [op |-> "edge", s |-> src, d |-> dst])
  /\ UNCHANGED <<vars, graph, base, undo, pos, disk, dump, failed, restarts>>

\* The client looks the vertices up and adds the edge by their numbers.
InsertEdge(s, src, dst) ==
  /\ Working(s, "insert")
  /\ Found(s, src) /\ Found(s, dst)
  /\ InsertEdgeRedo(s, GetVertexIndex(s, src), GetVertexIndex(s, dst))
  /\ UNCHANGED <<vars, graph, base, undo, pos, disk, dump, failed, restarts>>

(***************************************************************************)
(* IWalWriter::append: the record is on disk when it returns.  A session   *)
(* whose file was removed still appends to it, and the data is lost.       *)
(***************************************************************************)
AppendWal(s, type) ==
  wal' = IF linked[s] THEN wal \union {[ts |-> at[s], type |-> type, ops |-> arc[s]]}
                      ELSE wal

\* Commit up to the append.  The vertex numbers are not used after it.
LogInsert(s) ==
  /\ Working(s, "insert")
  /\ arc[s] # <<>>
  /\ AppendWal(s, "insert")
  /\ pos' = [pos EXCEPT ![s] = 0]
  /\ base' = [base EXCEPT ![s] = -1]
  /\ UNCHANGED <<vars, graph, arc, undo, linked, ckpt, dump, failed, restarts>>

NextOp(s) == arc[s][pos[s] + 1]

Ingesting(s) == phase[s] = "insert" /\ pos[s] >= 0 /\ pos[s] < Len(arc[s])

\* Fault: operations are applied with the snapshot's timestamp.
IngestOp_OldTs(s) ==
  LET r == IngestInsert(Ok(graph), NextOp(s), at[s] - 1)
  IN  /\ Ingesting(s)
      /\ r.ok
      /\ graph' = r.g
      /\ pos' = [pos EXCEPT ![s] = @ + 1]
      /\ UNCHANGED <<vars, arc, base, undo, disk, dump, failed, restarts>>

\* IngestWal in Commit: one operation at a time, while others run.  An edge
\* enters its lists at once here; MutableCsr has the steps of put_edge, in which
\* the size of a list is raised before the entry has its timestamp
\* (mutable_csr.h:138), so that a reader may meet it too early.
IngestOp(s) ==
  LET r == IngestInsert(Ok(graph), NextOp(s), at[s])
  IN  /\ Ingesting(s)
      /\ r.ok
      /\ graph' = r.g
      /\ pos' = [pos EXCEPT ![s] = @ + 1]
      /\ UNCHANGED <<vars, arc, base, undo, disk, dump, failed, restarts>>

\* AddVertex throws; the destructor's Abort releases the timestamp.
IngestThrows(s) ==
  /\ Ingesting(s)
  /\ NextOp(s).op = "vertex"
  /\ ~IngestInsert(Ok(graph), NextOp(s), at[s]).ok
  /\ failed' = failed \union {at[s]}
  /\ Release(s)
  /\ UNCHANGED <<graph, disk, dump, restarts>>

EndInsert(s) ==
  /\ phase[s] = "insert"
  /\ pos[s] = Len(arc[s]) \/ (pos[s] = -1 /\ arc[s] = <<>>)
  /\ Release(s)
  /\ UNCHANGED <<graph, disk, dump, failed, restarts>>

AbortInsert(s) ==
  /\ Working(s, "insert")
  /\ Release(s)
  /\ UNCHANGED <<graph, disk, dump, failed, restarts>>

-----------------------------------------------------------------------------

(***************************************************************************)
(* Update transactions change the graph in place and keep an undo log      *)
(***************************************************************************)
\* One operation: its redo record, its undo record, and the new graph.
Apply(s, op, u, g) ==
  /\ Working(s, "update")
  /\ Serialize(s, op)
  /\ undo' = [undo EXCEPT ![s] = <<u>> \o @]
  /\ graph' = g
  /\ UNCHANGED <<vars, base, pos, disk, dump, failed, restarts>>

UpdateAddVertex(s, k, v) ==
  /\ graph.vts[k] = DELETED_TIMESTAMP
  /\ Reinserts(s, k) => "reinsert" \in Workload
  /\ Apply(s, [op |-> "vertex", k |-> k, v |-> v], [undo |-> "insert", k |-> k],
           AddVertex(EnsureCapacity(graph), k, v, at[s]))

UpdateAddEdge(s, src, dst) ==
  /\ IsValid(graph, src, at[s]) /\ IsValid(graph, dst, at[s])
  /\ <<src, dst, at[s]>> \notin graph.edges
  /\ Apply(s, [op |-> "edge", s |-> src, d |-> dst],
           [undo |-> "edge", e |-> <<src, dst, at[s]>>],
           AddEdge(graph, src, dst, at[s]))

\* Fault: the property change leaves no undo record.
UpdateVertexProperty_NoUndo(s, k, v) ==
  /\ IsValid(graph, k, at[s])
  /\ Working(s, "update")
  /\ Serialize(s, [op |-> "set", k |-> k, v |-> v])
  /\ graph' = [graph EXCEPT !.val[k] = v]
  /\ UNCHANGED <<vars, base, undo, pos, disk, dump, failed, restarts>>

UpdateVertexProperty(s, k, v) ==
  /\ IsValid(graph, k, at[s])
  /\ Apply(s, [op |-> "set", k |-> k, v |-> v],
           [undo |-> "set", k |-> k, v |-> graph.val[k]],
           [graph EXCEPT !.val[k] = v])

\* Vertices without edges only: EdgeUpdates has the rest.
UpdateDeleteVertex(s, k) ==
  /\ IsValid(graph, k, at[s]) /\ Isolated(graph, k)
  /\ Apply(s, [op |-> "remove", k |-> k],
           [undo |-> "remove", k |-> k], DeleteVertex(graph, k))

\* IUndoLog::Undo: what comes back gets the transaction's timestamp.
Undo(g, u, t) ==
  CASE u.undo = "insert" -> DeleteVertex(g, u.k)
    [] u.undo = "edge" -> [g EXCEPT !.edges = @ \ {u.e}]
    [] u.undo = "set" -> [g EXCEPT !.val[u.k] = u.v]
    [] u.undo = "remove" -> [g EXCEPT !.vts[u.k] = t]

revert_changes(s) == FoldLeft(LAMBDA g, u : Undo(g, u, at[s]), graph, undo[s])

CommitUpdate(s) ==
  /\ phase[s] = "update" /\ pos[s] = -1 /\ dump \in {"none", "done"}
  /\ IF arc[s] = <<>> THEN UNCHANGED wal ELSE AppendWal(s, "update")
  /\ dump' = "none"
  /\ Release(s)
  /\ UNCHANGED <<graph, linked, ckpt, failed, restarts>>

\* The timestamp is not given back: recovery meets a gap.
AbortUpdate(s) ==
  /\ Working(s, "update")
  /\ graph' = revert_changes(s)
  /\ Release(s)
  /\ UNCHANGED <<disk, dump, failed, restarts>>

-----------------------------------------------------------------------------

(***************************************************************************)
(* CreateCheckpoint in an update transaction.  copy_directory removes the  *)
(* old checkpoint before it links the new one; then the WAL directory is   *)
(* removed under the open writers, and the graph reopened.                 *)
(***************************************************************************)
RemoveOldCheckpoint(s) ==
  /\ "checkpoint" \in Workload
  /\ Working(s, "update") /\ arc[s] = <<>>
  /\ graph' = Dumped(graph)
  /\ ckpt' = EmptyGraph
  /\ dump' = "removed"
  /\ UNCHANGED <<vars, arc, base, undo, pos, linked, wal, failed, restarts>>

LinkNewCheckpoint(s) ==
  /\ phase[s] = "update" /\ dump = "removed"
  /\ ckpt' = graph
  /\ dump' = "linked"
  /\ UNCHANGED <<vars, graph, arc, base, undo, pos, linked, wal, failed, restarts>>

RemoveWal(s) ==
  /\ phase[s] = "update" /\ dump = "linked"
  /\ wal' = {}
  /\ linked' = [r \in Sessions |-> FALSE]
  /\ graph' = Opened(ckpt)
  /\ dump' = "done"
  /\ UNCHANGED <<vars, arc, base, undo, pos, ckpt, failed, restarts>>

\* CompactTransaction::Commit: a record without operations, then clear().
CommitCompaction(s) ==
  /\ "compaction" \in Workload /\ restarts < MaxRestarts
  /\ Working(s, "update") /\ arc[s] = <<>>
  /\ AppendWal(s, "update")
  /\ graph' = Compact(graph)
  /\ phase' = [phase EXCEPT ![s] = "idle"]
  /\ at' = [at EXCEPT ![s] = 0]
  /\ next' = 1
  /\ restarts' = restarts + 1
  /\ UNCHANGED <<arc, base, undo, pos, linked, ckpt, dump, failed>>

-----------------------------------------------------------------------------

(***************************************************************************)
(* NeugDB::Open: the sessions are new, timestamps go on after the last     *)
(* record, and every session opens a new WAL file.                         *)
(***************************************************************************)
Restart(g, last) ==
  /\ graph' = g
  /\ next' = last + 1
  /\ phase' = [s \in Sessions |-> "idle"]
  /\ at' = [s \in Sessions |-> 0]
  /\ arc' = Idle /\ undo' = Idle
  /\ base' = Unset /\ pos' = Unset
  /\ linked' = [s \in Sessions |-> TRUE]
  /\ dump' = "none"
  /\ failed' = {}
  /\ restarts' = restarts + 1

Recover(c, w) == ingestWals(Opened(c), w)

\* The process dies anywhere; the next Open replays the log.
CrashAndRecover ==
  LET r == Recover(ckpt, wal)
  IN  /\ restarts < MaxRestarts
      /\ r.ok
      /\ Restart(r.g, LastTs(wal))
      /\ UNCHANGED <<wal, ckpt>>

\* The process dies in append, with the header on disk and not the payload.
TornAppend(s) ==
  /\ "torn_write" \in Workload
  /\ Working(s, "insert") /\ arc[s] # <<>> /\ linked[s]
  /\ wal' = wal \union {[ts |-> at[s], type |-> "insert", ops |-> <<[op |-> "zeros"]>>]}
  /\ dump' = "dead"
  /\ UNCHANGED <<vars, graph, arc, base, undo, pos, linked, ckpt, failed, restarts>>

\* Close with compact_on_close and checkpoint_on_close, then Open.
CloseAndOpen ==
  /\ restarts < MaxRestarts
  /\ \A s \in Sessions : phase[s] = "idle"
  /\ ckpt' = Compact(graph)
  /\ wal' = {}
  /\ Restart(Opened(ckpt'), 0)

Step(s) ==
  \/ Begin(s) \/ EndRead(s)
  \/ \E k \in KeysOf[s], v \in Vals : InsertVertex(s, k, v)
  \/ \E src \in KeysOf[s], dst \in Keys : InsertEdge(s, src, dst)
  \/ LogInsert(s) \/ IngestOp(s) \/ IngestThrows(s)
  \/ EndInsert(s) \/ AbortInsert(s)
  \/ \E k \in Keys, v \in Vals :
       UpdateAddVertex(s, k, v) \/ UpdateVertexProperty(s, k, v)
  \/ \E k, l \in Keys : UpdateAddEdge(s, k, l)
  \/ \E k \in Keys : UpdateDeleteVertex(s, k)
  \/ CommitUpdate(s) \/ AbortUpdate(s)
  \/ RemoveOldCheckpoint(s) \/ LinkNewCheckpoint(s) \/ RemoveWal(s)
  \/ CommitCompaction(s) \/ TornAppend(s)

DNext ==
  \/ \E s \in Sessions :
       /\ dump # "dead"
       /\ Step(s)
  \/ CrashAndRecover
  \/ CloseAndOpen

DSpec == DInit /\ [][DNext]_dvars

-----------------------------------------------------------------------------

\* The graph once every logged insert is ingested and a running update undone.
Committed ==
  LET updating == {s \in Sessions : phase[s] = "update"}
      rest(s) == SubSeq(arc[s], pos[s] + 1, Len(arc[s]))
      finish(s, r) == FoldLeft(LAMBDA q, op : IngestInsert(q, op, at[s]), r, rest(s))
  IN  IF updating # {} THEN revert_changes(CHOOSE s \in updating : TRUE)
      ELSE FoldSet(finish, Ok(graph), {s \in Sessions : Ingesting(s)}).g

\* What Open would find, and what its first reader would see of it.
Recovered == Recover(ckpt, wal)

SeenAfterRecovery == Visible(Recovered.g, LastTs(wal))

\* Outside a checkpoint, whenever the process dies, NeugDB::Open succeeds: no
\* replayed record meets a key that exists or an endpoint that does not, and
\* the parser's list is not read past its end.
RecoverySucceeds == dump \in {"none", "dead"} => Recovered.ok

\* Whenever the process dies, the first reader after Open sees exactly the
\* committed data: every logged insert whole, also one that was not yet
\* ingested, and nothing of an aborted, an unlogged or an unfinished one.
RecoversCommitted ==
  dump = "none" /\ Recovered.ok => SeenAfterRecovery = Content(Committed)

\* The same in a service that also checkpoints and compacts: as long as the
\* directory still holds the WAL file of every session (no checkpoint since the
\* start) and no compaction record, and the checkpoint has no edge dumped with
\* its timestamp, dying in the middle of a commit of several operations
\* recovers all of it or nothing.
RecoversFromLog ==
  (\A s \in Sessions : linked[s])
    /\ (\A e \in ckpt.edges : e[3] = 0)
    /\ (\A rec \in wal : rec.type = "update" => rec.ops # <<>>)
  => RecoversCommitted

\* At every point of an update transaction, its undo log would bring back the
\* committed data.
UndoRestores ==
  \A s \in Sessions :
    Working(s, "update") => Content(revert_changes(s)) = SeenAfterRecovery

\* A crash while a checkpoint replaces the previous one loses nothing.
CheckpointAtomic ==
  dump \in {"removed", "linked"} =>
    Recovered.ok /\ SeenAfterRecovery = Content(graph)

\* A finished checkpoint shows the next Open's readers all the data.
CheckpointComplete == dump = "done" => SeenAfterRecovery = Content(graph)

\* An insert whose Commit failed left no vertex behind.
AllOrNothing == \A k \in Keys : graph.vts[k] \notin failed

\* A logged insert is always applied whole: Commit does not throw in IngestWal,
\* and when it links two vertices both are there, whatever the other sessions
\* ingest meanwhile, so that get_vertex_with_retries never runs out of retries
\* (and CHECK never fails).
LoggedInsertsApply ==
  /\ failed = {}
  /\ \A s \in Sessions :
       Ingesting(s) /\ NextOp(s).op = "edge" =>
         IsValid(graph, NextOp(s).s, at[s]) /\ IsValid(graph, NextOp(s).d, at[s])

\* In an insert transaction, the number GetVertexIndex gives for a key leads
\* AddEdge back to that key, whatever vertices other sessions add meanwhile.
NumbersExact ==
  \A s \in Sessions, k \in Keys :
    Working(s, "insert") /\ Found(s, k) =>
      /\ HasVertexId(s, GetVertexIndex(s, k))
      /\ GetVertexId(s, GetVertexIndex(s, k)) = k

\* While a read transaction runs, the vertices it sees and their values never
\* change, whatever inserts are ingested meanwhile (InsertTransaction::IngestWal
\* beside ReadTransaction).  Nothing is said of edges: what a reader sees of a
\* list that put_edge is at work on is ReadsOnlySnapshot of MutableCsr.
SnapshotStable ==
  [][\A s \in Sessions :
       phase[s] = "read" /\ phase'[s] = "read" =>
         Visible(graph', at[s]).vertices = Visible(graph, at[s]).vertices]_dvars
=============================================================================
