---------------------------- MODULE EdgeUpdates ----------------------------
(***************************************************************************)
(* Edges under update transactions: the outgoing and the incoming CSR of   *)
(* each edge table, slots addressed by offset, deletion by tombstone, the  *)
(* undo log of UpdateTransaction and the replay of its redo records.       *)
(*                                                                         *)
(* An update transaction runs alone, so a slot is visible to it unless it  *)
(* is deleted.  Offsets count from 1; NotFound stands for the maximum of   *)
(* int32_t.  Keys and lids are one: no vertex is added here.               *)
(***************************************************************************)
EXTENDS Integers, FiniteSets, Sequences, SequencesExt, FiniteSetsExt

CONSTANTS
  Labels, Lids,
  Tables,      \* the edge triplets: a set of pairs <<source, target label>>
  Vals,
  Bundled,     \* one fixed-size property, stored in the slot; else a row id is
  Workload,    \* which operations clients use: a subset of AllWorkloads
  MaxTs,       \* bound on the timestamps taken
  MaxOps,      \* bound on the redo records of a transaction
  MaxEdges     \* bound on the edges ever put

\* "parallel": edges that agree in endpoints and property; "tombstones":
\* DeleteEdges and property updates also in lists that hold deleted slots.
AllWorkloads == {"batch", "delete_all", "set", "vertex", "abort", "concurrent",
                 "parallel", "tombstones", "crash"}

ASSUME EdgeAssumption ==
  Tables \subseteq Labels \X Labels /\ Workload \subseteq AllWorkloads

VARIABLES
  graph,    \* [valid, out, in, rows]
  phase,    \* of the update transaction: idle, open, failing, or dead
  ts,       \* the last timestamp taken
  arc,      \* arc_: redo records of the open transaction
  undo,     \* undo_logs_, top first
  log,      \* the committed records, in timestamp order
  base,     \* the checkpoint
  before    \* what was visible when the transaction began

evars == <<graph, phase, ts, arc, undo, log, base, before>>

DELETED == MaxTs + 1
NotFound == 0

EmptyGraph ==
  [valid |-> [l \in Labels |-> Lids],
   out |-> [t \in Tables |-> [v \in Lids |-> <<>>]],
   in |-> [t \in Tables |-> [v \in Lids |-> <<>>]],
   rows |-> <<>>]           \* table_: the properties of unbundled edges

-----------------------------------------------------------------------------

(***************************************************************************)
(* Neighbour lists                                                         *)
(***************************************************************************)
Live(list) == {i \in DOMAIN list : list[i].ts # DELETED}

\* Where an iterator is after n - 1 steps from begin(): it skips what is
\* deleted.  Past the end it reads foreign memory.
Nth(list, n) ==
  LET at == {i \in Live(list) : Cardinality({j \in Live(list) : j <= i}) = n}
  IN  IF at = {} THEN NotFound ELSE CHOOSE i \in at : TRUE

\* Fault: the first edge to the neighbour is taken, whatever its data.
Match_FirstCandidate(list, nbr, e) ==
  LET candidates == {i \in Live(list) : list[i].nbr = nbr}
  IN  IF candidates = {} THEN NotFound ELSE Min(candidates)

\* fuzzy_search_offset_from_nbr_list: the slot of e's other half.
Match(list, nbr, e) ==
  LET candidates == {i \in Live(list) : list[i].nbr = nbr}
      exact == {i \in candidates : list[i].data = e.data /\ list[i].ts = e.ts}
  IN  CASE Cardinality(candidates) = 1 -> CHOOSE i \in candidates : TRUE
        [] Cardinality(candidates) # 1 /\ exact # {} -> Min(exact)
        [] OTHER -> NotFound

\* Both offsets of the edge in slot o of the outgoing list of s, or in slot i
\* of the incoming list of d.
FromOut(g, t, s, o) ==
  LET e == g.out[t][s][o]
  IN  [t |-> t, s |-> s, d |-> e.nbr, o |-> o, i |-> Match(g.in[t][e.nbr], s, e)]

FromIn(g, t, d, i) ==
  LET e == g.in[t][d][i]
  IN  [t |-> t, s |-> e.nbr, d |-> d, o |-> Match(g.out[t][e.nbr], d, e), i |-> i]

OutEdges(g, t, s) == {FromOut(g, t, s, o) : o \in Live(g.out[t][s])}
InEdges(g, t, d) == {FromIn(g, t, d, i) : i \in Live(g.in[t][d])}

-----------------------------------------------------------------------------

(***************************************************************************)
(* EdgeTable and PropertyGraph: [ok, g], where ok turns FALSE when an      *)
(* exception is thrown or foreign memory is touched.                       *)
(***************************************************************************)
Ok(g) == [ok |-> TRUE, g |-> g]
Failed(g) == [ok |-> FALSE, g |-> g]

Slot(nbr, data, time) == [nbr |-> nbr, data |-> data, ts |-> time]

PutIn(g, e, data, time) ==
  [g EXCEPT !.in[e.t][e.d] = Append(@, Slot(e.s, data, time))]

PutOut(g, e, data, time) ==
  [g EXCEPT !.out[e.t][e.s] = Append(@, Slot(e.d, data, time))]

NewData(g, v) == IF Bundled THEN v ELSE Len(g.rows) + 1
NewRow(g, v) == IF Bundled THEN g ELSE [g EXCEPT !.rows = Append(@, v)]

AddEdgeTo(g, e, time) ==
  NewRow(PutOut(PutIn(g, e, NewData(g, e.v), time), e, NewData(g, e.v), time), e.v)

\* The outgoing slot goes first; a bad offset throws.
DeleteEdgeAt(r, e) ==
  LET g == [r.g EXCEPT !.out[e.t][e.s][e.o].ts = DELETED]
  IN  CASE ~r.ok -> r
        [] r.ok /\ e.o \notin DOMAIN r.g.out[e.t][e.s] -> Failed(r.g)
        [] r.ok /\ e.o \in DOMAIN r.g.out[e.t][e.s] ->
             IF e.i \in DOMAIN g.in[e.t][e.d]
             THEN Ok([g EXCEPT !.in[e.t][e.d][e.i].ts = DELETED])
             ELSE Failed(g)

Revivable(list, i, nbr) ==
  i \in DOMAIN list /\ list[i].nbr = nbr /\ list[i].ts = DELETED

RevertDeleteEdge(r, e, time) ==
  LET g == [r.g EXCEPT !.out[e.t][e.s][e.o].ts = time]
  IN  CASE ~r.ok -> r
        [] r.ok /\ ~Revivable(r.g.out[e.t][e.s], e.o, e.d) -> Failed(r.g)
        [] r.ok /\ Revivable(r.g.out[e.t][e.s], e.o, e.d) ->
             IF Revivable(g.in[e.t][e.d], e.i, e.s)
             THEN Ok([g EXCEPT !.in[e.t][e.d][e.i].ts = time])
             ELSE Failed(g)

(***************************************************************************)
(* EdgeTable::UpdateEdgeProperty counts e.o and e.i in visible slots.  An  *)
(* unbundled property is in the row; then the incoming slot keeps its      *)
(* timestamp.                                                              *)
(***************************************************************************)
SetEdge(r, e, v, time) ==
  LET o == Nth(r.g.out[e.t][e.s], e.o)
      i == Nth(r.g.in[e.t][e.d], e.i)
      stamped == [r.g EXCEPT !.out[e.t][e.s][o].ts = time]
      written == [stamped EXCEPT !.out[e.t][e.s][o].data = v]
  IN  CASE ~r.ok -> r
        [] r.ok /\ o = NotFound -> Failed(r.g)
        [] r.ok /\ o # NotFound /\ ~Bundled ->
             Ok([stamped EXCEPT !.rows[stamped.out[e.t][e.s][o].data] = v])
        [] r.ok /\ o # NotFound /\ Bundled ->
             IF i = NotFound THEN Failed(written)
             ELSE Ok([written EXCEPT !.in[e.t][e.d][i].data = v,
                                     !.in[e.t][e.d][i].ts = time])

\* EdgeTable::DeleteVertex: the list of one direction, slot by slot.
InOrder(slots) == SetToSortSeq(slots, LAMBDA i, j : i < j)

DeleteOutEdges(r, t, v) ==
  FoldLeft(LAMBDA q, o : IF q.ok THEN DeleteEdgeAt(q, FromOut(q.g, t, v, o)) ELSE q,
           r, InOrder(Live(r.g.out[t][v])))

DeleteInEdges(r, t, v) ==
  FoldLeft(LAMBDA q, i : IF q.ok THEN DeleteEdgeAt(q, FromIn(q.g, t, v, i)) ELSE q,
           r, InOrder(Live(r.g.in[t][v])))

\* Fault: only the tables the label is the target of are cleaned.
DeleteVertexFrom_Half(r, l, v) ==
  LET clean(t, q) == IF t[2] = l THEN DeleteOutEdges(q, t, v) ELSE q
      cleaned == FoldSet(clean, r, Tables)
  IN  [cleaned EXCEPT !.g.valid[l] = @ \ {v}]

(***************************************************************************)
(* PropertyGraph::DeleteVertex.  For a table that leads to the label it    *)
(* passes is_src = true, and false for one that starts there.              *)
(***************************************************************************)
DeleteVertexFrom(r, l, v) ==
  LET sources(t, q) == IF t[2] = l THEN DeleteOutEdges(q, t, v) ELSE q
      targets(t, q) == IF t[1] = l THEN DeleteInEdges(q, t, v) ELSE q
      clean(t, q) == targets(t, sources(t, q))
      cleaned == FoldSet(clean, r, Tables)
  IN  IF cleaned.ok THEN Ok([cleaned.g EXCEPT !.valid[l] = @ \ {v}]) ELSE cleaned

\* fetch_edges_related_to_vertex: a table within the label only as a source.
RelatedEdges(g, l, v) ==
  UNION ({OutEdges(g, t, v) : t \in {t \in Tables : t[1] = l}}
    \union {InEdges(g, t, v) : t \in {t \in Tables : t[2] = l /\ t[1] # l}})

EndsValid(g, e) == e.s \in g.valid[e.t[1]] /\ e.d \in g.valid[e.t[2]]

Value(g, slot) == IF Bundled THEN slot.data ELSE g.rows[slot.data]

\* What readers see: the vertices, and how many equal edges in each direction.
Counts(g, lists, from, to) ==
  [x \in Tables \X Lids \X Lids \X Vals |->
     LET list == lists[x[1]][x[from]]
     IN  Cardinality({i \in Live(list) : list[i].nbr = x[to] /\ Value(g, list[i]) = x[4]})]

Outgoing(g) == Counts(g, g.out, 2, 3)
Incoming(g) == Counts(g, g.in, 3, 2)
Content(g) == <<g.valid, Outgoing(g), Incoming(g)>>

-----------------------------------------------------------------------------

(***************************************************************************)
(* Undo and replay                                                         *)
(***************************************************************************)
UndoOne(r, u, time) ==
  CASE ~r.ok -> r
    [] r.ok /\ u.undo = "add" -> DeleteEdgeAt(r, u.e)
    [] r.ok /\ u.undo = "delete" -> RevertDeleteEdge(r, u.e, time)
    [] r.ok /\ u.undo = "set" -> SetEdge(r, u.e, u.v, time)
    [] r.ok /\ u.undo = "vertex" ->
         FoldSet(LAMBDA e, q : RevertDeleteEdge(q, e, time),
                 Ok([r.g EXCEPT !.valid[u.l] = @ \union {u.v}]), u.edges)

\* Fault: the undo log is applied from its oldest entry.
revert_changes_Oldest ==
  FoldLeft(LAMBDA r, u : UndoOne(r, u, ts), Ok(graph), Reverse(undo))

revert_changes == FoldLeft(LAMBDA r, u : UndoOne(r, u, ts), Ok(graph), undo)

\* UpdateTransaction::IngestWal: the endpoints are looked up, the offsets are
\* taken from the record.
IngestOp(r, op, time) ==
  CASE ~r.ok -> r
    [] r.ok /\ op.op = "vertex" ->
         IF op.v \in r.g.valid[op.l] THEN DeleteVertexFrom(r, op.l, op.v) ELSE Failed(r.g)
    [] r.ok /\ op.op # "vertex" /\ ~EndsValid(r.g, op.e) -> Failed(r.g)
    [] r.ok /\ op.op = "add" /\ EndsValid(r.g, op.e) -> Ok(AddEdgeTo(r.g, op.e, time))
    [] r.ok /\ op.op = "delete" /\ EndsValid(r.g, op.e) -> DeleteEdgeAt(r, op.e)
    [] r.ok /\ op.op = "set" /\ EndsValid(r.g, op.e) -> SetEdge(r, op.e, op.v, time)

IngestWal(r, rec) == FoldLeft(LAMBDA q, op : IngestOp(q, op, rec.ts), r, rec.ops)

Replay == FoldLeft(IngestWal, Ok(base), log)

-----------------------------------------------------------------------------

EInit ==
  /\ graph = EmptyGraph /\ base = EmptyGraph
  /\ phase = "idle"
  /\ ts = 0
  /\ arc = <<>> /\ undo = <<>> /\ log = <<>>
  /\ before = Content(EmptyGraph)

Begin ==
  /\ phase = "idle" /\ ts < MaxTs
  /\ phase' = "open"
  /\ ts' = ts + 1
  /\ before' = Content(graph)
  /\ UNCHANGED <<graph, arc, undo, log, base>>

(***************************************************************************)
(* One operation: its redo records, the undo records pushed on the stack   *)
(* and its outcome.  When it throws, only Abort is left.                   *)
(***************************************************************************)
Perform(redo, undos, r) ==
  /\ phase = "open"
  /\ Len(arc) + Len(redo) <= MaxOps
  /\ arc' = arc \o redo
  /\ undo' = undos \o undo
  /\ graph' = r.g
  /\ phase' = IF r.ok THEN "open" ELSE "failing"
  /\ UNCHANGED <<ts, log, base, before>>

Edges == [t : Tables, s : Lids, d : Lids, v : Vals]

EdgesPut(g) ==
  IF Bundled THEN MapThenSumSet(LAMBDA x : Len(g.out[x[1]][x[2]]), Tables \X Lids)
             ELSE Len(g.rows)

\* Without "parallel" no two edges agree in endpoints and property.
Distinct(e) == "parallel" \in Workload \/ Outgoing(graph)[<<e.t, e.s, e.d, e.v>>] = 0

Clean(e) ==
  \/ "tombstones" \in Workload
  \/ /\ Live(graph.out[e.t][e.s]) = DOMAIN graph.out[e.t][e.s]
     /\ Live(graph.in[e.t][e.d]) = DOMAIN graph.in[e.t][e.d]

AddEdge(e) ==
  LET g == AddEdgeTo(graph, e, ts)
      put == FromOut(g, e.t, e.s, Len(g.out[e.t][e.s]))
  IN  /\ EndsValid(graph, e) /\ Distinct(e) /\ EdgesPut(graph) < MaxEdges
      /\ Perform(<<[op |-> "add", e |-> e]>>, <<[undo |-> "add", e |-> put]>>, Ok(g))

\* UpdateTransaction::DeleteEdge on the outcome so far, its redo and undo.
DeleteOne(acc, e) ==
  LET r == DeleteEdgeAt(acc.r, e)
  IN  CASE ~acc.r.ok -> acc
        [] acc.r.ok /\ ~EndsValid(acc.r.g, e) -> [acc EXCEPT !.r = Failed(acc.r.g)]
        [] acc.r.ok /\ EndsValid(acc.r.g, e) ->
             [r |-> r,
              redo |-> Append(acc.redo, [op |-> "delete", e |-> e]),
              undos |-> IF r.ok THEN <<[undo |-> "delete", e |-> e]>> \o acc.undos
                                ELSE acc.undos]

Untouched == [r |-> Ok(graph), redo |-> <<>>, undos |-> <<>>]

\* BatchDeleteEdgeOpr: the offsets of all records first, then the deletions.
BatchDeleteEdges(records) ==
  LET acc == FoldLeft(DeleteOne, Untouched, SetToSeq(records))
  IN  /\ "batch" \in Workload
      /\ Perform(acc.redo, acc.undos, acc.r)

\* Records of edges matched from their source, or from their target.
Records(t) ==
  {UNION {OutEdges(graph, t, v) : v \in Lids}, UNION {InEdges(graph, t, v) : v \in Lids}}

(***************************************************************************)
(* UpdateTransaction::DeleteEdges counts the visible edges of the source   *)
(* in oe_offset and deletes the slot with that number.                     *)
(***************************************************************************)
DeleteEdges(e) ==
  LET list == graph.out[e.t][e.s]
      delete(acc, n) ==
        LET slot == list[Nth(list, n)]
        IN  IF slot.nbr # e.d \/ ~acc.r.ok THEN acc
            ELSE DeleteOne(acc, [t |-> e.t, s |-> e.s, d |-> e.d, o |-> n,
                                 i |-> Match(acc.r.g.in[e.t][e.d], e.s, slot)])
      acc == FoldLeft(delete, Untouched, InOrder(1..Cardinality(Live(list))))
  IN  /\ "delete_all" \in Workload
      /\ EndsValid(graph, e) /\ Clean(e)
      /\ acc.redo # <<>>
      /\ Perform(acc.redo, acc.undos, acc.r)

\* UpdateEdgeOpr passes slot numbers to UpdateTransaction::UpdateEdgeProperty.
\* The old value comes from a view at the largest timestamp, which is that of a
\* deleted slot: it counts all slots, whereas SetEdge counts the visible ones.
UpdateEdgeProperty(e, v) ==
  LET r == SetEdge(Ok(graph), e, v, ts)
      old == graph.out[e.t][e.s][e.o]
      undos == IF r.ok THEN <<[undo |-> "set", e |-> e, v |-> Value(graph, old)]>> ELSE <<>>
  IN  /\ "set" \in Workload
      /\ EndsValid(graph, e) /\ Clean(e)
      /\ Distinct([t |-> e.t, s |-> e.s, d |-> e.d, v |-> v])
      /\ Perform(<<[op |-> "set", e |-> e, v |-> v]>>, undos, r)

\* Fault: no redo record.
DeleteVertex_NoRedo(l, v) ==
  /\ "vertex" \in Workload
  /\ v \in graph.valid[l]
  /\ Perform(<<>>,
             <<[undo |-> "vertex", l |-> l, v |-> v, edges |-> RelatedEdges(graph, l, v)]>>,
             DeleteVertexFrom(Ok(graph), l, v))

\* The undo record is pushed before the graph changes.
DeleteVertex(l, v) ==
  /\ "vertex" \in Workload
  /\ v \in graph.valid[l]
  /\ Perform(<<[op |-> "vertex", l |-> l, v |-> v]>>,
             <<[undo |-> "vertex", l |-> l, v |-> v, edges |-> RelatedEdges(graph, l, v)]>>,
             DeleteVertexFrom(Ok(graph), l, v))

Commit ==
  /\ phase = "open"
  /\ phase' = "idle"
  /\ log' = IF arc = <<>> THEN log ELSE Append(log, [ts |-> ts, ops |-> arc])
  /\ arc' = <<>> /\ undo' = <<>>
  /\ UNCHANGED <<graph, ts, base, before>>

\* An exception here leaves the destructor and ends the process.
Abort ==
  /\ phase = "failing" \/ (phase = "open" /\ "abort" \in Workload)
  /\ phase' = IF revert_changes.ok THEN "idle" ELSE "dead"
  /\ graph' = revert_changes.g
  /\ arc' = <<>> /\ undo' = <<>>
  /\ UNCHANGED <<ts, log, base, before>>

(***************************************************************************)
(* Two insert transactions that commit at the same time.  Each puts its    *)
(* edge in the incoming list, then in the outgoing one; which of them is   *)
(* first in either list has nothing to do with their timestamps.           *)
(***************************************************************************)
ConcurrentInserts(e, f, inOrder, outOrder) ==
  LET de == NewData(graph, e.v)
      rows == NewRow(NewRow(graph, e.v), f.v)
      df == IF Bundled THEN f.v ELSE Len(rows.rows)
      ins == IF inOrder THEN PutIn(PutIn(rows, e, de, ts + 1), f, df, ts + 2)
                        ELSE PutIn(PutIn(rows, f, df, ts + 2), e, de, ts + 1)
      both == IF outOrder THEN PutOut(PutOut(ins, e, de, ts + 1), f, df, ts + 2)
                          ELSE PutOut(PutOut(ins, f, df, ts + 2), e, de, ts + 1)
  IN  /\ "concurrent" \in Workload
      /\ phase = "idle" /\ ts + 2 <= MaxTs
      /\ EdgesPut(graph) + 2 <= MaxEdges
      /\ EndsValid(graph, e) /\ EndsValid(graph, f)
      /\ Distinct(e) /\ Distinct(f) /\ (e = f => "parallel" \in Workload)
      /\ graph' = both
      /\ ts' = ts + 2
      /\ log' = log \o <<[ts |-> ts + 1, ops |-> <<[op |-> "add", e |-> e]>>],
                         [ts |-> ts + 2, ops |-> <<[op |-> "add", e |-> f]>>]>>
      /\ UNCHANGED <<phase, arc, undo, base, before>>

\* The process dies and Open replays the log.
CrashAndRecover ==
  /\ "crash" \in Workload
  /\ Replay.ok
  /\ graph' = Replay.g
  /\ phase' = "idle"
  /\ ts' = IF log = <<>> THEN 0 ELSE Last(log).ts
  /\ arc' = <<>> /\ undo' = <<>>
  /\ UNCHANGED <<log, base, before>>

\* MutableCsr::compact and reset_timestamp.
Compacted(list) ==
  LET live == SelectSeq(list, LAMBDA slot : slot.ts # DELETED)
  IN  [i \in DOMAIN live |-> [live[i] EXCEPT !.ts = 0]]

Compact(g) ==
  [g EXCEPT !.out = [t \in Tables |-> [v \in Lids |-> Compacted(@[t][v])]],
            !.in = [t \in Tables |-> [v \in Lids |-> Compacted(@[t][v])]]]

\* Close compacts and writes a checkpoint; Open starts from it.
CloseAndOpen ==
  /\ phase = "idle"
  /\ graph' = Compact(graph) /\ base' = Compact(graph)
  /\ ts' = 0
  /\ log' = <<>>
  /\ UNCHANGED <<phase, arc, undo, before>>

ENext ==
  \/ Begin \/ Commit \/ Abort \/ CrashAndRecover \/ CloseAndOpen
  \/ \E e \in Edges : AddEdge(e) \/ DeleteEdges(e)
  \/ \E t \in Tables : \E matched \in Records(t) :
       \/ \E records \in SUBSET matched :
            Cardinality(records) \in 1..2 /\ BatchDeleteEdges(records)
       \/ \E e \in matched, v \in Vals : UpdateEdgeProperty(e, v)
  \/ \E l \in Labels, v \in Lids : DeleteVertex(l, v)
  \/ \E e, f \in Edges, inOrder, outOrder \in BOOLEAN :
       ConcurrentInserts(e, f, inOrder, outOrder)

ESpec == EInit /\ [][ENext]_evars

-----------------------------------------------------------------------------

\* Every edge is in the outgoing list of its source exactly when it is in the
\* incoming list of its target, with the same property.
Mirrored == Outgoing(graph) = Incoming(graph)

\* Between transactions, no edge starts or ends at a vertex that was deleted.
NoDangling ==
  phase = "idle" =>
    \A t \in Tables, v \in Lids :
      /\ \A i \in Live(graph.out[t][v]) :
           EndsValid(graph, [t |-> t, s |-> v, d |-> graph.out[t][v][i].nbr])
      /\ \A i \in Live(graph.in[t][v]) :
           EndsValid(graph, [t |-> t, s |-> graph.in[t][v][i].nbr, d |-> v])

\* Wherever an update transaction stands, undoing it succeeds and brings back
\* what was there when it began.
UndoRestores ==
  phase \in {"open", "failing"} =>
    revert_changes.ok /\ Content(revert_changes.g) = before

\* Between transactions, replaying the log reproduces the graph.
ReplayExact ==
  phase = "idle" => Replay.ok /\ Content(Replay.g) = Content(graph)
=============================================================================
