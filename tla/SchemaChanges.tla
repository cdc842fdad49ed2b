--------------------------- MODULE SchemaChanges ---------------------------
\* Schema changes of NeuG's update transactions and what they do to the graph:
\* label ids that are handed out once and tombstoned, properties and their
\* columns, soft deletes that Commit makes final and Abort takes back, the redo
\* records a restart replays (types by name, data by label id) in the order of
\* their timestamps, the compaction that renumbers the labels and lets the
\* timestamps start over, and the planner's copy of the label ids.
\*
\* An update transaction runs alone (VersionManager), so the steps of one
\* transaction are the only interleaving here; crashes fall anywhere between
\* them. Every operation carries a stamp, its number: a row, an edge and the
\* contents of a column are known by the stamp of the operation that wrote them.
\* Labels are counted from 1. Properties of edge types are not modelled.
EXTENDS Integers, Sequences, FiniteSets, SequencesExt

CONSTANTS
    VertexTypes,        \* names of vertex types
    EdgeTypes,          \* <<source type, destination type, edge label>> to use
    Props,              \* names of properties
    FirstProp,          \* the property a new vertex type has besides its key
    BaseLog,            \* redo records behind the checkpoint the instance starts from
    MaxOps,             \* bound on the operations of a behaviour
    MaxTxnOps,          \* operations of a transaction: 1 for a Cypher statement
    MaxCompactions,     \* bound on the compactions of a behaviour
    MaxTimestamp,       \* bound on the timestamps
    IgnoreErrors,       \* the caller commits after an operation that failed
    AbortNewLabels,     \* a transaction that took a new label id may abort
    RenameOnto,         \* a property may be renamed to the name of another
    ReplayUnordered     \* a restart may find the log out of the order of its timestamps

ASSUME SchemaChangesAssumption ==
    /\ EdgeTypes \subseteq VertexTypes \X VertexTypes \X STRING
    /\ FirstProp \in Props
    /\ MaxOps \in Nat /\ MaxTxnOps \in Nat \ {0} /\ MaxCompactions \in Nat
    /\ MaxTimestamp \in Nat
    /\ {IgnoreErrors, AbortNewLabels, RenameOnto, ReplayUnordered} \subseteq BOOLEAN

VARIABLES
    g,          \* the PropertyGraph
    log,        \* the write-ahead log: [ts, redo], in the order of the appends
    clock,      \* the last timestamp given out, write_ts_ - 1
    txn,        \* the open update transaction
    meta,       \* the label ids the planner compiles with
    ops         \* operations performed so far

vars == <<g, log, clock, txn, meta, ops>>

------------------------------------------------------------------------------
(* The graph: Schema, vertex tables and edge tables.                         *)

EmptyGraph == [vname |-> <<>>, vtomb |-> {}, vsch |-> <<>>, vtab |-> <<>>,
               ename |-> <<>>, etomb |-> {}, esch |-> {}, ttomb |-> {},
               etab |-> {}, edges |-> {}, dead |-> FALSE]

\* A table: its columns in order, and col_id_map_, the column of each name.
Dropped == [dropped |-> TRUE, rows |-> {}, cols |-> <<>>, ids |-> {}]

NewTable(props, s) ==
    [dropped |-> FALSE, rows |-> {},
     cols |-> [i \in DOMAIN props |-> s],
     ids |-> {<<props[i].name, i>> : i \in DOMAIN props}]

Index(names, n) == CHOOSE i \in DOMAIN names : names[i] = n

VId(gr, n) == Index(gr.vname, n)

contains_vertex_label(gr, n) ==
    n \in ToSet(gr.vname) /\ VId(gr, n) \notin gr.vtomb

vertex_label_valid(gr, v) == v \in DOMAIN gr.vname /\ v \notin gr.vtomb

\* The label ids of an edge type given by names.
TripleIds(gr, t) == <<VId(gr, t[1]), VId(gr, t[2]), Index(gr.ename, t[3])>>

exist(gr, ids) == ids \in gr.esch /\ ids \notin gr.ttomb

ExistNamed(gr, t) ==
    /\ contains_vertex_label(gr, t[1])
    /\ contains_vertex_label(gr, t[2])
    /\ t[3] \in ToSet(gr.ename)
    /\ Index(gr.ename, t[3]) \notin gr.etomb
    /\ exist(gr, TripleIds(gr, t))

Done(gr) == [ok |-> TRUE, gr |-> gr]
Failed(gr) == [ok |-> FALSE, gr |-> gr]

------------------------------------------------------------------------------
(* PropertyGraph's schema operations.                                        *)

\* Schema::AddVertexLabel: a name keeps its id for ever, and reviving one
\* replaces its property list.
AddVertexLabel(gr, n) ==
    LET fresh == n \notin ToSet(gr.vname)
        names == IF fresh THEN Append(gr.vname, n) ELSE gr.vname
        v == Index(names, n)
        new == [empty |-> FALSE, props |-> <<[name |-> FirstProp, soft |-> FALSE]>>]
    IN  [gr EXCEPT !.vname = names, !.vtomb = @ \ {v},
                   !.vsch = IF fresh THEN Append(@, new) ELSE [@ EXCEPT ![v] = new]]

CreateVertexType(gr, n, s) ==
    IF contains_vertex_label(gr, n) THEN Failed(gr)
    ELSE LET added == AddVertexLabel(gr, n)
             v == VId(added, n)
             table == NewTable(added.vsch[v].props, s)
         IN  IF v > Len(gr.vtab) THEN Done([added EXCEPT !.vtab = Append(@, table)])
             ELSE IF gr.vtab[v].dropped THEN Done([added EXCEPT !.vtab[v] = table])
             ELSE Failed(added)

\* Fault: the edges outlive their table.
DropEdgeTypesKeepEdges(gr, gone) ==
    LET known == gone \cap gr.esch
        left == gr.esch \ gone
    IN  [gr EXCEPT !.esch = left, !.ttomb = @ \cup known,
                   !.etomb = @ \cup ({t[3] : t \in known} \ {t[3] : t \in left}),
                   !.etab = @ \ gone]

\* Schema::DeleteEdgeLabel and the edge table of each of a set of edge types: an
\* edge label is tombstoned once no schema uses it.
DropEdgeTypes(gr, gone) ==
    LET known == gone \cap gr.esch
        left == gr.esch \ gone
    IN  [gr EXCEPT !.esch = left, !.ttomb = @ \cup known,
                   !.etomb = @ \cup ({t[3] : t \in known} \ {t[3] : t \in left}),
                   !.etab = @ \ gone,
                   !.edges = {e \in @ : e.type \notin gone}]

SoftDeleteEdgeLabel(gr, ids) == [gr EXCEPT !.ttomb = @ \cup {ids}]

\* PropertyGraph::DeleteVertexType: the label is tombstoned before the loop over
\* the vertex labels that are still valid looks for edge types to drop with it.
DeleteVertexType(gr, v) ==
    LET dropped == [gr EXCEPT !.vtomb = @ \cup {v}, !.vsch[v].empty = TRUE,
                              !.vsch[v].props = <<>>, !.vtab[v] = Dropped]
        Incident(t) == \/ t[1] = v /\ vertex_label_valid(dropped, t[2])
                       \/ t[2] = v /\ vertex_label_valid(dropped, t[1])
    IN  DropEdgeTypes(dropped, {t \in gr.esch : /\ Incident(t) /\ exist(gr, t)
                                                /\ t[3] \notin gr.etomb})

CreateEdgeType(gr, t) ==
    IF \/ ~contains_vertex_label(gr, t[1]) \/ ~contains_vertex_label(gr, t[2])
       \/ t[3] \in ToSet(gr.ename) /\ TripleIds(gr, t) \in gr.esch
    THEN Failed(gr)
    ELSE LET named == [gr EXCEPT !.ename = IF t[3] \in ToSet(@) THEN @
                                           ELSE Append(@, t[3])]
             ids == TripleIds(named, t)
             added == [named EXCEPT !.esch = @ \cup {ids}, !.ttomb = @ \ {ids},
                                    !.etomb = @ \ {ids[3]}]
         IN  IF ids \in gr.etab THEN Failed(added)
             ELSE Done([added EXCEPT !.etab = @ \cup {ids}])

\* The first property of that name, which is the one every lookup finds.
First(props, p) ==
    CHOOSE i \in DOMAIN props :
        /\ props[i].name = p
        /\ \A j \in 1..(i - 1) : props[j].name # p

has_property_internal(props, p) == \E i \in DOMAIN props : props[i].name = p

has_property(props, p) ==
    has_property_internal(props, p) /\ ~props[First(props, p)].soft

AddVertexProperties(gr, n, p, s) ==
    IF ~contains_vertex_label(gr, n) THEN Failed(gr)
    ELSE LET v == VId(gr, n) IN
         IF has_property(gr.vsch[v].props, p) THEN Failed(gr)
         ELSE LET col == Len(gr.vtab[v].cols) + 1
                  known == \E c \in gr.vtab[v].ids : c[1] = p
              IN  Done([gr EXCEPT
                    !.vsch[v].props = Append(@, [name |-> p, soft |-> FALSE]),
                    !.vtab[v].cols = Append(@, s),
                    !.vtab[v].ids = IF known THEN @ ELSE @ \cup {<<p, col>>}])

\* Table::rename_column: the new name is inserted unless it is there already.
rename_column(ids, p, q) ==
    LET moved == {c \in ids : c[1] = p}
        rest == ids \ moved
    IN  IF \E c \in rest : c[1] = q THEN rest
        ELSE rest \cup {<<q, c[2]>> : c \in moved}

RenameVertexProperties(gr, n, p, q) ==
    IF ~contains_vertex_label(gr, n) THEN Failed(gr)
    ELSE LET v == VId(gr, n)
             props == gr.vsch[v].props
             hit == {i \in DOMAIN props : props[i].name = p /\ ~props[i].soft}
         IN  IF ~has_property(props, p) THEN Failed(gr)
             ELSE Done([gr EXCEPT
                    !.vsch[v].props[CHOOSE i \in hit : \A j \in hit : i <= j].name = q,
                    !.vtab[v].ids = rename_column(@, p, q)])

\* Fault: the map keeps the old column numbers.
delete_columnStale(tab, p) ==
    LET col == (CHOOSE c \in tab.ids : c[1] = p)[2]
    IN  IF \A c \in tab.ids : c[1] # p THEN tab
        ELSE [tab EXCEPT !.cols = RemoveAt(@, col), !.ids = {c \in @ : c[1] # p}]

\* Table::delete_column: the columns behind the deleted one move up.
delete_column(tab, p) ==
    LET col == (CHOOSE c \in tab.ids : c[1] = p)[2]
    IN  IF \A c \in tab.ids : c[1] # p THEN tab
        ELSE [tab EXCEPT
                !.cols = RemoveAt(@, col),
                !.ids = {<<c[1], IF c[2] > col THEN c[2] - 1 ELSE c[2]>> :
                            c \in {d \in @ : d[1] # p}}]

DeleteVertexProperties(gr, n, p) ==
    IF ~contains_vertex_label(gr, n) THEN Failed(gr)
    ELSE LET v == VId(gr, n) IN
         IF ~has_property_internal(gr.vsch[v].props, p) THEN Failed(gr)
         ELSE Done([gr EXCEPT
                !.vsch[v].props = RemoveAt(@, First(@, p)),
                !.vtab[v] = delete_column(@, p)])

\* VertexSchema::delete_properties, soft, and revert_delete_properties.
SetSoft(gr, v, p, soft) ==
    IF has_property_internal(gr.vsch[v].props, p)
    THEN [gr EXCEPT !.vsch[v].props[First(gr.vsch[v].props, p)].soft = soft]
    ELSE gr

\* PropertyGraph::compact_schema: the labels that are left are numbered anew,
\* tombstones and the names behind them are gone.
compact_schema(gr) ==
    LET keepv == SelectSeq([i \in DOMAIN gr.vname |-> i],
                           LAMBDA i : i \notin gr.vtomb)
        keepe == SelectSeq([i \in DOMAIN gr.ename |-> i],
                           LAMBDA i : i \notin gr.etomb)
        Renumber(t) == <<Index(keepv, t[1]), Index(keepv, t[2]), Index(keepe, t[3])>>
        kept == {t \in gr.esch : /\ t[1] \notin gr.vtomb /\ t[2] \notin gr.vtomb
                                 /\ t[3] \notin gr.etomb /\ t \notin gr.ttomb}
    IN  [vname |-> [i \in DOMAIN keepv |-> gr.vname[keepv[i]]], vtomb |-> {},
         vsch |-> [i \in DOMAIN keepv |-> gr.vsch[keepv[i]]],
         vtab |-> [i \in DOMAIN keepv |-> gr.vtab[keepv[i]]],
         ename |-> [i \in DOMAIN keepe |-> gr.ename[keepe[i]]], etomb |-> {},
         esch |-> {Renumber(t) : t \in kept}, ttomb |-> {},
         etab |-> {Renumber(t) : t \in kept},
         edges |-> {[e EXCEPT !.type = Renumber(e.type)] :
                        e \in {f \in gr.edges : f.type \in kept}},
         dead |-> gr.dead]

------------------------------------------------------------------------------
(* Redo records: schema changes name their types, data records hold ids.     *)

AddVertex(gr, v, s) ==
    IF v \notin DOMAIN gr.vtab \/ gr.vtab[v].dropped THEN [gr EXCEPT !.dead = TRUE]
    ELSE [gr EXCEPT !.vtab[v].rows = @ \cup {s}]

\* CHECK(graph.get_lid(...)) ends the process when an end of the edge is missing.
AddEdge(gr, e) ==
    IF /\ e.type \in gr.etab
       /\ e.src \in gr.vtab[e.type[1]].rows /\ e.dst \in gr.vtab[e.type[2]].rows
    THEN [gr EXCEPT !.edges = @ \cup {e}]
    ELSE [gr EXCEPT !.dead = TRUE]

\* The records of one SET over the vertices of a type; again a vertex that is
\* missing ends the process, whereas a column that is missing is left alone.
UpdateProperty(gr, v, rows, col, s) ==
    IF v \notin DOMAIN gr.vtab \/ ~(rows \subseteq gr.vtab[v].rows)
    THEN [gr EXCEPT !.dead = TRUE]
    ELSE IF col \in DOMAIN gr.vtab[v].cols THEN [gr EXCEPT !.vtab[v].cols[col] = s]
    ELSE gr

\* get_vertex_label_id_internal and get_edge_label_id_internal throw on a name
\* that was never given an id.
Known(gr, names, labels) == names \subseteq ToSet(gr.vname) /\ labels \subseteq ToSet(gr.ename)

\* UpdateTransaction::IngestWal, one record: the status an operation returns is
\* not looked at.
Redo(gr, r) ==
    IF gr.dead THEN gr
    ELSE CASE r[1] = "CreateVertexType" -> CreateVertexType(gr, r[2], r[3]).gr
           [] r[1] = "CreateEdgeType" -> CreateEdgeType(gr, r[2]).gr
           [] r[1] = "AddVertexProperties" -> AddVertexProperties(gr, r[2], r[3], r[4]).gr
           [] r[1] = "RenameVertexProperties" -> RenameVertexProperties(gr, r[2], r[3], r[4]).gr
           [] r[1] = "DeleteVertexProperties" -> DeleteVertexProperties(gr, r[2], r[3]).gr
           [] r[1] = "DeleteVertexType" ->
                IF Known(gr, {r[2]}, {}) THEN DeleteVertexType(gr, VId(gr, r[2]))
                ELSE [gr EXCEPT !.dead = TRUE]
           [] r[1] = "DeleteEdgeType" ->
                IF Known(gr, {r[2][1], r[2][2]}, {r[2][3]})
                THEN DropEdgeTypes(gr, {TripleIds(gr, r[2])})
                ELSE [gr EXCEPT !.dead = TRUE]
           [] r[1] = "InsertVertex" -> AddVertex(gr, r[2], r[3])
           [] r[1] = "InsertEdge" -> AddEdge(gr, r[2])
           [] OTHER -> UpdateProperty(gr, r[2], r[3], r[4], r[5])

\* One record of the log; one of length 0 is a compaction.
IsCompaction(u) == u.redo = <<>>

ReplayUnit(gr, u) ==
    IF IsCompaction(u) /\ ~gr.dead THEN compact_schema(gr) ELSE FoldLeft(Redo, gr, u.redo)

Checkpoint == FoldLeft(Redo, EmptyGraph, BaseLog)

\* LocalWalParser::last_ts_.
LastTs == Max({0} \cup {log[i].ts : i \in DOMAIN log})

\* No transaction has committed between a compaction and the next start with a
\* timestamp that the log had reached before.
LogOrdered == \A i, j \in DOMAIN log : i < j => log[i].ts < log[j].ts

\* NeugDB::ingestWals over the list of LocalWalParser: std::sort by timestamp,
\* which puts records of one timestamp in any order.
Recovered ==
    LET Units(t) == {i \in DOMAIN log : log[i].ts = t}
        Replay(gr, order) == FoldLeft(LAMBDA acc, i : ReplayUnit(acc, log[i]), gr, order)
        Step(graphs, t) == {Replay(x[1], x[2]) : x \in graphs \X SetToSeqs(Units(t))}
    IN  FoldLeft(Step, {Checkpoint}, [t \in 1..LastTs |-> t])

------------------------------------------------------------------------------
(* The update transaction.                                                   *)

Closed == [open |-> FALSE, redo |-> <<>>, undo |-> <<>>, delv |-> {},
           dele |-> {}, delp |-> {}, changed |-> FALSE, failed |-> FALSE,
           before |-> EmptyGraph]

LabelIds(gr) == {<<gr.vname[v], v>> : v \in DOMAIN gr.vname \ gr.vtomb}

Init ==
    /\ g = Checkpoint
    /\ log = <<>>
    /\ clock = 0
    /\ txn = Closed
    /\ meta = LabelIds(g)
    /\ ops = 0

\* A transaction keeps its timestamp, also when it aborts or has nothing to log.
Begin ==
    /\ ~txn.open /\ ~g.dead
    /\ ops < MaxOps /\ clock < MaxTimestamp
    /\ clock' = clock + 1
    /\ txn' = [Closed EXCEPT !.open = TRUE, !.before = g]
    /\ UNCHANGED <<g, log, meta, ops>>

Ready ==
    /\ txn.open
    /\ txn.failed => IgnoreErrors
    /\ Len(txn.redo) < MaxTxnOps
    /\ ops < MaxOps

\* An operation writes its redo record and pushes its undo record before it
\* changes the graph; one that fails pops the undo record and leaves the other.
\* A rename that fails still counts as a schema change: it does not return early.
Perform(r, u, res, deferred) ==
    /\ Ready
    /\ g' = res.gr
    /\ ops' = ops + 1
    /\ txn' = [(IF res.ok \/ r[1] = "RenameVertexProperties" THEN deferred ELSE txn)
                EXCEPT !.redo = Append(@, r),
                       !.undo = IF res.ok THEN <<u>> \o @ ELSE @,
                       !.failed = ~res.ok]
    /\ UNCHANGED <<log, clock, meta>>

Stamp == ops + 1

Changed == [txn EXCEPT !.changed = TRUE]

TxnCreateVertexType(n) ==
    LET res == CreateVertexType(g, n, Stamp) IN
    /\ ~contains_vertex_label(g, n)
    /\ Perform(<<"CreateVertexType", n, Stamp>>, <<"CreateVertexType", n>>, res,
               [Changed EXCEPT !.delv = @ \ {VId(res.gr, n)}])

TxnCreateEdgeType(t) ==
    LET res == CreateEdgeType(g, t) IN
    /\ ~ExistNamed(g, t)
    /\ Perform(<<"CreateEdgeType", t>>, <<"CreateEdgeType", t>>, res,
               [Changed EXCEPT !.dele = @ \ {TripleIds(res.gr, t)}])

TxnAddVertexProperties(n, p) ==
    /\ contains_vertex_label(g, n)
    /\ Perform(<<"AddVertexProperties", n, p, Stamp>>,
               <<"AddVertexProperties", VId(g, n), p>>,
               AddVertexProperties(g, n, p, Stamp),
               [Changed EXCEPT !.delp = @ \ {<<VId(g, n), p>>}])

TxnRenameVertexProperties(n, p, q) ==
    /\ contains_vertex_label(g, n)
    /\ p # q
    /\ <<VId(g, n), p>> \notin txn.delp
    /\ RenameOnto \/ ~has_property_internal(g.vsch[VId(g, n)].props, q)
    /\ Perform(<<"RenameVertexProperties", n, p, q>>,
               <<"RenameVertexProperties", VId(g, n), p, q>>,
               RenameVertexProperties(g, n, p, q), Changed)

TxnDeleteVertexProperties(n, p) ==
    /\ contains_vertex_label(g, n)
    /\ <<VId(g, n), p>> \notin txn.delp
    /\ has_property(g.vsch[VId(g, n)].props, p)
    /\ Perform(<<"DeleteVertexProperties", n, p>>,
               <<"DeleteVertexProperties", VId(g, n), p>>,
               Done(SetSoft(g, VId(g, n), p, TRUE)),
               [Changed EXCEPT !.delp = @ \cup {<<VId(g, n), p>>}])

TxnDeleteVertexType(n) ==
    LET v == VId(g, n)
        soft == [g EXCEPT !.vtomb = @ \cup {v}]
        Incident(t) == \/ t[1] = v /\ vertex_label_valid(soft, t[2])
                       \/ t[2] = v /\ vertex_label_valid(soft, t[1])
    IN  /\ contains_vertex_label(g, n)
        /\ Perform(<<"DeleteVertexType", n>>, <<"DeleteVertexType", n>>, Done(soft),
                   [Changed EXCEPT !.delv = @ \cup {v},
                        !.dele = @ \cup {t \in g.esch : exist(g, t) /\ Incident(t)}])

TxnDeleteEdgeType(t) ==
    LET ids == TripleIds(g, t) IN
    /\ ExistNamed(g, t)
    /\ Perform(<<"DeleteEdgeType", t>>, <<"DeleteEdgeType", t>>,
               Done(SoftDeleteEdgeLabel(g, ids)),
               [Changed EXCEPT !.dele = @ \cup {ids}])

TxnAddVertex(n) ==
    LET v == VId(g, n) IN
    /\ contains_vertex_label(g, n)
    /\ Perform(<<"InsertVertex", v, Stamp>>, <<"InsertVertex", v, Stamp>>,
               Done(AddVertex(g, v, Stamp)), txn)

TxnAddEdge(t) ==
    LET ids == TripleIds(g, t) IN
    /\ ExistNamed(g, t) /\ ids \notin txn.dele
    /\ \E s \in g.vtab[ids[1]].rows, d \in g.vtab[ids[2]].rows :
        LET e == [type |-> ids, src |-> s, dst |-> d] IN
        /\ e \notin g.edges
        /\ Perform(<<"InsertEdge", e>>, <<"InsertEdge", e>>, Done(AddEdge(g, e)), txn)

TxnUpdateProperty(n, p) ==
    LET v == VId(g, n)
        col == First(g.vsch[v].props, p)
    IN  /\ contains_vertex_label(g, n)
        /\ g.vtab[v].rows # {}
        /\ <<v, p>> \notin txn.delp
        /\ has_property(g.vsch[v].props, p)
        /\ Perform(<<"UpdateVertexProp", v, g.vtab[v].rows, col, Stamp>>,
                   <<"UpdateVertexProp", v, col, g.vtab[v].cols[col]>>,
                   Done(UpdateProperty(g, v, g.vtab[v].rows, col, Stamp)), txn)

------------------------------------------------------------------------------
(* Commit, Abort, compaction and restart.                                    *)

\* applyVertexPropDeletion, one label: DeleteVertexProperties of all its names,
\* refused when one of them is missing.
ApplyPropDeletions(gr, v, props) ==
    IF ~vertex_label_valid(gr, v)
       \/ \E p \in props : ~has_property_internal(gr.vsch[v].props, p)
    THEN gr
    ELSE FoldSet(LAMBDA p, acc : DeleteVertexProperties(acc, gr.vname[v], p).gr,
                 gr, props)

\* Fault: the deferred property deletions are forgotten.
ApplyDeletionsOfTypes(gr) ==
    FoldSet(LAMBDA v, acc : DeleteVertexType(acc, v),
            DropEdgeTypes(gr, txn.dele), txn.delv)

ApplyDeletions(gr) ==
    LET types == FoldSet(LAMBDA v, acc : DeleteVertexType(acc, v),
                         DropEdgeTypes(gr, txn.dele), txn.delv)
    IN  FoldSet(LAMBDA v, acc :
                    ApplyPropDeletions(acc, v, {d[2] : d \in {x \in txn.delp : x[1] = v}}),
                types, {d[1] : d \in txn.delp})

Commit ==
    /\ txn.open
    /\ txn.failed => IgnoreErrors
    /\ IF txn.redo = <<>> THEN UNCHANGED <<g, log, meta>>
       ELSE /\ log' = Append(log, [ts |-> clock, redo |-> txn.redo])
            /\ g' = ApplyDeletions(g)
            /\ meta' = IF txn.changed THEN LabelIds(g') ELSE meta
    /\ txn' = Closed
    /\ UNCHANGED <<clock, ops>>

Throw(gr) == [gr EXCEPT !.dead = TRUE]

Checked(res) == IF res.ok THEN res.gr ELSE Throw(res.gr)

\* Fault: the names are not exchanged.
UndoRenameForward(gr, v, p, q) ==
    Checked(RenameVertexProperties(gr, gr.vname[v], p, q))

\* RenameVertexPropUndo::Undo, once the label has been found valid.
UndoRename(gr, v, p, q) ==
    Checked(RenameVertexProperties(gr, gr.vname[v], q, p))

\* One undo record. One that throws leaves the destructor of the transaction
\* with an exception, which ends the process.
Undo(gr, u) ==
    LET OfLabel(res) == IF vertex_label_valid(gr, u[2]) THEN res ELSE Failed(gr)
    IN  IF gr.dead THEN gr
        ELSE CASE u[1] = "CreateVertexType" -> DeleteVertexType(gr, VId(gr, u[2]))
               [] u[1] = "CreateEdgeType" -> DropEdgeTypes(gr, {TripleIds(gr, u[2])})
               [] u[1] = "AddVertexProperties" ->
                    Checked(OfLabel(DeleteVertexProperties(gr, gr.vname[u[2]], u[3])))
               [] u[1] = "RenameVertexProperties" ->
                    IF vertex_label_valid(gr, u[2]) THEN UndoRename(gr, u[2], u[3], u[4])
                    ELSE Throw(gr)
               [] u[1] = "DeleteVertexProperties" ->
                    Checked(OfLabel(Done(SetSoft(gr, u[2], u[3], FALSE))))
               [] u[1] = "DeleteVertexType" ->
                    LET v == VId(gr, u[2]) IN
                    IF v \notin gr.vtomb \/ gr.vsch[v].empty THEN Throw(gr)
                    ELSE [gr EXCEPT !.vtomb = @ \ {v}]
               [] u[1] = "DeleteEdgeType" ->
                    LET ids == TripleIds(gr, u[2]) IN
                    IF ExistNamed(gr, u[2]) \/ ids \notin gr.ttomb \cap gr.esch THEN Throw(gr)
                    ELSE [gr EXCEPT !.ttomb = @ \ {ids}, !.etomb = @ \ {ids[3]}]
               [] u[1] = "InsertVertex" -> [gr EXCEPT !.vtab[u[2]].rows = @ \ {u[3]}]
               [] u[1] = "InsertEdge" -> [gr EXCEPT !.edges = @ \ {u[2]}]
               [] OTHER -> [gr EXCEPT !.vtab[u[2]].cols[u[3]] = u[4]]

\* UpdateTransaction::Abort, called for, after an error, or by Commit when the
\* log cannot be appended to.
Abort ==
    /\ txn.open
    /\ AbortNewLabels \/ /\ g.vname = txn.before.vname
                         /\ g.ename = txn.before.ename
    /\ g' = FoldLeft(Undo, g, txn.undo)
    /\ txn' = Closed
    /\ UNCHANGED <<log, clock, meta, ops>>

\* CompactTransaction::Commit: a record of length 0, PropertyGraph::Compact, and
\* VersionManager::clear, after which the next timestamp is 1. Neither the
\* planner nor the query caches hear of it.
Compact ==
    /\ ~txn.open /\ ~g.dead
    /\ clock < MaxTimestamp
    /\ Cardinality({i \in DOMAIN log : IsCompaction(log[i])}) < MaxCompactions
    /\ log' = Append(log, [ts |-> clock + 1, redo |-> <<>>])
    /\ g' = compact_schema(g)
    /\ clock' = 0
    /\ UNCHANGED <<txn, meta, ops>>

\* The process ends at any point and the database is opened again; the version
\* manager goes on after the last timestamp of the log.
Restart ==
    /\ ReplayUnordered \/ LogOrdered
    /\ g' \in Recovered
    /\ clock' = LastTs
    /\ txn' = Closed
    /\ meta' = LabelIds(g')
    /\ UNCHANGED <<log, ops>>

Next ==
    \/ Begin \/ Commit \/ Abort \/ Compact \/ Restart
    \/ \E n \in VertexTypes :
        \/ TxnCreateVertexType(n) \/ TxnDeleteVertexType(n) \/ TxnAddVertex(n)
        \/ \E p \in Props : \/ TxnAddVertexProperties(n, p)
                            \/ TxnDeleteVertexProperties(n, p)
                            \/ TxnUpdateProperty(n, p)
                            \/ \E q \in Props : TxnRenameVertexProperties(n, p, q)
    \/ \E t \in EdgeTypes : TxnCreateEdgeType(t) \/ TxnDeleteEdgeType(t) \/ TxnAddEdge(t)

Spec == Init /\ [][Next]_vars

------------------------------------------------------------------------------
(* Properties.                                                               *)

\* What queries can see: the types by name, the rows, what each visible property
\* reads through its index, and the edges of the edge types that exist.
Observed(gr) ==
    [types |-> {[name |-> gr.vname[v], rows |-> gr.vtab[v].rows,
                 props |-> {<<gr.vsch[v].props[i].name, gr.vtab[v].cols[i]>> :
                            i \in {j \in DOMAIN gr.vsch[v].props :
                                    /\ ~gr.vsch[v].props[j].soft
                                    /\ j = First(gr.vsch[v].props, gr.vsch[v].props[j].name)
                                    /\ j \in DOMAIN gr.vtab[v].cols}}] :
                v \in DOMAIN gr.vname \ gr.vtomb},
     edges |-> {[type |-> t, edges |-> {<<e.src, e.dst>> :
                                e \in {f \in gr.edges : f.type = TripleIds(gr, t)}}] :
                t \in {u \in EdgeTypes : ExistNamed(gr, u)}}]

\* An aborted transaction leaves no trace: Abort brings back the types, the
\* properties with the columns behind them, the rows and the edges that the
\* transaction found, and no undo record throws (UpdateTransaction::revert_changes).
AbortRestores ==
    [][txn.open /\ Abort => ~g'.dead /\ Observed(g') = Observed(txn.before)]_vars

\* No undo record throws: an Abort always completes, instead of ending the
\* process from the destructor of the transaction.
AbortCompletes == ~g.dead

\* Whenever no transaction is open, replaying the log after a crash gives the
\* graph that queries see, in whichever order the sort leaves records of one
\* timestamp.
ReplayAgrees ==
    ~txn.open /\ ~g.dead =>
        \A gr \in Recovered : ~gr.dead /\ Observed(gr) = Observed(g)

\* As long as the timestamps of the log ascend, a crash loses no schema change:
\* every record finds the label ids, the columns and the vertices that it was
\* written with, also those that a compaction numbered anew before it, and the
\* soft deletes of the live graph end where the hard deletes of the replay do
\* (UpdateTransaction::IngestWal). Where they do not ascend ReplayAgrees fails.
RecoveryAgrees == LogOrdered => ReplayAgrees

\* Between transactions a property is the same column by index and by name: the
\* schema's list, the columns and col_id_map_ of each vertex table agree, and no
\* two properties of a type have one name.
TablesMatch ==
    ~txn.open =>
        \A v \in DOMAIN g.vname \ g.vtomb :
            LET props == g.vsch[v].props IN
            /\ Len(g.vtab[v].cols) = Len(props)
            /\ g.vtab[v].ids = {<<props[i].name, i>> : i \in DOMAIN props}
            /\ \A i, j \in DOMAIN props : i # j => props[i].name # props[j].name

\* Dropping a vertex type takes its edges along: an edge of an edge type that
\* exists has both its ends, also after a type is created again under the name
\* and the label id of a dropped one.
NoDanglingEdges ==
    ~txn.open =>
        \A t \in EdgeTypes, e \in g.edges :
            ExistNamed(g, t) /\ e.type = TripleIds(g, t) =>
                /\ e.src \in g.vtab[e.type[1]].rows
                /\ e.dst \in g.vtab[e.type[2]].rows

\* The label ids that plans are compiled with are those of the graph they run
\* on, whenever no transaction is open (the planner gets the schema only from
\* clearGlobalCache and when the database is opened).
PlanIdsCurrent ==
    ~txn.open => \A m \in meta : vertex_label_valid(g, m[2]) /\ g.vname[m[2]] = m[1]
=============================================================================
