--------------------------- MODULE AdjacencyBuild ---------------------------
(***************************************************************************)
(* LouvainComputer::BuildGraph: OpenMP threads build the undirected        *)
(* adjacency lists of the graph in two passes over the stored edges, one   *)
(* that counts degrees and one that fills lists of exactly that length     *)
(* through a shared cursor per vertex                                      *)
(* (extension/louvain/include/louvain_functions.h).  A CALL is never a     *)
(* read request (is_read_only, analyzeMode): it has the graph to itself.   *)
(*                                                                         *)
(* The passes run one edge type after another with a barrier after each;   *)
(* within a type a thread claims a source vertex and walks its edges.      *)
(*                                                                         *)
(* A stored graph s has vertex labels and edge types.  s.labels[l], for    *)
(* every label id that was ever given out, is [size, removed, dropped]:    *)
(* its vids are 0..size-1, removed are the deleted ones, which keep their  *)
(* number, and dropped says that the label has a tombstone.  s.types[k] is *)
(* the <<source label, destination label>> of an edge type.  An edge of    *)
(* s.edges is [id, src, dst, label, deleted]: vids and the number of its   *)
(* type.                                                                   *)
(***************************************************************************)
EXTENDS Integers, FiniteSets

CONSTANTS Threads, Labels, NoEdge

\* Labels is 1..k: the edge types as get_all_edge_schemas yields them.
ASSUME LabelsAssumption == IsFiniteSet(Labels) /\ Labels = 1..Cardinality(Labels)

\* An unwritten slot cannot be mistaken for a vertex.
ASSUME NoEdgeAssumption == NoEdge \notin Nat

VARIABLES
  bstage,   \* "idle", "count", "fill", "built"
  stored,   \* the graph of the call
  num_vertex,
  live,     \* the edges the passes visit, their ends by global id
  label,    \* the edge type of the parallel loop that is running
  sources,  \* its source vertices no thread has claimed yet
  left,     \* left[t]: edges of the claimed vertex that t has still to handle
  held,     \* held[t]: the edge t is filling in and the slots it has taken
  cursor,   \* deg: degree counts, then per-vertex cursors
  lists     \* adj_: lists[u][i], or NoEdge while the slot is unwritten

bvars == <<bstage, stored, num_vertex, live, label, sources, left, held, cursor, lists>>

AllVertices == 0..(num_vertex - 1)
Idle == [edge |-> NoEdge, pu |-> -1, pv |-> -1]

BInit ==
  /\ bstage = "idle" /\ stored = <<>> /\ num_vertex = 0 /\ live = {}
  /\ label = 0 /\ sources = {} /\ left = [t \in Threads |-> {}]
  /\ held = [t \in Threads |-> Idle] /\ cursor = <<>> /\ lists = <<>>

Valid(s) == {l \in DOMAIN s.labels : ~s.labels[l].dropped}

vertex_label_num(s) == Cardinality(Valid(s))

\* Step 1 gives an offset to the valid labels below vertex_label_num, in order;
\* the others keep -1.  Numbered are the vertices of these labels.
Mapped(s) == {l \in Valid(s) : l < vertex_label_num(s)}

VerticesOf(s, ls) == UNION {{l} \X (0..(s.labels[l].size - 1)) : l \in ls}

Numbered(s) == VerticesOf(s, Mapped(s))

label_offset(s, l) == Cardinality({p \in Numbered(s) : p[1] < l})

GlobalId(s, p) == label_offset(s, p[1]) + p[2]

NumVertex(s) == Cardinality(Numbered(s))

\* An edge type of which a label has no offset is skipped.
Skipped(s, k) == ~(s.types[k][1] \in Mapped(s) /\ s.types[k][2] \in Mapped(s))

\* The source vertices of an edge type, by global id.
SourceIds(s, k) ==
  {GlobalId(s, p) : p \in {q \in Numbered(s) :
                              k \in Labels /\ ~Skipped(s, k) /\ q[1] = s.types[k][1]}}

\* The edges the passes visit: IsValidVertex for the source, the entries the
\* NbrIterator shows, and label_sizes bounds dst.
Visible(s) ==
  {e \in s.edges : /\ ~Skipped(s, e.label) /\ ~e.deleted
                   /\ e.src \notin s.labels[s.types[e.label][1]].removed
                   /\ e.dst < s.labels[s.types[e.label][2]].size}

ByGlobalId(s, e) == [id |-> e.id, label |-> e.label,
                     src |-> GlobalId(s, <<s.types[e.label][1], e.src>>),
                     dst |-> GlobalId(s, <<s.types[e.label][2], e.dst>>)]

Visited(s) == {ByGlobalId(s, e) : e \in Visible(s)}

\* BuildGraph up to the first parallel loop; an empty graph returns at once.
StartBuild(s) ==
  /\ bstage = "idle"
  /\ stored' = s /\ num_vertex' = NumVertex(s) /\ live' = Visited(s)
  /\ bstage' = IF num_vertex' = 0 THEN "built" ELSE "count"
  /\ label' = 1 /\ sources' = SourceIds(s, 1)
  /\ cursor' = [u \in AllVertices' |-> 0] /\ lists' = [u \in AllVertices' |-> <<>>]
  /\ UNCHANGED <<left, held>>

\* A thread takes a source vertex of the loop and its list of neighbours.
Claim(t, u) ==
  /\ bstage \in {"count", "fill"}
  /\ u \in sources /\ left[t] = {} /\ held[t] = Idle
  /\ sources' = sources \ {u}
  /\ left' = [left EXCEPT ![t] = {e \in live : e.src = u /\ e.label = label}]
  /\ UNCHANGED <<bstage, stored, num_vertex, live, label, held, cursor, lists>>

Bump(u) == cursor' = [cursor EXCEPT ![u] = @ + 1]

\* First pass: the two fetch_adds; nobody reads a count before the barrier.
CountEdge(t, e) ==
  /\ bstage = "count" /\ e \in left[t]
  /\ cursor' = [u \in AllVertices |->
                  cursor[u] + Cardinality({i \in {1, 2} : <<e.src, e.dst>>[i] = u})]
  /\ left' = [left EXCEPT ![t] = @ \ {e}]
  /\ UNCHANGED <<bstage, stored, num_vertex, live, label, sources, held, lists>>

\* Second pass: pu, pv and the two entries.
TakeSrcSlot(t, e) ==
  /\ bstage = "fill" /\ held[t] = Idle /\ e \in left[t]
  /\ held' = [held EXCEPT ![t] = [edge |-> e, pu |-> cursor[e.src], pv |-> -1]]
  /\ Bump(e.src)
  /\ UNCHANGED <<bstage, stored, num_vertex, live, label, sources, left, lists>>

TakeDstSlot(t) ==
  /\ held[t] # Idle /\ held[t].pv = -1
  /\ held' = [held EXCEPT ![t].pv = cursor[held[t].edge.dst]]
  /\ Bump(held[t].edge.dst)
  /\ UNCHANGED <<bstage, stored, num_vertex, live, label, sources, left, lists>>

\* Fault: only the entry of the source is written.
WriteEntriesOneSided(t) ==
  /\ held[t].pv # -1
  /\ lists' = [lists EXCEPT ![held[t].edge.src][held[t].pu] = held[t].edge.dst]
  /\ left' = [left EXCEPT ![t] = @ \ {held[t].edge}]
  /\ held' = [held EXCEPT ![t] = Idle]
  /\ UNCHANGED <<bstage, stored, num_vertex, live, label, sources, cursor>>

\* The writes go to the slots taken; one past the end of a list has no effect
\* on the lists.
WriteEntries(t) ==
  /\ held[t].pv # -1
  /\ LET h == held[t]
     IN  lists' = [u \in AllVertices |-> [i \in DOMAIN lists[u] |->
                     CASE u = h.edge.dst /\ i = h.pv -> h.edge.src
                       [] u = h.edge.src /\ i = h.pu -> h.edge.dst
                       [] OTHER -> lists[u][i]]]
  /\ left' = [left EXCEPT ![t] = @ \ {held[t].edge}]
  /\ held' = [held EXCEPT ![t] = Idle]
  /\ UNCHANGED <<bstage, stored, num_vertex, live, label, sources, cursor>>

LoopDone == sources = {} /\ \A t \in Threads : left[t] = {} /\ held[t] = Idle

\* The implicit barrier of a parallel loop, between two types of a pass.
NextLabel ==
  /\ bstage \in {"count", "fill"} /\ LoopDone /\ label + 1 \in Labels
  /\ label' = label + 1 /\ sources' = SourceIds(stored, label + 1)
  /\ UNCHANGED <<bstage, stored, num_vertex, live, left, held, cursor, lists>>

\* Between the passes: the lists get their length, the counts become cursors.
Allocate ==
  /\ bstage = "count" /\ LoopDone /\ label + 1 \notin Labels
  /\ lists' = [u \in AllVertices |-> [i \in 0..(cursor[u] - 1) |-> NoEdge]]
  /\ cursor' = [u \in AllVertices |-> 0]
  /\ bstage' = "fill" /\ label' = 1 /\ sources' = SourceIds(stored, 1)
  /\ UNCHANGED <<stored, num_vertex, live, left, held>>

FinishBuild ==
  /\ bstage = "fill" /\ LoopDone /\ label + 1 \notin Labels
  /\ bstage' = "built"
  /\ UNCHANGED <<stored, num_vertex, live, label, sources, left, held, cursor, lists>>

BuildStep ==
  \/ NextLabel \/ Allocate \/ FinishBuild
  \/ \E t \in Threads :
       \/ \E u \in sources : Claim(t, u)
       \/ \E e \in left[t] : CountEdge(t, e) \/ TakeSrcSlot(t, e)
       \/ TakeDstSlot(t)
       \/ WriteEntries(t)

\* The weight function that the lists add up to.
ListWeights ==
  [u \in AllVertices |-> [v \in AllVertices |->
     Cardinality({i \in DOMAIN lists[u] : lists[u][i] = v})]]

\* KcoreComputer::BuildGraph numbers the vertices in the same way and adds the
\* same entries in one sequential pass.
SequentialWeights(s) ==
  LET seen == Visited(s)
      from(u, v) == Cardinality({e \in seen : e.src = u /\ e.dst = v})
  IN  [u \in 0..(NumVertex(s) - 1) |-> [v \in 0..(NumVertex(s) - 1) |->
         from(u, v) + from(v, u)]]

-----------------------------------------------------------------------------

\* Slot i of the list of u is inside it and free, and no thread but t holds it.
OwnSlot(t, u, i) ==
  /\ i \in DOMAIN lists[u] /\ lists[u][i] = NoEdge
  /\ \A s \in Threads \ {t} :
       ~(held[s] # Idle /\ (\/ held[s].edge.src = u /\ held[s].pu = i
                            \/ held[s].edge.dst = u /\ held[s].pv = i))

\* The vertices of the types that exist.
ValidVertices(s) == VerticesOf(s, Valid(s))

\* The edges from p to q, unless they or p are deleted.
Joining(s, p, q) ==
  {e \in s.edges : /\ ~e.deleted /\ e.src \notin s.labels[p[1]].removed
                   /\ <<s.types[e.label][1], e.src>> = p
                   /\ <<s.types[e.label][2], e.dst>> = q}

\* No valid label has an id of vertex_label_num or more.  Dropping a type takes
\* this away, unless it has the last id, until a compaction numbers the labels
\* anew.
LabelsDense(s) == Valid(s) = Mapped(s)

\* Every vertex of every valid label has a global id of its own
\* (louvain_functions.h:504, "global_id = label_offsets_[label] + vid for any
\* valid label").  Not so when a label below a valid one was dropped.
EveryVertexNumbered ==
  bstage # "idle" =>
    /\ \A p \in ValidVertices(stored) : GlobalId(stored, p) \in AllVertices
    /\ \A p, q \in ValidVertices(stored) : GlobalId(stored, p) = GlobalId(stored, q) => p = q

\* The weights are those of the stored graph.
WeightsOf(s, w) ==
  /\ \A p \in ValidVertices(s) : GlobalId(s, p) \in DOMAIN w
  /\ \A u \in DOMAIN w : \E p \in ValidVertices(s) : GlobalId(s, p) = u
  /\ \A p, q \in ValidVertices(s) :
       /\ GlobalId(s, p) = GlobalId(s, q) => p = q
       /\ w[GlobalId(s, p)][GlobalId(s, q)]
            = Cardinality(Joining(s, p, q)) + Cardinality(Joining(s, q, p))

\* A thread about to write holds a slot inside the list that nobody has
\* written and nobody else holds (BuildGraph, step 4: adj_ is not resized and
\* not locked, so a slot past the end or shared by two threads corrupts it).
\* When BuildGraph is done, every slot is written, in whatever order the threads
\* took them, the lists add up to what the sequential build of KcoreComputer
\* has, and where the label ids are dense that is the stored graph: the global
\* ids are a numbering of the vertices of all labels, and each edge stands once
\* in the list of either end.
BuiltExact ==
  /\ \A t \in Threads : held[t] # Idle =>
       /\ OwnSlot(t, held[t].edge.src, held[t].pu)
       /\ held[t].pv # -1 => OwnSlot(t, held[t].edge.dst, held[t].pv)
       /\ held[t].edge.src = held[t].edge.dst => held[t].pu # held[t].pv
  /\ bstage = "built" =>
       /\ \A u \in AllVertices : \A i \in DOMAIN lists[u] : lists[u][i] # NoEdge
       /\ ListWeights = SequentialWeights(stored)
       /\ LabelsDense(stored) => WeightsOf(stored, ListWeights)
=============================================================================
