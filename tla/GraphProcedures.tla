--------------------------- MODULE GraphProcedures ---------------------------
(***************************************************************************)
(* The procedures of the louvain and kcore extensions as CALL runs them,   *)
(* one at a time: build the graph or a projection of it, compute, write    *)
(* the rows to a result file, return its name                              *)
(* (ExecuteLouvain..., ExecutePlain... in louvain_functions.h and          *)
(* kcore_functions.h).                                                     *)
(***************************************************************************)
EXTENDS Sequences, Projections, AdjacencyBuild, LouvainComputer, KcoreComputer

CONSTANTS Stored,         \* the stored graphs a call may find
          Bibliographies, \* the inputs of the projections
          Configs,        \* their parameters
          PubDsCap,       \* kPubDsCap
          MaxCalls, MaxClock

\* A stored edge has an id and starts at a vertex of its type.  No edge type uses
\* a label id of vertex_label_num or more: BuildGraph reads past the end of
\* label_offsets_ for such a type, which has no defined outcome.
ASSUME StoredAssumption ==
  \A s \in Stored :
    /\ IsFiniteSet(DOMAIN s.labels)
    /\ DOMAIN s.labels = 0..(Cardinality(DOMAIN s.labels) - 1)
    /\ \A l \in DOMAIN s.labels : s.labels[l].size \in Nat
    /\ \A k \in Labels, i \in {1, 2} : s.types[k][i] \in 0..(vertex_label_num(s) - 1)
    /\ IsFiniteSet(s.edges)
    /\ \A e \in s.edges : /\ e.label \in Labels /\ e.dst \in Nat
                           /\ e.src \in 0..(s.labels[s.types[e.label][1]].size - 1)
    /\ \A e, f \in s.edges : e.id = f.id => e = f

\* Finitely many publications, organizations and datasources; datasources are vids.
ASSUME BibliographyAssumption ==
  \A b \in Bibliographies :
    /\ IsFiniteSet(DOMAIN b.year) /\ IsFiniteSet(DOMAIN b.country)
    /\ IsFiniteSet(DOMAIN b.hosts) /\ DOMAIN b.hosts \subseteq Nat
    /\ \A d \in DOMAIN b.hosts : IsFiniteSet(b.hosts[d])

VARIABLES
  proc,      \* the procedure that is running, or "none"
  clock,     \* milliseconds, at the last return
  files,     \* files[<<prefix, ms>>]: the rows of a result file
  returned   \* the sequence of <<file name, rows>> handed to the callers

pvars == <<proc, clock, files, returned>>
allvars == <<pvars, bvars, lvars, kvars>>

PInit ==
  /\ proc = "none" /\ clock = 0 /\ files = <<>> /\ returned = <<>>
  /\ BInit /\ LInit /\ KInit

Louvains == {"LOUVAIN", "LOUVAIN_COAUTHOR", "LOUVAIN_INFRA_COUNTRY", "LOUVAIN_DATASOURCE"}

\* The weighted graph of a projection procedure.
Projected(p, b, cfg) ==
  CASE p = "LOUVAIN_COAUTHOR"      -> CoauthorProjection(b, cfg, 1)
    [] p = "LOUVAIN_INFRA_COUNTRY" -> InfraCountryProjection(b, cfg)
    [] p = "LOUVAIN_DATASOURCE"    -> DatasourceProjection(b, cfg, PubDsCap)
    [] p = "KCORE_COAUTHOR"        -> CoauthorProjection(b, cfg, cfg.min_edge_weight)
    [] p = "KCORE_PROJECT"         -> OrgProjectProjection(b, cfg)

Called(p) ==
  /\ proc = "none" /\ Len(returned) < MaxCalls
  /\ proc' = p
  /\ UNCHANGED <<clock, files, returned>>

\* CALL LOUVAIN: the parallel build, then the computation on its lists.
CallLouvain(s) ==
  /\ Called("LOUVAIN") /\ StartBuild(s)
  /\ UNCHANGED <<lvars, kvars>>

Build == BuildStep /\ UNCHANGED <<pvars, lvars, kvars>>

ComputeBuilt ==
  /\ proc = "LOUVAIN" /\ bstage = "built"
  /\ StartLouvain(ListWeights)
  /\ UNCHANGED <<pvars, bvars, kvars>>

\* CALL KCORE.
CallKcore(s) ==
  /\ Called("KCORE") /\ StartKCore(SequentialWeights(s))
  /\ UNCHANGED <<bvars, lvars>>

CallProjected(b, cfg) ==
  \/ \E p \in Louvains \ {"LOUVAIN"} :
       /\ Called(p) /\ StartLouvain(Projected(p, b, cfg))
       /\ UNCHANGED <<bvars, kvars>>
  \/ \E p \in {"KCORE_COAUTHOR", "KCORE_PROJECT"} :
       /\ Called(p) /\ StartKCore(Projected(p, b, cfg))
       /\ UNCHANGED <<bvars, lvars>>

Compute ==
  \/ LouvainStep /\ UNCHANGED <<pvars, bvars, kvars>>
  \/ KcoreStep /\ UNCHANGED <<pvars, bvars, lvars>>

\* The procedure ends ms milliseconds into the run; some of them may have
\* passed since the last call.
Leave(ms) ==
  /\ proc # "none" /\ "done" \in {lstage, kstage}
  /\ clock' = ms
  /\ proc' = "none"
  /\ lstage' = "idle" /\ kstage' = "idle" /\ bstage' = "idle"
  /\ UNCHANGED <<stored, num_vertex, live, label, sources, left, held, cursor,
                 lists, two_m, graph, adj, node_weight, comm, comm_total, node_to_orig,
                 new_comm, iter, any_moved, level, result, nbr, deg, bin, vert, pos,
                 coreness, slot, todo, summary>>

Rows == IF proc \in Louvains THEN result ELSE coreness

\* Generate...OutputPath: the procedure's prefix and the time in milliseconds.
OutputPath(ms) == <<proc, ms>>

\* The rows are written and the caller gets the name of their file.
Return(ms) ==
  LET name == OutputPath(ms)
  IN  /\ Leave(ms)
      /\ files' = [f \in DOMAIN files \cup {name} |-> IF f = name THEN Rows ELSE files[f]]
      /\ returned' = Append(returned, <<name, Rows>>)

\* The file cannot be opened: the louvain procedures return an empty context,
\* the kcore procedures do not look and return the name all the same.
ReturnUnwritten(ms) ==
  /\ Leave(ms)
  /\ returned' = Append(returned, IF proc \in Louvains THEN <<>>
                                  ELSE <<OutputPath(ms), Rows>>)
  /\ UNCHANGED files

PNext ==
  \/ Build \/ ComputeBuilt \/ Compute
  \/ \E ms \in clock..MaxClock : Return(ms) \/ ReturnUnwritten(ms)
  \/ \E s \in Stored : CallLouvain(s) \/ CallKcore(s)
  \/ \E b \in Bibliographies, cfg \in Configs : CallProjected(b, cfg)

\* A running procedure goes on; nobody has to call one.
PSpec == PInit /\ [][PNext]_allvars
PFairSpec == PSpec /\ WF_allvars(Build)
                   /\ WF_allvars(ComputeBuilt \/ Compute)
                   /\ WF_allvars(\E ms \in clock..MaxClock : Return(ms) \/ ReturnUnwritten(ms))

-----------------------------------------------------------------------------

\* A call returns: the passes, the moves, the levels and the peeling all end.
CallReturns == proc # "none" ~> proc = "none"

\* A result file still holds what its caller was told it holds.  Not so: two
\* calls within a millisecond share a file, and a kcore procedure names a file
\* it could not open.
ResultFileIntact ==
  \A i \in DOMAIN returned : returned[i] # <<>> =>
    /\ returned[i][1] \in DOMAIN files
    /\ files[returned[i][1]] = returned[i][2]
=============================================================================
