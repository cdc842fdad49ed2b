---------------------------- MODULE KcoreComputer ----------------------------
(***************************************************************************)
(* KcoreComputer::RunKCore of the kcore extension: the peeling of Batagelj *)
(* and Zaversnik.  The vertices stand in vert in ascending order of the    *)
(* degree they have left, bin[d] is the first slot of degree d, and a      *)
(* neighbour that loses a degree is swapped to the front of its bin, which *)
(* then starts one slot later                                              *)
(* (extension/kcore/include/kcore_functions.h).                            *)
(***************************************************************************)
EXTENDS Integers, FiniteSets, FiniteSetsExt, Functions

VARIABLES
  kstage,    \* "idle", "peel" (about to peel vert[i]), "visit", "done"
  nbr,       \* the neighbours of each vertex, duplicates and loops dropped
  deg,       \* the degree each vertex has left
  bin, vert, pos,
  coreness,
  slot,      \* i, the index of the vertex being peeled
  todo,      \* the neighbours of vert[slot] still to be visited
  summary    \* max_coreness and num_in_max_core of the last computation

kvars == <<kstage, nbr, deg, bin, vert, pos, coreness, slot, todo, summary>>

KVertices == DOMAIN nbr

\* The neighbour lists of RunKCore, from the entries of adj_.
SimpleNbrs(g) == [v \in DOMAIN g |-> {u \in DOMAIN g \ {v} : g[v][u] > 0}]

\* deg at the start.
Degrees(g) == [v \in DOMAIN g |-> Cardinality(SimpleNbrs(g)[v])]

NoSummary == [max_coreness |-> 0, num_in_max_core |-> 0]

KInit ==
  /\ kstage = "idle" /\ summary = NoSummary
  /\ nbr = <<>> /\ deg = <<>> /\ bin = <<>> /\ vert = <<>> /\ pos = <<>>
  /\ coreness = <<>> /\ slot = 0 /\ todo = {}

\* The bucket sort: below d come the vertices of a smaller degree.  The
\* vector bin has one more element than there are degrees, which stays 0.
StartBins(d) ==
  LET md == Max({d[v] : v \in DOMAIN d})
  IN  [k \in 0..(md + 1) |->
         IF k = md + 1 THEN 0 ELSE Cardinality({v \in DOMAIN d : d[v] < k})]

SortedPos(d) ==
  [v \in DOMAIN d |->
     Cardinality({u \in DOMAIN d : d[u] < d[v] \/ (d[u] = d[v] /\ u < v)})]

\* RunKCore up to the peeling loop; Compute returns an empty graph at once.
StartKCore(g) ==
  /\ kstage = "idle"
  /\ nbr' = SimpleNbrs(g)
  /\ deg' = Degrees(g)
  /\ pos' = SortedPos(deg')
  /\ vert' = [i \in DOMAIN g |-> CHOOSE v \in DOMAIN g : SortedPos(deg')[v] = i]
  /\ bin' = IF DOMAIN g = {} THEN <<>> ELSE StartBins(deg')
  /\ coreness' = [v \in DOMAIN g |-> 0]
  /\ slot' = 0 /\ todo' = {} /\ summary' = NoSummary
  /\ kstage' = IF DOMAIN g = {} THEN "done" ELSE "peel"

\* Fault: a vertex leaves with the degree it had at the start.
PeelInitialDegree ==
  /\ kstage = "peel"
  /\ coreness' = [coreness EXCEPT ![vert[slot]] = Cardinality(nbr[vert[slot]])]
  /\ todo' = nbr[vert[slot]]
  /\ kstage' = "visit"
  /\ UNCHANGED <<nbr, deg, bin, vert, pos, slot, summary>>

\* The head of the peeling loop: vert[i] leaves with the degree it has left.
Peel ==
  /\ kstage = "peel"
  /\ coreness' = [coreness EXCEPT ![vert[slot]] = deg[vert[slot]]]
  /\ todo' = nbr[vert[slot]]
  /\ kstage' = "visit"
  /\ UNCHANGED <<nbr, deg, bin, vert, pos, slot, summary>>

\* Fault: the bin keeps its start although its first vertex left it.
VisitStaleBin(u) ==
  LET w == vert[bin[deg[u]]]
  IN  /\ kstage = "visit" /\ u \in todo
      /\ todo' = todo \ {u}
      /\ IF deg[u] > deg[vert[slot]]
         THEN /\ pos' = [pos EXCEPT ![w] = pos[u], ![u] = pos[w]]
              /\ vert' = [vert EXCEPT ![pos[u]] = w, ![pos[w]] = u]
              /\ deg' = [deg EXCEPT ![u] = @ - 1]
         ELSE UNCHANGED <<pos, vert, deg>>
      /\ UNCHANGED <<kstage, nbr, bin, coreness, slot, summary>>

\* The inner loop for the neighbour u: nothing changes unless u has more
\* degree left than the vertex being peeled.
Visit(u) ==
  LET du == deg[u]
      pu == pos[u]
      pw == bin[du]
      w  == vert[pw]
  IN  /\ kstage = "visit" /\ u \in todo
      /\ todo' = todo \ {u}
      /\ IF du > deg[vert[slot]]
         THEN /\ pos' = [pos EXCEPT ![w] = pu, ![u] = pw]
              /\ vert' = [vert EXCEPT ![pu] = w, ![pw] = u]
              /\ bin' = [bin EXCEPT ![du] = @ + 1]
              /\ deg' = [deg EXCEPT ![u] = @ - 1]
         ELSE UNCHANGED <<pos, vert, bin, deg>>
      /\ UNCHANGED <<kstage, nbr, coreness, slot, summary>>

\* The next vertex; after the last one Compute counts the maximal core.
NextSlot ==
  /\ kstage = "visit" /\ todo = {}
  /\ slot' = slot + 1
  /\ IF slot + 1 \in KVertices
     THEN kstage' = "peel" /\ UNCHANGED summary
     ELSE LET mc == Max({coreness[v] : v \in KVertices})
          IN  /\ kstage' = "done"
              /\ summary' = [max_coreness |-> mc,
                             num_in_max_core |->
                               Cardinality({v \in KVertices : coreness[v] = mc})]
  /\ UNCHANGED <<nbr, deg, bin, vert, pos, coreness, todo>>

KcoreStep == Peel \/ (\E u \in todo : Visit(u)) \/ NextSlot

-----------------------------------------------------------------------------

\* The largest set of vertices with at least k neighbours inside the set.
Core(k) ==
  UNION {S \in SUBSET KVertices : \A v \in S : Cardinality(nbr[v] \cap S) >= k}

\* A peeled vertex has the coreness that the definition of a k-core gives it:
\* it is in the k-core and in no higher one.  RunKCore, the peeling loop.
CorenessExact ==
  \A v \in KVertices :
    kstage = "done" \/ (kstage # "idle" /\ pos[v] < slot) =>
      v \in Core(coreness[v]) /\ v \notin Core(coreness[v] + 1)

\* Through every swap vert and pos stay inverse permutations and the slots not
\* yet peeled stay in ascending order of the degree left; and the bin of a
\* neighbour about to be moved starts behind the vertex being peeled and at the
\* first slot of its degree: no peeled vertex is swapped back, no vertex jumps
\* over one of a lower degree.  RunKCore, the swap in the inner loop, pw = bin[du].
BinsExact ==
  /\ kstage \in {"peel", "visit"} =>
       /\ \A v \in KVertices : pos[v] \in KVertices /\ vert[pos[v]] = v
       /\ \A i, j \in KVertices : slot <= i /\ i <= j => deg[vert[i]] <= deg[vert[j]]
  /\ kstage = "visit" =>
       \A u \in todo : deg[u] > deg[vert[slot]] =>
         /\ bin[deg[u]] \in (slot + 1)..pos[u]
         /\ deg[vert[bin[deg[u]]]] = deg[u]
         /\ deg[vert[bin[deg[u]] - 1]] < deg[u]
=============================================================================
