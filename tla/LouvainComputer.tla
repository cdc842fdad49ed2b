--------------------------- MODULE LouvainComputer ---------------------------
(***************************************************************************)
(* LouvainComputer of the louvain extension: rounds of synchronous         *)
(* (Jacobi) local moves, each followed by a coarsening of the graph, until *)
(* nothing moves, nothing merges or max_levels is reached                  *)
(* (extension/louvain/include/louvain_functions.h).                        *)
(*                                                                         *)
(* The adjacency lists are the symmetric weight function they add up to: a *)
(* self-loop stands twice in its list, parallel edges are summed where     *)
(* they are used.  Weights and the resolution are integers and every gain  *)
(* is scaled by 2m, so that the comparisons are exact where the code's are *)
(* rounded.  The loops that OpenMP shares out among threads write disjoint *)
(* elements from a snapshot, hence one step per loop.                      *)
(***************************************************************************)
EXTENDS Integers, FiniteSets, FiniteSetsExt

CONSTANTS max_iterations, max_levels, resolution

ASSUME LouvainParameters ==
  max_iterations \in Int /\ max_levels \in Int /\ resolution \in Nat

VARIABLES
  lstage,        \* "idle", "move", "level" (LocalMove returned), "map", "done"
  two_m,         \* 2 * total_weight: the sum of the weighted degrees of level 0
  graph,         \* adj_, the graph of level 0
  adj,           \* the graph of the current level
  node_weight,   \* its weighted degrees
  comm,          \* the community of each of its nodes
  comm_total,    \* the weight of each community, as LocalMove last summed it
  node_to_orig,  \* the original vertices of each of its nodes
  new_comm,      \* the choices made so far in this iteration of LocalMove
  iter,          \* iterations of LocalMove done on this level
  any_moved,     \* LocalMove moved a node on this level
  level,
  result         \* of the last computation: community, num_communities, modularity

lvars == <<lstage, two_m, graph, adj, node_weight, comm, comm_total, node_to_orig,
           new_comm, iter, any_moved, level, result>>

Nodes == DOMAIN adj
Vertices == DOMAIN graph

\* The sum of the natural numbers f[x], x in S, as the number of pairs <<x, k>>
\* with k in 1..f[x].
Total(f, S) == Cardinality(UNION {{x} \X (1..f[x]) : x \in S})

RowSums(g) == [u \in DOMAIN g |-> Total(g[u], DOMAIN g[u])]

Members(c, part) == {u \in DOMAIN part : part[u] = c}

\* The weight of the entries of g that lead from A to B.
WeightBetween(g, A, B) == Total([u \in A |-> Total(g[u], B)], A)

AccumulateByComm(part, weight) ==
  [c \in DOMAIN part |-> Total(weight, Members(c, part))]

NoResult == [community |-> <<>>, num_communities |-> 0, modularity |-> 0]

LInit ==
  /\ lstage = "idle" /\ result = NoResult
  /\ graph = <<>> /\ adj = <<>> /\ node_weight = <<>> /\ comm = <<>>
  /\ comm_total = <<>> /\ node_to_orig = <<>> /\ new_comm = <<>>
  /\ two_m = 0 /\ iter = 0 /\ any_moved = FALSE /\ level = 0

\* Whether another level is started, and whether LocalMove iterates at all.
EnterLevel(l) ==
  IF l < max_levels
  THEN IF max_iterations > 0 THEN "move" ELSE "level"
  ELSE "map"

Singletons(g) ==
  /\ adj' = g
  /\ comm' = [u \in DOMAIN g |-> u]

\* Compute on the graph g, up to the first level; an empty graph is returned
\* at once.
StartLouvain(g) ==
  /\ lstage = "idle"
  /\ graph' = g /\ result' = NoResult
  /\ Singletons(g)
  /\ node_weight' = RowSums(g) /\ comm_total' = RowSums(g)
  /\ two_m' = Total(RowSums(g), DOMAIN g)
  /\ node_to_orig' = [u \in DOMAIN g |-> {u}]
  /\ new_comm' = <<>> /\ level' = 0 /\ iter' = 0 /\ any_moved' = FALSE
  /\ lstage' = IF DOMAIN g = {} THEN "done" ELSE EnterLevel(0)

\* comm_edge_weight[c]: the weight between u and the community c.  u is a
\* neighbour of itself when coarsening has left it a self-loop.
comm_edge_weight(u, c) == Total(adj[u], Members(c, comm))

NeighborComms(u) == {comm[v] : v \in {w \in Nodes : adj[u][w] > 0}}

\* Fault: the weight of u counts against its own community.
GainWithSelf(u, c) ==
  two_m * comm_edge_weight(u, c) - resolution * node_weight[u] * comm_total[c]

\* The gain of u in the community c, times 2m; the weight of u itself does
\* not count against its own community.
Gain(u, c) ==
  LET others == IF c = comm[u] THEN comm_total[c] - node_weight[u] ELSE comm_total[c]
  IN  two_m * comm_edge_weight(u, c) - resolution * node_weight[u] * others

\* Where u may go: it stays unless a neighbouring community gains strictly
\* more, and among equals the order of an unordered_map decides.
BestComms(u) ==
  LET better == {c \in NeighborComms(u) : Gain(u, c) > Gain(u, comm[u])}
  IN  IF better = {} THEN {comm[u]}
      ELSE {c \in better : \A d \in better : Gain(u, d) <= Gain(u, c)}

\* The parallel loop of LocalMove: every node chooses on the same snapshot of
\* comm and comm_total, so the order in which the threads get to them is
\* immaterial and the model takes them in ascending order.
ChooseComm ==
  /\ lstage = "move"
  /\ LET u == Cardinality(DOMAIN new_comm)
     IN  /\ u \in Nodes
         /\ \E c \in BestComms(u) :
              new_comm' = [v \in 0..u |-> IF v = u THEN c ELSE new_comm[v]]
  /\ UNCHANGED <<lstage, two_m, graph, adj, node_weight, comm, comm_total, node_to_orig,
                 iter, any_moved, level, result>>

\* Fault: the iterations are not counted.
ApplyMovesUncounted ==
  /\ lstage = "move" /\ DOMAIN new_comm = Nodes
  /\ comm' = new_comm
  /\ comm_total' = AccumulateByComm(new_comm, node_weight)
  /\ any_moved' = (any_moved \/ new_comm # comm)
  /\ lstage' = IF new_comm = comm THEN "level" ELSE "move"
  /\ new_comm' = <<>>
  /\ UNCHANGED <<two_m, graph, adj, node_weight, node_to_orig, iter, level, result>>

\* The end of the iteration: the choices are applied at once.
ApplyMoves ==
  /\ lstage = "move" /\ DOMAIN new_comm = Nodes
  /\ comm' = new_comm
  /\ comm_total' = AccumulateByComm(new_comm, node_weight)
  /\ any_moved' = (any_moved \/ new_comm # comm)
  /\ lstage' = IF new_comm = comm \/ iter + 1 = max_iterations THEN "level" ELSE "move"
  /\ iter' = iter + 1
  /\ new_comm' = <<>>
  /\ UNCHANGED <<two_m, graph, adj, node_weight, node_to_orig, level, result>>

\* comm_remap: contiguous ids in the order of the communities' first nodes.
Renumbered(part) ==
  LET First(u) == Min(Members(part[u], part))
  IN  [u \in DOMAIN part |->
         Cardinality({First(v) : v \in {w \in DOMAIN part : First(w) < First(u)}})]

\* Fault: each pair is entered from the rows of both communities.
CoarseWeightTwice(a, b, part) ==
  WeightBetween(adj, Members(a, part), Members(b, part))
    + WeightBetween(adj, Members(b, part), Members(a, part))

\* The weight between two super-nodes: each pair is read off the rows of the
\* smaller community and entered on both sides.
CoarseWeight(a, b, part) ==
  LET low == IF a <= b THEN a ELSE b
      high == IF a <= b THEN b ELSE a
  IN  WeightBetween(adj, Members(low, part), Members(high, part))

Coarse(part, n) ==
  [a \in 0..(n - 1) |-> [b \in 0..(n - 1) |-> CoarseWeight(a, b, part)]]

\* The part of the level loop after LocalMove: stop when a later level moved
\* nothing or when no two nodes merged, otherwise coarsen and go on.
CoarsenLevel ==
  /\ lstage = "level"
  /\ LET part == Renumbered(comm)
         n    == Cardinality({comm[u] : u \in Nodes})
     IN  \/ /\ ~any_moved /\ level > 0
            /\ lstage' = "map"
            /\ UNCHANGED <<adj, node_weight, comm, comm_total, node_to_orig, iter,
                           any_moved, level>>
         \/ /\ any_moved \/ level = 0
            /\ n = Cardinality(Nodes)
            /\ comm' = part
            /\ lstage' = "map"
            /\ UNCHANGED <<adj, node_weight, comm_total, node_to_orig, iter,
                           any_moved, level>>
         \/ /\ any_moved \/ level = 0
            /\ n < Cardinality(Nodes)
            /\ Singletons(Coarse(part, n))
            /\ node_weight' = [c \in 0..(n - 1) |-> Total(node_weight, Members(c, part))]
            /\ comm_total' = node_weight'
            /\ node_to_orig' = [c \in 0..(n - 1) |->
                                  UNION {node_to_orig[u] : u \in Members(c, part)}]
            /\ level' = level + 1 /\ iter' = 0 /\ any_moved' = FALSE
            /\ lstage' = EnterLevel(level + 1)
  /\ UNCHANGED <<two_m, graph, new_comm, result>>

\* Fault: the penalty is summed per vertex, not per community.
ComputeModularityPerVertex(part) ==
  LET k     == RowSums(graph)
      inner == Total([u \in Vertices |-> Total(graph[u], Members(part[u], part))], Vertices)
  IN  two_m * inner - resolution * Total([u \in Vertices |-> k[u] * k[u]], Vertices)

\* ComputeModularity on the graph of level 0, times (2m)^2.
ComputeModularity(part) ==
  LET total == AccumulateByComm(part, RowSums(graph))
      inner == Total([u \in Vertices |-> Total(graph[u], Members(part[u], part))], Vertices)
      penalty == Total([c \in DOMAIN total |-> total[c] * total[c]], DOMAIN total)
  IN  two_m * inner - resolution * penalty

\* The end of Compute: communities of the original vertices.
MapBack ==
  /\ lstage = "map"
  /\ LET part == [v \in Vertices |-> comm[CHOOSE c \in Nodes : v \in node_to_orig[c]]]
     IN  result' = [community       |-> part,
                    num_communities |-> Cardinality({part[v] : v \in Vertices}),
                    modularity      |-> ComputeModularity(part)]
  /\ lstage' = "done"
  /\ UNCHANGED <<two_m, graph, adj, node_weight, comm, comm_total, node_to_orig,
                 new_comm, iter, any_moved, level>>

LouvainStep == ChooseComm \/ ApplyMoves \/ CoarsenLevel \/ MapBack

-----------------------------------------------------------------------------

\* The modularity of a partition by its definition, times (2m)^2: over the
\* ordered pairs of one community, weight minus expected weight.
Modularity(g, part) ==
  LET k == RowSums(g)
      together == {p \in (DOMAIN g) \X (DOMAIN g) : part[p[1]] = part[p[2]]}
  IN  two_m * Total([p \in together |-> g[p[1]][p[2]]], together)
        - resolution * Total([p \in together |-> k[p[1]] * k[p[2]]], together)

\* However often the graph was coarsened, the super-nodes partition the
\* vertices of level 0 (so that the parallel loop at the end of Compute may
\* write result.community through node_to_orig without synchronisation), the
\* weight between two super-nodes is the weight between their vertices at
\* level 0, and the weighted degree of a super-node is the sum of its row.
\* Compute, node_to_orig and coarse_adj_map.
CoarseExact ==
  lstage \in {"move", "level", "map"} /\ new_comm = <<>> =>
    /\ \A c \in Nodes : node_to_orig[c] # {} /\ node_to_orig[c] \subseteq Vertices
    /\ \A v \in Vertices : \E c \in Nodes : v \in node_to_orig[c]
    /\ \A c, d \in Nodes : c # d => node_to_orig[c] \cap node_to_orig[d] = {}
    /\ \A a, b \in Nodes :
         adj[a][b] = WeightBetween(graph, node_to_orig[a], node_to_orig[b])
    /\ node_weight = RowSums(adj)

\* The communities returned are numbered 0..num_communities - 1, they are the
\* communities of the last level's partition, and the modularity returned is
\* both that of the definition and that of the last level's coarse graph.
\* Compute, the final mapping, and ComputeModularity.
ResultExact ==
  lstage = "done" /\ Vertices # {} =>
    /\ {result.community[v] : v \in Vertices} = 0..(result.num_communities - 1)
    /\ result.modularity = Modularity(graph, result.community)
    /\ result.modularity = Modularity(adj, comm)

\* A node that changes its community would, moving alone, strictly raise the
\* modularity of the level's graph.  LocalMove, best_delta: what it compares is
\* the true difference although its own weight and its self-loop are in it.
MovesPay ==
  [][ChooseComm =>
       LET u == Cardinality(DOMAIN new_comm)
           c == new_comm'[u]
       IN  c # comm[u] =>
             Modularity(adj, [comm EXCEPT ![u] = c]) > Modularity(adj, comm)]_lvars
=============================================================================
