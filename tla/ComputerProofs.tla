--------------------------- MODULE ComputerProofs ---------------------------
(***************************************************************************)
(* The steps of BuildGraph and of RunKCore, on any stored graph and any    *)
(* undirected graph.  BuildGraph: the slots that the threads take are      *)
(* their own, and the lists they leave are those of the sequential build,  *)
(* whatever order they take vertices and slots in.  RunKCore: the peeling  *)
(* gives every vertex its coreness, whatever the order in which the        *)
(* neighbours of a peeled vertex are visited.  GraphProceduresProofs puts  *)
(* the steps together.                                                     *)
(***************************************************************************)
EXTENDS AdjacencyBuild, KcoreComputer, FiniteSetTheorems, WellFoundedInduction, TLAPS

-----------------------------------------------------------------------------
(* The invariant of the peeling loop.                                      *)

\* The graph: vertices 0..n-1, neighbours both ways, no loop.
NbrOK ==
  /\ \E n \in Nat : KVertices = 0..(n - 1)
  /\ nbr \in [KVertices -> SUBSET KVertices]
  /\ \A u, v \in KVertices : u \in nbr[v] <=> v \in nbr[u]
  /\ \A v \in KVertices : v \notin nbr[v]

\* vert and pos are inverse permutations.
Permuted ==
  /\ vert \in [KVertices -> KVertices] /\ pos \in [KVertices -> KVertices]
  /\ \A v \in KVertices : vert[pos[v]] = v
  /\ \A i \in KVertices : pos[vert[i]] = i

\* The vertex has been peeled, or is the one being peeled.
Peeled(v) == pos[v] < slot \/ (kstage = "visit" /\ pos[v] = slot)

\* The degree at which the last vertex was peeled: -1 before the first.
Level ==
  IF kstage = "visit" THEN deg[vert[slot]]
  ELSE IF slot = 0 THEN -1 ELSE deg[vert[slot - 1]]

Sorted == \A i, j \in KVertices : i <= j => deg[vert[i]] <= deg[vert[j]]

\* Above the level, bin[d] is the number of vertices with less than d left.
BinsOK ==
  \E m \in Nat :
    /\ DOMAIN bin = 0..(m + 1)
    /\ \A v \in KVertices : deg[v] <= m
    /\ \A d \in (Level + 1)..m :
         /\ bin[d] \in Int
         /\ \A i \in KVertices : deg[vert[i]] < d <=> i < bin[d]

\* The neighbours that a vertex not yet peeled has left.
Rest(v) ==
  {u \in nbr[v] : ~Peeled(u) \/ (kstage = "visit" /\ u = vert[slot] /\ v \in todo)}

\* The neighbours that were there when v was peeled.
Later(v) == {u \in nbr[v] : pos[u] > pos[v]}

PeelInv ==
  /\ NbrOK /\ Permuted /\ Sorted /\ BinsOK
  /\ deg \in [KVertices -> Nat] /\ coreness \in [KVertices -> Nat]
  /\ slot \in KVertices
  /\ kstage = "visit" => todo \subseteq nbr[vert[slot]]
  /\ \A v \in KVertices :
       Peeled(v) => /\ coreness[v] = deg[v]
                    /\ v \in Core(deg[v])
                    /\ Cardinality(Later(v)) <= deg[v]
  /\ \A v \in KVertices :
       ~Peeled(v) => /\ v \in Core(Level)
                     /\ Cardinality(Rest(v)) <= deg[v]
                     /\ deg[v] > Level => Cardinality(Rest(v)) = deg[v]

KInv ==
  /\ kstage \in {"idle", "peel", "visit", "done"}
  /\ kstage \in {"peel", "visit"} => PeelInv
  /\ kstage = "done" => CorenessExact

-----------------------------------------------------------------------------
(* Numbers and finite sets.                                                *)

\* A set of natural numbers that is not empty has a least element.
LEMMA LeastElement ==
  ASSUME NEW T, T \subseteq Nat, T # {}
  PROVE  \E x \in T : \A y \in T : x <= y
<1>1. PICK x \in T : \A y \in T : ~(<<y, x>> \in OpToRel(<, Nat))
  BY NatLessThanWellFounded, WFMin, Zenon
<1>2. ASSUME NEW y \in T
      PROVE  x <= y
  <2>1. x \in Nat /\ y \in Nat
    OBVIOUS
  <2>2. ~(y < x)
    BY <1>1, <2>1, Zenon DEF OpToRel
  <2> QED BY <2>1, <2>2
<1> QED BY <1>2

\* The vertices are numbers.
LEMMA VertexNumbers ==
  ASSUME NbrOK
  PROVE  \A i \in KVertices : i \in Nat
BY DEF NbrOK

\* Sets of vertices are finite, and a smaller one has fewer elements.
LEMMA VertexSets ==
  ASSUME NbrOK, NEW S, S \subseteq KVertices
  PROVE  /\ IsFiniteSet(S)
         /\ Cardinality(S) \in Nat
         /\ \A T \in SUBSET S : Cardinality(T) \in Nat /\ Cardinality(T) <= Cardinality(S)
<1>1. PICK n \in Nat : KVertices = 0..(n - 1)
  BY DEF NbrOK
<1>2. IsFiniteSet(KVertices)
  BY <1>1, FS_Interval
<1>3. IsFiniteSet(S)
  BY <1>2, FS_Subset
<1>4. \A T \in SUBSET S : IsFiniteSet(T) /\ Cardinality(T) <= Cardinality(S)
  BY <1>3, FS_Subset
<1>5. \A T \in SUBSET S : Cardinality(T) \in Nat
  BY <1>4, FS_CardinalityType
<1>6. Cardinality(S) \in Nat
  BY <1>3, FS_CardinalityType
<1> QED BY <1>3, <1>4, <1>5, <1>6

\* One set with k neighbours inside puts its members into the k-core.
LEMMA InCore ==
  ASSUME NEW k, NEW S \in SUBSET KVertices, NEW v \in S,
         \A w \in S : Cardinality(nbr[w] \cap S) >= k
  PROVE  v \in Core(k)
BY DEF Core

-----------------------------------------------------------------------------
(* What the invariant says at the property's two places.                   *)

\* A peeled vertex is in no higher core: of a set with more neighbours inside
\* the vertex that was peeled first had too few left.
LEMMA NotInHigherCore ==
  ASSUME PeelInv, NEW v \in KVertices, Peeled(v)
  PROVE  v \notin Core(deg[v] + 1)
<1> SUFFICES ASSUME v \in Core(deg[v] + 1)
             PROVE  FALSE
  OBVIOUS
<1>1. PICK S \in SUBSET KVertices :
             v \in S /\ \A w \in S : Cardinality(nbr[w] \cap S) >= deg[v] + 1
  BY DEF Core
<1>2. \A i \in KVertices : i \in Nat
  BY DEF PeelInv, NbrOK
<1>3. PICK w \in S : \A u \in S : pos[w] <= pos[u]
  <2> DEFINE T == {pos[u] : u \in S}
  <2>0. \A u \in S : pos[u] \in Nat
    BY <1>2 DEF PeelInv, Permuted
  <2>1. T \subseteq Nat /\ T # {}
    BY <1>1, <2>0
  <2>2. PICK x \in T : \A y \in T : x <= y
    BY <2>1, LeastElement, Zenon
  <2> QED BY <2>2
<1>4. w \in KVertices /\ pos[w] \in KVertices /\ pos[v] \in KVertices /\ slot \in KVertices
  BY <1>1, <1>3 DEF PeelInv, Permuted
<1>5. pos[w] <= pos[v]
  BY <1>1, <1>3
<1>6. Peeled(w)
  BY <1>2, <1>4, <1>5 DEF Peeled
<1>7. deg[w] <= deg[v]
  BY <1>4, <1>5 DEF PeelInv, Sorted, Permuted
<1>8. Cardinality(Later(w)) <= deg[w]
  BY <1>4, <1>6 DEF PeelInv
<1>9. nbr[w] \cap S \subseteq Later(w)
  <2> SUFFICES ASSUME NEW u \in nbr[w] \cap S
               PROVE  pos[u] > pos[w]
    BY DEF Later
  <2>1. u \in KVertices /\ u # w
    BY <1>4 DEF PeelInv, NbrOK
  <2>2. pos[u] # pos[w]
    BY <1>4, <2>1 DEF PeelInv, Permuted
  <2>3. pos[u] \in KVertices
    BY <2>1 DEF PeelInv, Permuted
  <2>4. pos[u] \in Nat /\ pos[w] \in Nat /\ pos[w] <= pos[u]
    BY <1>2, <1>3, <1>4, <2>3
  <2> QED BY <2>2, <2>4
<1>10. Later(w) \subseteq KVertices
  BY <1>4 DEF Later, PeelInv, NbrOK
<1>11. /\ Cardinality(Later(w)) \in Nat
       /\ Cardinality(nbr[w] \cap S) \in Nat
       /\ Cardinality(nbr[w] \cap S) <= Cardinality(Later(w))
  BY <1>9, <1>10, VertexSets DEF PeelInv
<1>12. deg[v] \in Nat /\ deg[w] \in Nat
  BY <1>4 DEF PeelInv
<1> QED BY <1>1, <1>7, <1>8, <1>11, <1>12

\* The properties in a state of the peeling loop.
LEMMA PeelingExact ==
  ASSUME PeelInv, kstage \in {"peel", "visit"}
  PROVE  CorenessExact
<1> SUFFICES ASSUME NEW v \in KVertices, pos[v] < slot
             PROVE  v \in Core(coreness[v]) /\ v \notin Core(coreness[v] + 1)
  BY DEF CorenessExact
<1>1. Peeled(v)
  BY DEF Peeled
<1> QED BY <1>1, NotInHigherCore DEF PeelInv

\* The bin of a vertex above the level: it starts behind the vertex being
\* peeled, at the first slot of the degree.
LEMMA BinFront ==
  ASSUME PeelInv, kstage = "visit", NEW u \in KVertices, deg[u] > deg[vert[slot]]
  PROVE  /\ bin[deg[u]] \in KVertices
         /\ bin[deg[u]] > slot /\ bin[deg[u]] <= pos[u]
         /\ deg[vert[bin[deg[u]]]] = deg[u]
         /\ \A i \in KVertices : i < bin[deg[u]] <=> deg[vert[i]] < deg[u]
         /\ deg[u] \in DOMAIN bin
<1>1. PICK n \in Nat : KVertices = 0..(n - 1)
  BY Zenon DEF PeelInv, NbrOK
<1>2. PICK m \in Nat :
        /\ DOMAIN bin = 0..(m + 1)
        /\ \A v \in KVertices : deg[v] <= m
        /\ \A d \in (Level + 1)..m :
             /\ bin[d] \in Int
             /\ \A i \in KVertices : deg[vert[i]] < d <=> i < bin[d]
  BY DEF PeelInv, BinsOK
<1>3. Level = deg[vert[slot]]
  BY DEF Level
<1>4. /\ slot \in KVertices /\ pos[u] \in KVertices /\ vert[pos[u]] = u
      /\ deg[vert[slot]] \in Nat /\ deg[u] \in Nat
  BY DEF PeelInv, Permuted
<1>5. deg[u] \in (Level + 1)..m
  BY <1>2, <1>3, <1>4
<1>6. PICK b : b = bin[deg[u]]
  OBVIOUS
<1>7. b \in Int /\ \A i \in KVertices : deg[vert[i]] < deg[u] <=> i < b
  BY <1>2, <1>5, <1>6
<1>8. b > slot
  BY <1>1, <1>4, <1>7
<1>9. b <= pos[u]
  BY <1>1, <1>4, <1>7
<1>10. b \in KVertices
  BY <1>1, <1>4, <1>7, <1>8, <1>9
<1>11. deg[vert[b]] \in Nat
  BY <1>10 DEF PeelInv, Permuted
<1>12. ~(deg[vert[b]] < deg[u])
  BY <1>7, <1>10
<1>13. deg[vert[b]] <= deg[u]
  BY <1>4, <1>9, <1>10 DEF PeelInv, Sorted
<1>14. deg[u] \in DOMAIN bin
  BY <1>2, <1>4
<1> QED BY <1>4, <1>6, <1>7, <1>8, <1>9, <1>10, <1>11, <1>12, <1>13, <1>14

\* The bins in a state of the peeling loop.
LEMMA PeelingBins ==
  ASSUME PeelInv
  PROVE  BinsExact
<1>1. \A v \in KVertices : pos[v] \in KVertices /\ vert[pos[v]] = v
  BY DEF PeelInv, Permuted
<1>2. \A i, j \in KVertices : slot <= i /\ i <= j => deg[vert[i]] <= deg[vert[j]]
  BY DEF PeelInv, Sorted
<1>3. ASSUME kstage = "visit", NEW u \in todo, deg[u] > deg[vert[slot]]
      PROVE  /\ bin[deg[u]] \in (slot + 1)..pos[u]
             /\ deg[vert[bin[deg[u]]]] = deg[u]
             /\ deg[vert[bin[deg[u]] - 1]] < deg[u]
  <2>1. PICK n \in Nat : KVertices = 0..(n - 1)
    BY Zenon DEF PeelInv, NbrOK
  <2>2. slot \in KVertices /\ vert[slot] \in KVertices
    BY DEF PeelInv, Permuted
  <2>3. u \in KVertices
    BY <1>3, <2>2 DEF PeelInv, NbrOK
  <2>4. pos[u] \in KVertices
    BY <2>3, <1>1
  <2>5. PICK b : b = bin[deg[u]]
    OBVIOUS
  <2>6. /\ b \in KVertices /\ b > slot /\ b <= pos[u]
        /\ deg[vert[b]] = deg[u]
        /\ \A i \in KVertices : i < b <=> deg[vert[i]] < deg[u]
    BY <1>3, <2>3, <2>5, BinFront
  <2>7. b - 1 \in KVertices /\ b - 1 < b
    BY <2>1, <2>2, <2>6
  <2>8. b \in (slot + 1)..pos[u]
    BY <2>1, <2>2, <2>4, <2>6
  <2> QED BY <2>5, <2>6, <2>7, <2>8
<1> QED BY <1>1, <1>2, <1>3 DEF BinsExact

-----------------------------------------------------------------------------
(* The steps of the peeling loop.                                          *)

\* The graph does not change while it is peeled.
LEMMA SameGraph ==
  ASSUME nbr' = nbr
  PROVE  /\ KVertices' = KVertices
         /\ NbrOK => NbrOK'
         /\ \A k : Core(k)' = Core(k)
BY DEF KVertices, NbrOK, Core

\* Peel: the vertex has the least degree of those that are left.  When that is
\* above the level, all that are left keep so many neighbours among themselves.
LEMMA PeelKeeps ==
  ASSUME PeelInv, Peel
  PROVE  PeelInv' /\ kstage' = "visit"
<1>1. /\ kstage = "peel" /\ kstage' = "visit"
      /\ nbr' = nbr /\ deg' = deg /\ bin' = bin /\ vert' = vert /\ pos' = pos
      /\ slot' = slot
  BY DEF Peel
<1>2. \A i \in KVertices : i \in Nat
  BY DEF PeelInv, NbrOK
<1>3. PICK x : x = vert[slot]
  OBVIOUS
<1>4. /\ x \in KVertices /\ pos[x] = slot /\ slot \in KVertices /\ deg[x] \in Nat
      /\ \A v \in KVertices : pos[v] = slot => v = x
  BY <1>3 DEF PeelInv, Permuted
<1>5. coreness' = [coreness EXCEPT ![x] = deg[x]] /\ todo' = nbr[x]
  BY <1>3 DEF Peel
<1>6. \A v \in KVertices : Peeled(v) <=> pos[v] < slot
  BY <1>1 DEF Peeled
<1>7. \A v \in KVertices : Peeled(v)' <=> Peeled(v) \/ v = x
  BY <1>1, <1>2, <1>4, <1>6 DEF Peeled
<1>8. ~Peeled(x)
  BY <1>2, <1>4, <1>6
<1>9. Level' = deg[x]
  BY <1>1, <1>3 DEF Level
<1>10. Level \in Int /\ Level <= deg[x]
  <2>1. CASE slot = 0
    BY <1>1, <1>4, <2>1 DEF Level
  <2>2. CASE slot # 0
    <3>1. slot - 1 \in KVertices /\ slot - 1 <= slot
      BY <1>4, <2>2 DEF PeelInv, NbrOK
    <3>2. Level = deg[vert[slot - 1]]
      BY <1>1, <2>2 DEF Level
    <3>3. deg[vert[slot - 1]] \in Nat
      BY <3>1 DEF PeelInv, Permuted
    <3>4. deg[vert[slot - 1]] <= deg[x]
      BY <1>3, <1>4, <3>1 DEF PeelInv, Sorted
    <3> QED BY <3>2, <3>3, <3>4
  <2> QED BY <2>1, <2>2
<1>11. ASSUME NEW v \in KVertices, ~Peeled(v)
       PROVE  deg[v] \in Nat /\ deg[x] <= deg[v]
  <2>1. pos[v] \in KVertices /\ vert[pos[v]] = v /\ deg[v] \in Nat
    BY DEF PeelInv, Permuted
  <2>2. slot <= pos[v]
    BY <1>2, <1>4, <1>6, <1>11, <2>1
  <2> QED BY <1>3, <1>4, <2>1, <2>2 DEF PeelInv, Sorted
<1>12. \A v \in KVertices : Rest(v) = {u \in nbr[v] : ~Peeled(u)}
  BY <1>1 DEF Rest
<1>13. ASSUME NEW v \in KVertices, ~Peeled(v)
       PROVE  v \in Core(deg[x])
  <2>1. CASE Level = deg[x]
    BY <1>13, <2>1 DEF PeelInv
  <2>2. CASE Level # deg[x]
    <3> DEFINE S == {w \in KVertices : ~Peeled(w)}
    <3>1. ASSUME NEW w \in S
          PROVE  Cardinality(nbr[w] \cap S) >= deg[x]
      <4>1. nbr[w] \subseteq KVertices
        BY DEF PeelInv, NbrOK
      <4>2. nbr[w] \cap S = Rest(w)
        BY <1>12, <4>1
      <4>3. deg[w] \in Nat /\ deg[x] <= deg[w]
        BY <1>11
      <4>4. deg[w] > Level
        BY <1>4, <1>10, <2>2, <4>3
      <4>5. Cardinality(Rest(w)) = deg[w]
        BY <4>4 DEF PeelInv
      <4> QED BY <1>4, <4>2, <4>3, <4>5
    <3> QED BY <1>13, <3>1, InCore, Zenon
  <2> QED BY <2>1, <2>2
<1>14. Cardinality(Later(x)) <= deg[x]
  <2>1. Later(x) \subseteq Rest(x)
    <3> SUFFICES ASSUME NEW u \in nbr[x], pos[u] > pos[x]
                 PROVE  ~Peeled(u)
      BY <1>4, <1>12 DEF Later
    <3>1. u \in KVertices /\ pos[u] \in KVertices
      BY <1>4 DEF PeelInv, NbrOK, Permuted
    <3> QED BY <1>2, <1>4, <1>6, <3>1
  <2>2. Rest(x) \subseteq KVertices
    BY <1>4 DEF PeelInv, NbrOK, Rest
  <2>3. /\ Cardinality(Later(x)) \in Nat /\ Cardinality(Rest(x)) \in Nat
        /\ Cardinality(Later(x)) <= Cardinality(Rest(x))
    BY <2>1, <2>2, VertexSets DEF PeelInv
  <2>4. Cardinality(Rest(x)) <= deg[x]
    BY <1>4, <1>8 DEF PeelInv
  <2> QED BY <1>4, <2>3, <2>4
<1>15. KVertices' = KVertices /\ NbrOK' /\ \A k : Core(k)' = Core(k)
  BY <1>1, SameGraph DEF PeelInv
<1>16. Permuted' /\ Sorted'
  BY <1>1, <1>15 DEF PeelInv, Permuted, Sorted
<1>17. BinsOK'
  <2>1. PICK m \in Nat :
        /\ DOMAIN bin = 0..(m + 1)
        /\ \A v \in KVertices : deg[v] <= m
        /\ \A d \in (Level + 1)..m :
             /\ bin[d] \in Int
             /\ \A i \in KVertices : deg[vert[i]] < d <=> i < bin[d]
    BY Zenon DEF PeelInv, BinsOK
  <2>2. \A d \in (deg[x] + 1)..m : d \in (Level + 1)..m
    BY <1>4, <1>10
  <2> QED BY <1>1, <1>9, <1>15, <2>1, <2>2, Zenon DEF BinsOK
<1>18. /\ deg' \in [KVertices' -> Nat] /\ coreness' \in [KVertices' -> Nat]
       /\ slot' \in KVertices'
  BY <1>1, <1>4, <1>5, <1>15 DEF PeelInv
<1>19. todo' \subseteq nbr'[vert'[slot']]
  BY <1>1, <1>3, <1>5, Zenon
<1>20. ASSUME NEW v \in KVertices, Peeled(v)'
       PROVE  /\ coreness'[v] = deg'[v]
              /\ v \in Core(deg[v])
              /\ Cardinality(Later(v)') <= deg'[v]
  <2>1. Later(v)' = Later(v)
    BY <1>1 DEF Later
  <2>2. CASE v = x
    BY <1>1, <1>4, <1>5, <1>8, <1>13, <1>14, <2>1, <2>2, Zenon DEF PeelInv
  <2>3. CASE v # x
    BY <1>1, <1>5, <1>7, <1>20, <2>1, <2>3 DEF PeelInv
  <2> QED BY <2>2, <2>3
<1>21. ASSUME NEW v \in KVertices, ~Peeled(v)'
       PROVE  /\ v \in Core(deg[x])
              /\ Cardinality(Rest(v)') <= deg'[v]
              /\ deg'[v] > deg[x] => Cardinality(Rest(v)') = deg'[v]
  <2>1. ~Peeled(v)
    BY <1>7, <1>21
  <2>2. Rest(v)' = Rest(v)
    <3>1. \A u \in nbr[v] : u \in KVertices
      BY DEF PeelInv, NbrOK
    <3>2. v \in nbr[x] <=> x \in nbr[v]
      BY <1>4 DEF PeelInv, NbrOK
    <3>3. Rest(v)' = {u \in nbr[v] : ~Peeled(u)' \/ (u = x /\ v \in nbr[x])}
      BY <1>1, <1>3, <1>5 DEF Rest
    <3> QED BY <1>7, <1>8, <1>12, <3>1, <3>2, <3>3
  <2>3. deg[v] > deg[x] => deg[v] > Level
    BY <1>4, <1>10, <1>11, <2>1
  <2> QED BY <1>1, <1>13, <2>1, <2>2, <2>3 DEF PeelInv
<1>22. \A v \in KVertices' :
         Peeled(v)' => /\ coreness'[v] = deg'[v]
                       /\ v \in Core(deg[v])'
                       /\ Cardinality(Later(v)') <= deg'[v]
  BY <1>1, <1>15, <1>20
<1>23. \A v \in KVertices' :
         ~Peeled(v)' => /\ v \in Core(Level)'
                        /\ Cardinality(Rest(v)') <= deg'[v]
                        /\ deg'[v] > Level' => Cardinality(Rest(v)') = deg'[v]
  BY <1>1, <1>9, <1>15, <1>21, Zenon
<1> QED BY <1>1, <1>15, <1>16, <1>17, <1>18, <1>19, <1>22, <1>23, Zenon DEF PeelInv

\* Visit when the neighbour has no more left than the vertex being peeled.
LEMMA VisitIdle ==
  ASSUME PeelInv, NEW u \in todo, Visit(u), ~(deg[u] > deg[vert[slot]])
  PROVE  PeelInv' /\ kstage' = "visit"
<1>1. /\ kstage = "visit" /\ kstage' = "visit" /\ todo' = todo \ {u}
      /\ nbr' = nbr /\ deg' = deg /\ bin' = bin /\ vert' = vert /\ pos' = pos
      /\ slot' = slot /\ coreness' = coreness
  BY DEF Visit
<1>2. KVertices' = KVertices /\ NbrOK' /\ \A k : Core(k)' = Core(k)
  BY <1>1, SameGraph DEF PeelInv
<1>3. /\ Level' = Level /\ Level = deg[vert[slot]]
      /\ \A v : (Peeled(v)' <=> Peeled(v)) /\ Later(v)' = Later(v)
  BY <1>1 DEF Level, Peeled, Later
<1>4. Permuted' /\ Sorted' /\ BinsOK'
  BY <1>1, <1>2, <1>3, Zenon DEF PeelInv, Permuted, Sorted, BinsOK
<1>5. slot \in KVertices /\ vert[slot] \in KVertices /\ deg[vert[slot]] \in Nat
  BY DEF PeelInv, Permuted
<1>6. todo' \subseteq nbr'[vert'[slot']]
  BY <1>1 DEF PeelInv
<1>7. ASSUME NEW v \in KVertices, ~Peeled(v)
      PROVE  /\ Cardinality(Rest(v)') <= deg[v]
             /\ deg[v] > Level => Cardinality(Rest(v)') = deg[v]
  <2>1. Rest(v)' \subseteq Rest(v)
    BY <1>1, <1>3 DEF Rest
  <2>2. Rest(v) \subseteq KVertices
    BY Zenon DEF PeelInv, NbrOK, Rest
  <2>3. /\ Cardinality(Rest(v)') \in Nat /\ Cardinality(Rest(v)) \in Nat
        /\ Cardinality(Rest(v)') <= Cardinality(Rest(v))
    BY <2>1, <2>2, VertexSets, Zenon DEF PeelInv
  <2>4. Cardinality(Rest(v)) <= deg[v] /\ deg[v] \in Nat
    BY <1>7 DEF PeelInv
  <2>5. deg[v] > Level => Rest(v)' = Rest(v)
    BY <1>1, <1>3, Zenon DEF Rest
  <2> QED BY <1>7, <2>3, <2>4, <2>5 DEF PeelInv
<1>8. \A v \in KVertices' :
        Peeled(v)' => /\ coreness'[v] = deg'[v]
                      /\ v \in Core(deg[v])'
                      /\ Cardinality(Later(v)') <= deg'[v]
  BY <1>1, <1>2, <1>3, Zenon DEF PeelInv
<1>9. \A v \in KVertices' :
        ~Peeled(v)' => /\ v \in Core(Level)'
                       /\ Cardinality(Rest(v)') <= deg'[v]
                       /\ deg'[v] > Level' => Cardinality(Rest(v)') = deg'[v]
  BY <1>1, <1>2, <1>3, <1>7, Zenon DEF PeelInv
<1> QED BY <1>1, <1>2, <1>4, <1>6, <1>8, <1>9 DEF PeelInv

\* Visit when the neighbour has more left: it trades places with the first
\* vertex of its bin, and only that slot gets a smaller degree.
LEMMA VisitMoves ==
  ASSUME PeelInv, NEW u \in todo, Visit(u), deg[u] > deg[vert[slot]]
  PROVE  PeelInv' /\ kstage' = "visit"
<1>1. /\ kstage = "visit" /\ kstage' = "visit" /\ todo' = todo \ {u}
      /\ nbr' = nbr /\ slot' = slot /\ coreness' = coreness
  BY DEF Visit
<1>2. PICK x, du, pu, pw, w :
        x = vert[slot] /\ du = deg[u] /\ pu = pos[u] /\ pw = bin[du] /\ w = vert[pw]
  OBVIOUS
<1>3. /\ pos' = [pos EXCEPT ![w] = pu, ![u] = pw]
      /\ vert' = [vert EXCEPT ![pu] = w, ![pw] = u]
      /\ bin' = [bin EXCEPT ![du] = @ + 1]
      /\ deg' = [deg EXCEPT ![u] = @ - 1]
  BY <1>2 DEF Visit
<1>4. \A i \in KVertices : i \in Nat
  BY VertexNumbers, Zenon DEF PeelInv
<1>5. x \in KVertices /\ slot \in KVertices /\ pos[x] = slot /\ deg[x] \in Nat
  BY <1>2 DEF PeelInv, Permuted
<1>6. u \in nbr[x] /\ u \in KVertices /\ x \in nbr[u]
  BY <1>1, <1>2, <1>5, Zenon DEF PeelInv, NbrOK
<1>7. /\ pw \in KVertices /\ pw > slot /\ pw <= pu /\ deg[w] = du
      /\ \A i \in KVertices : i < pw <=> deg[vert[i]] < du
      /\ du \in DOMAIN bin
  BY <1>1, <1>2, <1>6, BinFront, Zenon
<1>8. /\ pu \in KVertices /\ vert[pu] = u /\ w \in KVertices /\ pos[w] = pw
      /\ du \in Nat /\ du > deg[x] /\ (u = w <=> pu = pw)
  BY <1>2, <1>5, <1>6, <1>7 DEF PeelInv, Permuted
<1>9. pw \in Nat /\ pu \in Nat /\ slot \in Nat /\ pu > slot
  BY <1>4, <1>5, <1>7, <1>8
<1>10. KVertices' = KVertices /\ NbrOK' /\ \A k : Core(k)' = Core(k)
  BY <1>1, SameGraph DEF PeelInv
<1>11. /\ vert \in [KVertices -> KVertices] /\ pos \in [KVertices -> KVertices]
       /\ deg \in [KVertices -> Nat]
       /\ \A v \in KVertices : vert[pos[v]] = v
       /\ \A i \in KVertices : pos[vert[i]] = i
  BY DEF PeelInv, Permuted
<1>12. \A v \in KVertices : pos'[v] = IF v = u THEN pw ELSE IF v = w THEN pu ELSE pos[v]
  BY <1>3, <1>11
<1>13. \A i \in KVertices : vert'[i] = IF i = pw THEN u ELSE IF i = pu THEN w ELSE vert[i]
  BY <1>3, <1>11
<1>14. \A v \in KVertices : deg'[v] = IF v = u THEN du - 1 ELSE deg[v]
  BY <1>2, <1>3, <1>11
<1>15. /\ vert' \in [KVertices -> KVertices] /\ pos' \in [KVertices -> KVertices]
       /\ deg' \in [KVertices -> Nat]
  <2>1. du - 1 \in Nat
    BY <1>5, <1>8
  <2> QED BY <1>2, <1>3, <1>6, <1>7, <1>8, <1>11, <2>1, Zenon
<1>16. Permuted'
  <2>1. ASSUME NEW v \in KVertices
        PROVE  vert'[pos'[v]] = v
    <3>1. CASE v = u
      BY <1>7, <1>12, <1>13, <3>1, Zenon
    <3>2. CASE v # u /\ v = w
      BY <1>8, <1>12, <1>13, <3>2, Zenon
    <3>3. CASE v # u /\ v # w
      <4>1. pos[v] \in KVertices /\ vert[pos[v]] = v /\ pos[v] # pu /\ pos[v] # pw
        BY <1>2, <1>8, <1>11, <3>3, Zenon
      <4> QED BY <1>12, <1>13, <3>3, <4>1, Zenon
    <3> QED BY <3>1, <3>2, <3>3, Zenon
  <2>2. ASSUME NEW i \in KVertices
        PROVE  pos'[vert'[i]] = i
    <3>1. CASE i = pw
      BY <1>6, <1>12, <1>13, <3>1, Zenon
    <3>2. CASE i # pw /\ i = pu
      BY <1>8, <1>12, <1>13, <3>2, Zenon
    <3>3. CASE i # pw /\ i # pu
      <4>1. vert[i] \in KVertices /\ pos[vert[i]] = i /\ vert[i] # u /\ vert[i] # w
        BY <1>2, <1>8, <1>11, <3>3, Zenon
      <4> QED BY <1>12, <1>13, <3>3, <4>1, Zenon
    <3> QED BY <3>1, <3>2, <3>3, Zenon
  <2> QED BY <1>10, <1>15, <2>1, <2>2, Zenon DEF Permuted
<1>17. ASSUME NEW i \in KVertices
       PROVE  deg'[vert'[i]] = IF i = pw THEN du - 1 ELSE deg[vert[i]]
  <2>1. CASE i = pw
    BY <1>6, <1>13, <1>14, <2>1
  <2>2. CASE i # pw /\ i = pu
    BY <1>2, <1>7, <1>8, <1>13, <1>14, <2>2, Zenon
  <2>3. CASE i # pw /\ i # pu
    <3>1. vert[i] # u /\ vert[i] \in KVertices
      BY <1>2, <1>8, <1>11, <2>3
    <3> QED BY <1>13, <1>14, <2>3, <3>1, Zenon
  <2> QED BY <2>1, <2>2, <2>3
<1>18. Level' = deg[x] /\ Level = deg[x]
  <2>1. deg'[vert'[slot]] = deg[x]
    BY <1>2, <1>5, <1>7, <1>9, <1>17
  <2> QED BY <1>1, <1>2, <2>1 DEF Level
<1>19. Sorted'
  <2> SUFFICES ASSUME NEW i \in KVertices, NEW j \in KVertices, i <= j
               PROVE  deg'[vert'[i]] <= deg'[vert'[j]]
    BY <1>10 DEF Sorted
  <2>1. /\ deg[vert[i]] \in Nat /\ deg[vert[j]] \in Nat /\ deg[vert[i]] <= deg[vert[j]]
        /\ i \in Nat /\ j \in Nat
    BY <1>4, <1>11, Zenon DEF PeelInv, Sorted
  <2>2. CASE j = pw /\ i # pw
    <3>1. i < pw
      BY <1>9, <2>1, <2>2
    <3>2. deg[vert[i]] < du
      BY <1>7, <3>1, Zenon
    <3>3. deg'[vert'[i]] = deg[vert[i]] /\ deg'[vert'[j]] = du - 1
      BY <1>17, <2>2, Zenon
    <3> QED BY <1>8, <2>1, <3>2, <3>3
  <2>3. CASE i = pw
    <3>1. ~(j < pw)
      BY <1>9, <2>1, <2>3
    <3>2. ~(deg[vert[j]] < du)
      BY <1>7, <3>1, Zenon
    <3>3. /\ deg'[vert'[i]] = du - 1
          /\ deg'[vert'[j]] = du - 1 \/ deg'[vert'[j]] = deg[vert[j]]
      BY <1>17, <2>3, Zenon
    <3> QED BY <1>8, <2>1, <3>2, <3>3
  <2>4. CASE i # pw /\ j # pw
    BY <1>17, <2>1, <2>4, Zenon
  <2> QED BY <2>2, <2>3, <2>4
<1>20. BinsOK'
  <2>1. PICK m \in Nat :
        /\ DOMAIN bin = 0..(m + 1)
        /\ \A v \in KVertices : deg[v] <= m
        /\ \A d \in (Level + 1)..m :
             /\ bin[d] \in Int
             /\ \A i \in KVertices : deg[vert[i]] < d <=> i < bin[d]
    BY Zenon DEF PeelInv, BinsOK
  <2>2. DOMAIN bin' = 0..(m + 1)
    BY <1>3, <2>1
  <2>3. ASSUME NEW v \in KVertices
        PROVE  deg'[v] <= m
    <3>1. deg[v] <= m /\ deg[v] \in Nat
      BY <1>11, <2>1, Zenon
    <3>2. deg'[v] = deg[v] \/ deg'[v] = deg[v] - 1
      BY <1>2, <1>14, Zenon
    <3> QED BY <2>1, <3>1, <3>2
  <2>4. ASSUME NEW d \in (deg[x] + 1)..m
        PROVE  /\ bin'[d] \in Int
               /\ \A i \in KVertices : deg'[vert'[i]] < d <=> i < bin'[d]
    <3>0. d \in DOMAIN bin /\ d \in Int
      BY <1>5, <2>1
    <3>1. CASE d = du
      <4>1. bin'[d] = pw + 1
        BY <1>2, <1>3, <1>7, <3>1, Zenon
      <4>2. ASSUME NEW i \in KVertices
            PROVE  deg'[vert'[i]] < d <=> i < pw + 1
        <5>1. i \in Nat /\ deg[vert[i]] \in Nat
          BY <1>4, <1>11, Zenon
        <5>2. i < pw <=> deg[vert[i]] < du
          BY <1>7, Zenon
        <5>3. deg'[vert'[i]] = IF i = pw THEN du - 1 ELSE deg[vert[i]]
          BY <1>17, Zenon
        <5> QED BY <1>8, <1>9, <3>1, <5>1, <5>2, <5>3
      <4> QED BY <1>9, <4>1, <4>2
    <3>2. CASE d # du
      <4>1. bin'[d] = bin[d]
        BY <1>3, <3>0, <3>2
      <4>2. /\ bin[d] \in Int
            /\ \A i \in KVertices : deg[vert[i]] < d <=> i < bin[d]
        BY <1>18, <2>1
      <4>3. deg[vert[pw]] = du
        BY <1>2, <1>7
      <4>4. du - 1 < d <=> du < d
        BY <1>8, <3>0, <3>2
      <4> QED BY <1>7, <1>17, <4>1, <4>2, <4>3, <4>4
    <3> QED BY <3>1, <3>2
  <2> QED BY <1>10, <1>18, <2>2, <2>3, <2>4, Zenon DEF BinsOK
<1>21. \A v \in KVertices : /\ pos[v] \in Nat
                            /\ pos'[v] \in Nat
                            /\ pos[v] > slot <=> pos'[v] > slot
                            /\ pos[v] <= slot => pos'[v] = pos[v]
  <2> SUFFICES ASSUME NEW v \in KVertices
               PROVE  /\ pos[v] \in Nat
                      /\ pos'[v] \in Nat
                      /\ pos[v] > slot <=> pos'[v] > slot
                      /\ pos[v] <= slot => pos'[v] = pos[v]
    OBVIOUS
  <2>1. pos[v] \in Nat /\ pos'[v] \in Nat
    BY <1>4, <1>11, <1>15
  <2>2. CASE v = u
    <3>1. pos[v] = pu /\ pos'[v] = pw
      BY <1>2, <1>12, <2>2, Zenon
    <3>2. pw > slot
      BY <1>7, Zenon
    <3> QED BY <1>9, <3>1, <3>2
  <2>3. CASE v # u /\ v = w
    <3>1. pos[v] = pw /\ pos'[v] = pu
      BY <1>8, <1>12, <2>3, Zenon
    <3>2. pw > slot
      BY <1>7, Zenon
    <3> QED BY <1>9, <3>1, <3>2
  <2>4. CASE v # u /\ v # w
    BY <1>12, <2>1, <2>4
  <2> QED BY <2>2, <2>3, <2>4, <2>1, Zenon
<1>22. ASSUME NEW v \in KVertices
       PROVE  Peeled(v) <=> pos[v] <= slot
  <2>1. pos[v] \in Nat
    BY <1>21, Zenon
  <2> QED BY <1>1, <1>9, <2>1 DEF Peeled
<1>23. ASSUME NEW v \in KVertices
       PROVE  Peeled(v)' <=> Peeled(v)
  <2>1. pos[v] \in Nat /\ pos'[v] \in Nat /\ (pos[v] > slot <=> pos'[v] > slot)
    BY <1>21, Zenon
  <2>2. Peeled(v)' <=> pos'[v] <= slot
    BY <1>1, <1>9, <2>1 DEF Peeled
  <2> QED BY <1>9, <1>22, <2>1, <2>2
<1>24. ASSUME NEW v \in KVertices, Peeled(v)
       PROVE  deg'[v] = deg[v]
  <2>1. pos[v] <= slot /\ pos[v] \in Nat
    BY <1>21, <1>22, <1>24, Zenon
  <2>2. v # u
    BY <1>2, <1>9, <2>1
  <2> QED BY <1>14, <2>2, Zenon
<1>25. ASSUME NEW v \in KVertices, Peeled(v)
       PROVE  Later(v)' = Later(v)
  <2>1. nbr[v] \subseteq KVertices
    BY DEF PeelInv, NbrOK
  <2>2. ASSUME NEW y \in nbr[v]
        PROVE  pos'[y] > pos'[v] <=> pos[y] > pos[v]
    <3>1. y \in KVertices
      BY <2>1, Zenon
    <3>2. pos[v] <= slot /\ pos'[v] = pos[v]
      BY <1>21, <1>22, <1>25, Zenon
    <3>3. /\ pos[y] \in Nat /\ pos'[y] \in Nat /\ pos[v] \in Nat
          /\ pos[y] > slot <=> pos'[y] > slot
          /\ pos[y] <= slot => pos'[y] = pos[y]
      BY <1>21, <3>1, Zenon
    <3> QED BY <1>9, <3>2, <3>3
  <2> QED BY <1>1, <2>2 DEF Later
<1>26. x = vert'[slot']
  <2>1. slot # pw /\ slot # pu
    BY <1>7, <1>9
  <2> QED BY <1>1, <1>2, <1>5, <1>13, <2>1, Zenon
<1>27. \A v \in KVertices :
         /\ Rest(v) = {y \in nbr[v] : ~Peeled(y) \/ (y = x /\ v \in todo)}
         /\ Rest(v)' = {y \in nbr[v] : ~Peeled(y)' \/ (y = x /\ v \in todo \ {u})}
  BY <1>1, <1>2, <1>26, Zenon DEF Rest
<1>28. ASSUME NEW v \in KVertices, ~Peeled(v)
       PROVE  /\ Cardinality(Rest(v)') <= deg'[v]
              /\ deg'[v] > deg[x] => Cardinality(Rest(v)') = deg'[v]
  <2>0. \A y \in nbr[v] : y \in KVertices
    BY Zenon DEF PeelInv, NbrOK
  <2>1. CASE v # u
    <3>1. Rest(v)' = Rest(v)
      BY <1>23, <1>27, <2>0, <2>1, Zenon
    <3> QED BY <1>14, <1>18, <1>28, <2>1, <3>1, Zenon DEF PeelInv
  <2>2. CASE v = u
    <3>1. Peeled(x)
      BY <1>5, <1>9, <1>22
    <3>2. Rest(u)' = Rest(u) \ {x} /\ x \in Rest(u)
      BY <1>6, <1>23, <1>27, <2>0, <2>2, <3>1, Zenon
    <3>3. IsFiniteSet(Rest(u))
      <4>1. Rest(u) \subseteq KVertices
        BY <1>27, <2>0, <2>2, Zenon
      <4> QED BY <4>1, VertexSets, Zenon DEF PeelInv
    <3>4. Cardinality(Rest(u)) = du
      BY <1>2, <1>8, <1>18, <1>28, <2>2, Zenon DEF PeelInv
    <3>5. Cardinality(Rest(u)') = du - 1
      BY <3>2, <3>3, <3>4, FS_RemoveElement, Zenon
    <3> QED BY <1>8, <1>14, <2>2, <3>5
  <2> QED BY <2>1, <2>2, Zenon
<1>29. todo' \subseteq nbr'[vert'[slot']]
  BY <1>1, <1>2, <1>26 DEF PeelInv
<1>30. \A v \in KVertices' :
         Peeled(v)' => /\ coreness'[v] = deg'[v]
                       /\ v \in Core(deg[v])'
                       /\ Cardinality(Later(v)') <= deg'[v]
  <2> SUFFICES ASSUME NEW v \in KVertices, Peeled(v)
               PROVE  /\ coreness'[v] = deg'[v]
                      /\ v \in Core(deg'[v])
                      /\ Cardinality(Later(v)') <= deg'[v]
    BY <1>10, <1>23, Zenon
  <2>1. deg'[v] = deg[v] /\ Later(v)' = Later(v)
    BY <1>24, <1>25, Zenon
  <2> QED BY <1>1, <2>1, Zenon DEF PeelInv
<1>31. \A v \in KVertices' :
         ~Peeled(v)' => /\ v \in Core(Level)'
                        /\ Cardinality(Rest(v)') <= deg'[v]
                        /\ deg'[v] > Level' => Cardinality(Rest(v)') = deg'[v]
  BY <1>10, <1>18, <1>23, <1>28, Zenon DEF PeelInv
<1> QED BY <1>1, <1>5, <1>10, <1>15, <1>16, <1>19, <1>20, <1>29, <1>30, <1>31, Zenon DEF PeelInv

\* NextSlot: nothing is left to visit, and the next vertex becomes the one to
\* be peeled; after the last one every vertex has its coreness.
LEMMA NextSlotKeeps ==
  ASSUME PeelInv, kstage \in {"peel", "visit"}, NextSlot
  PROVE  KInv'
<1>1. /\ kstage = "visit" /\ todo = {} /\ slot' = slot + 1
      /\ nbr' = nbr /\ deg' = deg /\ bin' = bin /\ vert' = vert /\ pos' = pos
      /\ coreness' = coreness /\ todo' = todo
      /\ kstage' = IF slot + 1 \in KVertices THEN "peel" ELSE "done"
  BY Zenon DEF NextSlot
<1>2. KVertices' = KVertices /\ NbrOK' /\ \A k : Core(k)' = Core(k)
  BY <1>1, SameGraph DEF PeelInv
<1>3. PICK n \in Nat : KVertices = 0..(n - 1)
  BY Zenon DEF PeelInv, NbrOK
<1>4. slot \in Nat /\ slot \in KVertices /\ \A v \in KVertices : pos[v] \in KVertices
  BY <1>3 DEF PeelInv, Permuted
<1>5. CASE slot + 1 \in KVertices
  <2>1. kstage' = "peel"
    BY <1>1, <1>5
  <2>2. \A v \in KVertices : Peeled(v)' <=> Peeled(v)
    BY <1>1, <1>3, <1>4, <2>1 DEF Peeled
  <2>3. Level' = Level
    BY <1>1, <1>4, <2>1 DEF Level
  <2>4. \A v \in KVertices : Rest(v)' = Rest(v)
    <3>1. \A v \in KVertices : \A y \in nbr[v] : y \in KVertices
      BY DEF PeelInv, NbrOK
    <3> QED BY <1>1, <2>1, <2>2, <3>1 DEF Rest
  <2>5. \A v : Later(v)' = Later(v)
    BY <1>1, Zenon DEF Later
  <2>6. Permuted' /\ Sorted' /\ BinsOK'
    BY <1>1, <1>2, <2>3, Zenon DEF PeelInv, Permuted, Sorted, BinsOK
  <2>7. \A v \in KVertices' :
          Peeled(v)' => /\ coreness'[v] = deg'[v]
                        /\ v \in Core(deg[v])'
                        /\ Cardinality(Later(v)') <= deg'[v]
    BY <1>1, <1>2, <2>2, <2>5, Zenon DEF PeelInv
  <2>8. \A v \in KVertices' :
          ~Peeled(v)' => /\ v \in Core(Level)'
                         /\ Cardinality(Rest(v)') <= deg'[v]
                         /\ deg'[v] > Level' => Cardinality(Rest(v)') = deg'[v]
    BY <1>1, <1>2, <2>2, <2>3, <2>4, Zenon DEF PeelInv
  <2>9. PeelInv'
    BY <1>1, <1>2, <1>5, <2>1, <2>6, <2>7, <2>8 DEF PeelInv
  <2> QED BY <2>1, <2>9 DEF KInv
<1>6. CASE slot + 1 \notin KVertices
  <2>1. kstage' = "done"
    BY <1>1, <1>6, Zenon
  <2>2. ASSUME NEW v \in KVertices
        PROVE  v \in Core(coreness[v]) /\ v \notin Core(coreness[v] + 1)
    <3>1. Peeled(v)
      BY <1>1, <1>3, <1>4, <1>6 DEF Peeled
    <3> QED BY <3>1, NotInHigherCore, Zenon DEF PeelInv
  <2>3. CorenessExact'
    BY <1>1, <1>2, <2>2 DEF CorenessExact
  <2> QED BY <2>1, <2>3 DEF KInv
<1> QED BY <1>5, <1>6, Zenon

\* The steps of RunKCore keep the invariant.
LEMMA KcoreStepKeeps ==
  ASSUME KInv, KcoreStep
  PROVE  KInv'
<1>1. CASE Peel
  <2>1. PeelInv
    BY <1>1 DEF Peel, KInv
  <2> QED BY <1>1, <2>1, PeelKeeps, Zenon DEF KInv
<1>2. ASSUME NEW u \in todo, Visit(u)
      PROVE  KInv'
  <2>1. PeelInv
    BY <1>2 DEF Visit, KInv
  <2> QED BY <1>2, <2>1, VisitIdle, VisitMoves, Zenon DEF KInv
<1>3. CASE NextSlot
  <2>1. PeelInv /\ kstage \in {"peel", "visit"}
    BY <1>3 DEF NextSlot, KInv
  <2> QED BY <1>3, <2>1, NextSlotKeeps, Zenon
<1> QED BY <1>1, <1>2, <1>3 DEF KcoreStep

-----------------------------------------------------------------------------
(* The bucket sort at the start.                                           *)

\* A set of natural numbers with a bound has a greatest element.
LEMMA GreatestElement ==
  ASSUME NEW D, D # {}, NEW n \in Nat, D \subseteq 0..n
  PROVE  Max(D) \in D /\ \A y \in D : y <= Max(D)
<1> DEFINE T == {m \in Nat : \A y \in D : y <= m}
<1>1. T \subseteq Nat /\ n \in T
  OBVIOUS
<1>2. PICK x \in T : \A m \in T : x <= m
  BY <1>1, LeastElement, Zenon
<1>3. x \in D
  <2> SUFFICES ASSUME x \notin D
               PROVE  FALSE
    OBVIOUS
  <2>1. PICK y \in D : TRUE
    BY Zenon
  <2>2. x - 1 \in Nat
    BY <1>2, <2>1
  <2>3. \A z \in D : z <= x - 1
    BY <1>2
  <2>4. x - 1 \in T
    BY <2>2, <2>3
  <2> QED BY <1>2, <2>2, <2>4
<1>4. \E z \in D : \A y \in D : z >= y
  BY <1>2, <1>3
<1>5. PICK z : z = Max(D)
  OBVIOUS
<1>6. z \in D /\ \A y \in D : z >= y
  BY <1>4, <1>5, Zenon DEF Max
<1> QED BY <1>5, <1>6

\* The vertices that stand before v.
Before(d, v) == {u \in DOMAIN d : d[u] < d[v] \/ (d[u] = d[v] /\ u < v)}

\* R gives every vertex a slot of its own, smaller degrees first.
Sorts(V, d, R) ==
  /\ R \in [V -> V]
  /\ \A i \in V : \E v \in V : R[v] = i
  /\ \A u, v \in V : R[u] = R[v] => u = v
  /\ \A u, v \in V : d[u] < d[v] => R[u] < R[v]
  /\ \A v \in V : R[v] = Cardinality(Before(d, v))

\* SortedPos is a permutation that puts smaller degrees first.
LEMMA SortIsPermutation ==
  ASSUME NEW n \in Nat, NEW V, V = 0..(n - 1), NEW d \in [V -> Nat]
  PROVE  Sorts(V, d, SortedPos(d))
<1>1. IsFiniteSet(V) /\ Cardinality(V) = n
  BY FS_Interval
<1>2. PICK R : R = SortedPos(d)
  OBVIOUS
<1>3. R = [v \in V |-> Cardinality(Before(d, v))]
  BY <1>2 DEF SortedPos, Before
<1>4. \A v \in V : /\ Before(d, v) \subseteq V /\ v \notin Before(d, v)
                   /\ \A u \in Before(d, v) : Before(d, u) \subseteq Before(d, v)
  BY DEF Before
<1>5. \A S \in SUBSET V : IsFiniteSet(S) /\ Cardinality(S) \in Nat /\ Cardinality(S) <= n
  <2>1. \A S \in SUBSET V : IsFiniteSet(S) /\ Cardinality(S) <= Cardinality(V)
    BY <1>1, FS_Subset, Zenon
  <2> QED BY <1>1, <2>1, FS_CardinalityType
<1>6. ASSUME NEW u \in V, NEW v \in V, u \in Before(d, v)
      PROVE  R[u] < R[v]
  <2>1. Before(d, u) \cup {u} \in SUBSET Before(d, v)
    BY <1>4, <1>6
  <2>2. IsFiniteSet(Before(d, v)) /\ IsFiniteSet(Before(d, u))
    BY <1>4, <1>5
  <2>3. Cardinality(Before(d, u) \cup {u}) <= Cardinality(Before(d, v))
    BY <2>1, <2>2, FS_Subset, Zenon
  <2>4. Cardinality(Before(d, u) \cup {u}) = Cardinality(Before(d, u)) + 1
    BY <1>4, <2>2, FS_AddElement, Zenon
  <2>5. Cardinality(Before(d, u)) \in Nat /\ Cardinality(Before(d, v)) \in Nat
    BY <1>4, <1>5
  <2> QED BY <1>3, <2>3, <2>4, <2>5
<1>7. \A u, v \in V : u # v => u \in Before(d, v) \/ v \in Before(d, u)
  BY DEF Before
<1>8. ASSUME NEW v \in V
      PROVE  R[v] \in V
  <2>1. Before(d, v) \cup {v} \in SUBSET V
    BY <1>4
  <2>2. Cardinality(Before(d, v) \cup {v}) <= n
    BY <1>5, <2>1
  <2>3. IsFiniteSet(Before(d, v)) /\ Cardinality(Before(d, v)) \in Nat
    BY <1>4, <1>5
  <2>4. Cardinality(Before(d, v) \cup {v}) = Cardinality(Before(d, v)) + 1
    BY <1>4, <2>3, FS_AddElement, Zenon
  <2> QED BY <1>3, <2>2, <2>3, <2>4
<1>9. R \in [V -> V]
  BY <1>3, <1>8
<1>10. ASSUME NEW u \in V, NEW v \in V, R[u] = R[v]
       PROVE  u = v
  <2>1. R[u] \in Int /\ R[v] \in Int
    BY <1>8
  <2> QED BY <1>6, <1>7, <1>10, <2>1
<1>11. R \in Surjection(V, V)
  <2>1. R \in Injection(V, V)
    BY <1>9, <1>10 DEF Injection, IsInjective
  <2> QED BY <1>1, <2>1, FS_Injection
<1>12. \A i \in V : \E v \in V : R[v] = i
  BY <1>11 DEF Surjection
<1>13. \A u, v \in V : d[u] < d[v] => R[u] < R[v]
  <2>1. \A u, v \in V : d[u] < d[v] => u \in Before(d, v)
    BY DEF Before
  <2> QED BY <1>6, <2>1
<1> QED BY <1>2, <1>3, <1>9, <1>10, <1>12, <1>13 DEF Sorts

\* StartBins: bin[k] counts the vertices with less than k neighbours, which are
\* those that the sort puts into the slots below bin[k].
LEMMA SortFillsBins ==
  ASSUME NEW n \in Nat \ {0}, NEW V, V = 0..(n - 1), NEW d \in [V -> 0..n]
  PROVE  \E m \in Nat :
           /\ DOMAIN StartBins(d) = 0..(m + 1)
           /\ \A v \in V : d[v] <= m
           /\ \A k \in 0..m : /\ StartBins(d)[k] \in Nat
                              /\ \A v \in V : d[v] < k <=> SortedPos(d)[v] < StartBins(d)[k]
<1> DEFINE D == {d[v] : v \in DOMAIN d}
<1>1. D # {} /\ D \subseteq 0..n
  <2>1. 0 \in V
    OBVIOUS
  <2> QED BY <2>1
<1>2. PICK m : m = Max(D)
  BY Zenon
<1>3. m \in D /\ \A y \in D : y <= m
  BY <1>1, <1>2, GreatestElement, Zenon
<1>4. m \in Nat /\ \A v \in V : d[v] <= m
  BY <1>1, <1>3
<1>5. PICK B : B = StartBins(d)
  OBVIOUS
<1>6. B = [k \in 0..(m + 1) |->
             IF k = m + 1 THEN 0 ELSE Cardinality({v \in DOMAIN d : d[v] < k})]
  BY <1>2, <1>5 DEF StartBins
<1>7. IsFiniteSet(V)
  BY FS_Interval
<1>8. d \in [V -> Nat]
  OBVIOUS
<1>9. ASSUME NEW k \in 0..m
      PROVE  /\ B[k] \in Nat
             /\ \A v \in V : d[v] < k <=> SortedPos(d)[v] < B[k]
  <2> DEFINE Low == {v \in V : d[v] < k}
  <2>1. B[k] = Cardinality(Low)
    BY <1>4, <1>6
  <2>2. IsFiniteSet(Low) /\ Cardinality(Low) \in Nat
    BY <1>7, FS_Subset, FS_CardinalityType
  <2>3. ASSUME NEW v \in V
        PROVE  d[v] < k <=> SortedPos(d)[v] < B[k]
    <3>1. SortedPos(d)[v] = Cardinality(Before(d, v))
      BY <1>8, SortIsPermutation DEF Sorts
    <3>2. Before(d, v) \subseteq V
      BY DEF Before
    <3>3. IsFiniteSet(Before(d, v)) /\ Cardinality(Before(d, v)) \in Nat
      BY <1>7, <3>2, FS_Subset, FS_CardinalityType, Zenon
    <3>4. CASE d[v] < k
      <4>1. Before(d, v) \cup {v} \in SUBSET Low /\ v \notin Before(d, v)
        BY <3>4 DEF Before
      <4>2. Cardinality(Before(d, v) \cup {v}) <= Cardinality(Low)
        BY <2>2, <4>1, FS_Subset, Zenon
      <4>3. Cardinality(Before(d, v) \cup {v}) = Cardinality(Before(d, v)) + 1
        BY <3>3, <4>1, FS_AddElement, Zenon
      <4> QED BY <2>1, <2>2, <3>1, <3>3, <3>4, <4>2, <4>3
    <3>5. CASE ~(d[v] < k)
      <4>1. Low \in SUBSET Before(d, v)
        BY <3>5 DEF Before
      <4>2. Cardinality(Low) <= Cardinality(Before(d, v))
        BY <3>3, <4>1, FS_Subset
      <4> QED BY <2>1, <2>2, <3>1, <3>3, <3>5, <4>2
    <3> QED BY <3>4, <3>5
  <2> QED BY <2>1, <2>2, <2>3
<1>10. DOMAIN B = 0..(m + 1)
  BY <1>6
<1> QED BY <1>4, <1>5, <1>9, <1>10, Zenon

-----------------------------------------------------------------------------
(* The graphs that are peeled.                                             *)

\* A graph on the vertices 0..n-1 with an edge both ways or not at all.
Undirected(w) ==
  /\ \E n \in Nat : DOMAIN w = 0..(n - 1)
  /\ \A u, v \in DOMAIN w : w[u][v] > 0 <=> w[v][u] > 0

\* RunKCore up to the peeling loop.
LEMMA StartKeeps ==
  ASSUME NEW w, Undirected(w), StartKCore(w)
  PROVE  KInv'
<1>1. PICK n \in Nat : DOMAIN w = 0..(n - 1)
  BY DEF Undirected
<1>2. CASE DOMAIN w = {}
  <2>1. kstage' = "done" /\ nbr' = SimpleNbrs(w)
    BY <1>2 DEF StartKCore
  <2>2. KVertices' = {}
    BY <1>2, <2>1 DEF KVertices, SimpleNbrs
  <2> QED BY <2>1, <2>2 DEF KInv, CorenessExact
<1>3. CASE DOMAIN w # {}
  <2>1. n # 0
    BY <1>1, <1>3
  <2>2. PICK V, N, d : V = DOMAIN w /\ N = SimpleNbrs(w) /\ d = Degrees(w)
    OBVIOUS
  <2>3. /\ kstage' = "peel" /\ nbr' = N /\ deg' = d /\ pos' = SortedPos(d)
        /\ vert' = [i \in V |-> CHOOSE v \in V : SortedPos(d)[v] = i]
        /\ bin' = StartBins(d) /\ coreness' = [v \in V |-> 0] /\ slot' = 0
    BY <1>3, <2>2 DEF StartKCore
  <2>4. N = [v \in V |-> {u \in V \ {v} : w[v][u] > 0}]
    BY <2>2, Zenon DEF SimpleNbrs
  <2>5. d = [v \in V |-> Cardinality(N[v])]
    BY <2>2, Zenon DEF Degrees
  <2>6. KVertices' = V /\ V = 0..(n - 1)
    BY <1>1, <2>2, <2>3, <2>4, Zenon DEF KVertices
  <2>7. NbrOK'
    <3>1. \A u, v \in V : w[u][v] > 0 <=> w[v][u] > 0
      BY <2>2, Zenon DEF Undirected
    <3>2. \A u, v \in V : u \in N[v] <=> v \in N[u]
      BY <2>4, <3>1, Zenon
    <3>3. N \in [V -> SUBSET V] /\ \A v \in V : v \notin N[v]
      BY <2>4
    <3> QED BY <2>3, <2>6, <3>2, <3>3, Zenon DEF NbrOK
  <2>8. d \in [V -> 0..n]
    <3>1. IsFiniteSet(V) /\ Cardinality(V) = n
      BY <2>6, FS_Interval
    <3>2. ASSUME NEW v \in V
          PROVE  Cardinality(N[v]) \in 0..n
      <4>1. N[v] \in SUBSET V
        BY <2>4, Zenon
      <4>2. IsFiniteSet(N[v]) /\ Cardinality(N[v]) <= Cardinality(V)
        BY <3>1, <4>1, FS_Subset, Zenon
      <4>3. Cardinality(N[v]) \in Nat
        BY <4>2, FS_CardinalityType
      <4> QED BY <3>1, <4>2, <4>3
    <3> QED BY <2>5, <3>2
  <2>9. d \in [V -> Nat]
    BY <2>8
  <2>10. PICK R : R = SortedPos(d)
    OBVIOUS
  <2>11. /\ R \in [V -> V]
         /\ \A i \in V : \E v \in V : R[v] = i
         /\ \A u, v \in V : R[u] = R[v] => u = v
         /\ \A u, v \in V : d[u] < d[v] => R[u] < R[v]
    <3>1. V = 0..(n - 1)
      BY <2>6
    <3>2. Sorts(V, d, SortedPos(d))
      BY <2>9, <3>1, SortIsPermutation
    <3> QED BY <2>10, <3>2, Zenon DEF Sorts
  <2>12. pos' = R /\ vert' = [i \in V |-> CHOOSE v \in V : R[v] = i]
    BY <2>3, <2>10
  <2>13. \A i \in V : vert'[i] \in V /\ R[vert'[i]] = i
    BY <2>11, <2>12
  <2>14. Permuted'
    <3>1. vert' \in [V -> V]
      BY <2>12, <2>13
    <3>2. \A v \in V : vert'[R[v]] = v
      BY <2>11, <2>13
    <3> QED BY <2>6, <2>11, <2>12, <2>13, <3>1, <3>2, Zenon DEF Permuted
  <2>15. Sorted'
    <3> SUFFICES ASSUME NEW i \in V, NEW j \in V, i <= j
                 PROVE  d[vert'[i]] <= d[vert'[j]]
      BY <2>3, <2>6, Zenon DEF Sorted
    <3>1. vert'[i] \in V /\ vert'[j] \in V /\ R[vert'[i]] = i /\ R[vert'[j]] = j
      BY <2>13
    <3>2. ~(d[vert'[j]] < d[vert'[i]])
      <4>1. i \in Nat /\ j \in Nat /\ ~(j < i)
        BY <2>6
      <4>2. d[vert'[j]] < d[vert'[i]] => R[vert'[j]] < R[vert'[i]]
        BY <2>11, <3>1, Zenon
      <4> QED BY <3>1, <4>1, <4>2
    <3> QED BY <2>9, <3>1, <3>2
  <2>16. Level' = -1
    BY <2>3, Zenon DEF Level
  <2>17. BinsOK'
    <3>1. PICK m \in Nat :
           /\ DOMAIN StartBins(d) = 0..(m + 1)
           /\ \A v \in V : d[v] <= m
           /\ \A k \in 0..m : /\ StartBins(d)[k] \in Nat
                              /\ \A v \in V : d[v] < k <=> SortedPos(d)[v] < StartBins(d)[k]
      BY <2>1, <2>6, <2>8, SortFillsBins, Zenon
    <3>2. ASSUME NEW k \in (-1 + 1)..m
          PROVE  /\ bin'[k] \in Int
                 /\ \A i \in V : deg'[vert'[i]] < k <=> i < bin'[k]
      <4>1. k \in 0..m
        BY <3>1
      <4>2. /\ bin'[k] \in Nat
            /\ \A v \in V : d[v] < k <=> R[v] < bin'[k]
        BY <2>3, <2>10, <3>1, <4>1, Zenon
      <4> QED BY <2>3, <2>13, <4>2
    <3> QED BY <2>3, <2>6, <2>16, <3>1, <3>2, Zenon DEF BinsOK
  <2>18. \A v \in V : ~Peeled(v)'
    <3>1. \A v \in V : R[v] \in Nat
      BY <2>6, <2>11
    <3> QED BY <2>3, <2>12, <3>1 DEF Peeled
  <2>19. \A v \in V : Rest(v)' = N[v]
    <3>1. \A v \in V : \A u \in N[v] : u \in V
      BY <2>4, Zenon
    <3> QED BY <2>3, <2>18, <3>1 DEF Rest
  <2>20. ASSUME NEW v \in V
         PROVE  v \in Core(-1)'
    <3>1. \A x \in V : N[x] \cap V = N[x] /\ Cardinality(N[x]) >= -1
      <4>1. \A x \in V : Cardinality(N[x]) = d[x] /\ d[x] \in Nat
        BY <2>5, <2>9, Zenon
      <4> QED BY <2>4, <4>1
    <3> QED BY <2>3, <2>6, <3>1, Zenon DEF Core
  <2>21. \A v \in KVertices' :
           ~Peeled(v)' => /\ v \in Core(Level)'
                          /\ Cardinality(Rest(v)') <= deg'[v]
                          /\ deg'[v] > Level' => Cardinality(Rest(v)') = deg'[v]
    BY <2>3, <2>5, <2>6, <2>9, <2>16, <2>19, <2>20
  <2>22. coreness' \in [V -> Nat] /\ slot' \in V
    BY <2>1, <2>3, <2>6
  <2>23. PeelInv'
    BY <2>3, <2>6, <2>7, <2>9, <2>14, <2>15, <2>17, <2>18, <2>21, <2>22, Zenon DEF PeelInv
  <2> QED BY <2>3, <2>23 DEF KInv
<1> QED BY <1>2, <1>3

\* Whatever else a procedure does, the arrays of RunKCore stay as they are.
LEMMA KInvStutters ==
  ASSUME KInv, UNCHANGED kvars
  PROVE  KInv'
<1>1. /\ kstage' = kstage /\ nbr' = nbr /\ deg' = deg /\ bin' = bin /\ vert' = vert
      /\ pos' = pos /\ coreness' = coreness /\ slot' = slot /\ todo' = todo
  BY Zenon DEF kvars
<1>2. PeelInv => PeelInv'
  <2> SUFFICES ASSUME PeelInv
               PROVE  PeelInv'
    BY Zenon
  <2>1. KVertices' = KVertices /\ NbrOK' /\ \A k : Core(k)' = Core(k)
    BY <1>1, SameGraph, Zenon DEF PeelInv
  <2>2. /\ Level' = Level
        /\ \A v : (Peeled(v)' <=> Peeled(v)) /\ Later(v)' = Later(v)
    BY <1>1, Zenon DEF Level, Peeled, Later
  <2>3. \A v : Rest(v)' = Rest(v)
    BY <1>1, <2>2, Zenon DEF Rest
  <2>4. Permuted' /\ Sorted' /\ BinsOK'
    BY <1>1, <2>1, <2>2, Zenon DEF PeelInv, Permuted, Sorted, BinsOK
  <2>5. \A v \in KVertices' :
          Peeled(v)' => /\ coreness'[v] = deg'[v]
                        /\ v \in Core(deg[v])'
                        /\ Cardinality(Later(v)') <= deg'[v]
    BY <1>1, <2>1, <2>2, Zenon DEF PeelInv
  <2>6. \A v \in KVertices' :
          ~Peeled(v)' => /\ v \in Core(Level)'
                         /\ Cardinality(Rest(v)') <= deg'[v]
                         /\ deg'[v] > Level' => Cardinality(Rest(v)') = deg'[v]
    BY <1>1, <2>1, <2>2, <2>3, Zenon DEF PeelInv
  <2> QED BY <1>1, <2>1, <2>4, <2>5, <2>6, Zenon DEF PeelInv
<1>3. CorenessExact => CorenessExact'
  BY <1>1, Zenon DEF CorenessExact, Core, KVertices
<1> QED BY <1>1, <1>2, <1>3 DEF KInv

-----------------------------------------------------------------------------
(* The invariant of the two passes.                                        *)

\* The edges the passes visit, and their ends: <<e, 1>> is the entry of e in
\* the list of its source, <<e, 2>> the one in the list of its destination.
Edges == live
Ends == Edges \X {1, 2}
At(k) == IF k[2] = 1 THEN k[1].src ELSE k[1].dst
Across(k) == IF k[2] = 1 THEN k[1].dst ELSE k[1].src
EndsAt(u) == {k \in Ends : At(k) = u}

\* The current pass is through with the edge.
Handled(e) ==
  \/ e.label < label
  \/ e.label = label /\ e.src \notin sources /\ \A t \in Threads : e \notin left[t]

\* In the second pass: some thread has taken the slot for this end.
Taken(k) ==
  \/ Handled(k[1])
  \/ \E t \in Threads : /\ held[t] # Idle /\ held[t].edge = k[1]
                        /\ k[2] = 1 \/ held[t].pv # -1

\* What step 1 has established: the edges join vertices by their global ids, and
\* dense label ids make that the stored graph.
GraphOK ==
  /\ num_vertex \in Nat /\ IsFiniteSet(live)
  /\ num_vertex = NumVertex(stored) /\ live = Visited(stored)
  /\ \A e \in live : /\ e.src \in AllVertices /\ e.dst \in AllVertices
                     /\ e.label \in Labels /\ e.src \in SourceIds(stored, e.label)
  /\ \A k : SourceIds(stored, k) \subseteq AllVertices
  /\ LabelsDense(stored) => WeightsOf(stored, SequentialWeights(stored))

\* Nobody has claimed an unclaimed vertex, and no two threads the same edge.
LoopOK ==
  /\ label \in Nat /\ (label \in Labels \/ Labels = {})
  /\ sources \subseteq AllVertices
  /\ left \in [Threads -> SUBSET Edges]
  /\ \A t \in Threads : \A e \in left[t] : e.label = label /\ e.src \notin sources
  /\ \A s, t \in Threads : s # t => left[s] \cap left[t] = {}
  /\ cursor \in [AllVertices -> Nat]

NoneHeld == DOMAIN held = Threads /\ \A t \in Threads : held[t] = Idle

CountOK ==
  \A u \in AllVertices : cursor[u] = Cardinality({k \in EndsAt(u) : Handled(k[1])})

HeldOK ==
  /\ DOMAIN held = Threads
  /\ \A t \in Threads : held[t] # Idle =>
       held[t] \in [edge : left[t], pu : Nat, pv : Nat \cup {-1}]

\* sl says which slot each taken end has got: those of a vertex are different
\* and fill its list up to the cursor; the ends of handled edges are written,
\* nothing else is.
SlotMap(sl) ==
  /\ \A k \in Ends : Taken(k) => sl[k] < cursor[At(k)]
  /\ \A k, l \in Ends :
       Taken(k) /\ Taken(l) /\ At(k) = At(l) /\ sl[k] = sl[l] => k = l
  /\ \A u \in AllVertices : \A i \in 0..(cursor[u] - 1) :
       \E k \in Ends : Taken(k) /\ At(k) = u /\ sl[k] = i
  /\ \A k \in Ends : Handled(k[1]) => lists[At(k)][sl[k]] = Across(k)
  /\ \A u \in AllVertices : \A i \in DOMAIN lists[u] :
       lists[u][i] # NoEdge =>
         \E k \in Ends : Handled(k[1]) /\ At(k) = u /\ sl[k] = i

\* What the threads hold are these slots.
HeldSlots(sl) ==
  \A t \in Threads : held[t] # Idle =>
    /\ sl[<<held[t].edge, 1>>] = held[t].pu
    /\ held[t].pv # -1 => sl[<<held[t].edge, 2>>] = held[t].pv

\* Every list has a slot for each end at its vertex.
ListsOK ==
  \A u \in AllVertices : DOMAIN lists[u] = 0..(Cardinality(EndsAt(u)) - 1)

FillOK ==
  /\ HeldOK /\ ListsOK
  /\ \E sl \in [Ends -> Nat] : SlotMap(sl) /\ HeldSlots(sl)

Complete ==
  /\ \A u \in AllVertices : \A i \in DOMAIN lists[u] : lists[u][i] # NoEdge
  /\ ListWeights = SequentialWeights(stored)
  /\ LabelsDense(stored) => WeightsOf(stored, ListWeights)

BInv ==
  /\ bstage \in {"idle", "count", "fill", "built"}
  /\ bstage \in {"count", "fill"} => GraphOK /\ LoopOK
  /\ bstage = "count" => CountOK
  /\ bstage = "fill" => FillOK
  /\ bstage # "fill" => NoneHeld
  /\ bstage \in {"idle", "built"} => left = [t \in Threads |-> {}]
  /\ bstage = "built" => Complete

-----------------------------------------------------------------------------
(* Edges and their ends.                                                   *)

\* Both ends of a visited edge are vertices.
LEMMA EdgeTypes ==
  ASSUME GraphOK
  PROVE  \A e \in Edges : /\ e.src \in AllVertices /\ e.dst \in AllVertices
                          /\ e.label \in Labels
BY Zenon DEF GraphOK, Edges

\* The loop over its type comes to the source of an edge.
LEMMA EdgeSource ==
  ASSUME GraphOK
  PROVE  \A e \in Edges : e.src \in SourceIds(stored, e.label)
BY Zenon DEF GraphOK, Edges

\* The two ends of an edge.
LEMMA EndTypes ==
  /\ \A e \in Edges : <<e, 1>> \in Ends /\ <<e, 2>> \in Ends
  /\ \A k \in Ends : k[1] \in Edges /\ (k = <<k[1], 1>> \/ k = <<k[1], 2>>)
  /\ \A e \in Edges : /\ At(<<e, 1>>) = e.src /\ Across(<<e, 1>>) = e.dst
                      /\ At(<<e, 2>>) = e.dst /\ Across(<<e, 2>>) = e.src
BY DEF Ends, At, Across

\* The fields of what a thread holds.
LEMMA HeldFields ==
  ASSUME NEW x, NEW i \in Nat, NEW j, NEW h, h = [edge |-> x, pu |-> i, pv |-> j]
  PROVE  h # Idle /\ h.edge = x /\ h.pu = i /\ h.pv = j
BY DEF Idle

\* Every end is at a vertex, and across from one.
LEMMA EndVertices ==
  ASSUME GraphOK
  PROVE  \A k \in Ends : At(k) \in AllVertices /\ Across(k) \in AllVertices
BY EdgeTypes, EndTypes, Zenon

\* A vertex has finitely many ends.
LEMMA FiniteEnds ==
  ASSUME GraphOK
  PROVE  /\ IsFiniteSet(Edges) /\ IsFiniteSet(Ends)
         /\ \A u : IsFiniteSet(EndsAt(u)) /\ Cardinality(EndsAt(u)) \in Nat
<1>1. IsFiniteSet(Edges)
  <2>1. Edges \subseteq live
    BY DEF Edges
  <2> QED BY <2>1, FS_Subset, Zenon DEF GraphOK
<1>2. IsFiniteSet({1, 2})
  <2>1. {1, 2} = 1..2
    OBVIOUS
  <2>2. 1 \in Int /\ 2 \in Int
    OBVIOUS
  <2>3. IsFiniteSet(1..2)
    BY <2>2, FS_Interval, Zenon
  <2> QED BY <2>1, <2>3
<1>3. IsFiniteSet(Ends)
  BY <1>1, <1>2, FS_Product DEF Ends
<1>4. ASSUME NEW u
      PROVE  IsFiniteSet(EndsAt(u)) /\ Cardinality(EndsAt(u)) \in Nat
  <2>1. EndsAt(u) \subseteq Ends
    BY Zenon DEF EndsAt
  <2> QED BY <1>3, <2>1, FS_Subset, FS_CardinalityType
<1> QED BY <1>1, <1>3, <1>4, Zenon

\* The graph stays as it is during a build.
LEMMA SameStored ==
  ASSUME UNCHANGED <<stored, num_vertex, live>>
  PROVE  /\ AllVertices' = AllVertices /\ Edges' = Edges /\ Ends' = Ends
         /\ \A u : EndsAt(u)' = EndsAt(u)
         /\ GraphOK => GraphOK'
<1>1. stored' = stored /\ num_vertex' = num_vertex /\ live' = live
  BY Zenon
<1>2. AllVertices' = AllVertices /\ Edges' = Edges
  BY <1>1, Zenon DEF AllVertices, Edges
<1>3. Ends' = Ends
  BY <1>2, Zenon DEF Ends
<1>4. \A u : EndsAt(u)' = EndsAt(u)
  BY <1>3, Zenon DEF EndsAt
<1>5. GraphOK => GraphOK'
  BY <1>1, <1>2, Zenon DEF GraphOK
<1> QED BY <1>2, <1>3, <1>4, <1>5, Zenon

-----------------------------------------------------------------------------
(* The loops of a pass.                                                    *)

\* An edge of a claimed vertex that a thread has still to handle is not handled.
LEMMA LeftNotHandled ==
  ASSUME LoopOK, NEW t \in Threads, NEW e \in left[t]
  PROVE  ~Handled(e)
<1>1. e.label = label /\ label \in Nat
  BY Zenon DEF LoopOK
<1> QED BY <1>1 DEF Handled

\* Claiming a vertex handles nothing.
LEMMA ClaimKeeps ==
  ASSUME GraphOK, LoopOK, NEW t \in Threads, NEW u \in sources, Claim(t, u)
  PROVE  LoopOK' /\ \A e \in Edges : Handled(e)' <=> Handled(e)
<1>1. /\ left[t] = {} /\ sources' = sources \ {u}
      /\ left' = [left EXCEPT ![t] = {e \in Edges : e.src = u /\ e.label = label}]
      /\ label' = label /\ cursor' = cursor
  BY DEF Claim, Edges
<1>2. AllVertices' = AllVertices /\ Edges' = Edges
  BY SameStored DEF Claim
<1>3. /\ DOMAIN left = Threads
      /\ left'[t] = {e \in Edges : e.src = u /\ e.label = label}
      /\ \A s \in Threads : s # t => left'[s] = left[s]
  BY <1>1 DEF LoopOK
<1>4. left' \in [Threads -> SUBSET Edges']
  BY <1>1, <1>2 DEF LoopOK
<1>5. ASSUME NEW s \in Threads, NEW e \in left'[s]
      PROVE  e.label = label' /\ e.src \notin sources'
  <2>1. CASE s = t
    BY <1>1, <1>3, <1>5, <2>1
  <2>2. CASE s # t
    BY <1>1, <1>3, <1>5, <2>2 DEF LoopOK
  <2> QED BY <2>1, <2>2
<1>6. ASSUME NEW s \in Threads, s # t
      PROVE  left'[s] \cap left'[t] = {}
  <2>1. \A e \in left[s] : e.src # u
    BY Zenon DEF LoopOK
  <2> QED BY <1>3, <1>6, <2>1
<1>7. \A r, s \in Threads : r # s => left'[r] \cap left'[s] = {}
  <2> SUFFICES ASSUME NEW r \in Threads, NEW s \in Threads, r # s
               PROVE  left'[r] \cap left'[s] = {}
    BY Zenon
  <2>1. CASE r = t
    BY <1>6, <2>1
  <2>2. CASE s = t
    BY <1>6, <2>2
  <2>3. CASE r # t /\ s # t
    BY <1>3, <2>3, Zenon DEF LoopOK
  <2> QED BY <2>1, <2>2, <2>3
<1>8. LoopOK'
  BY <1>1, <1>2, <1>4, <1>5, <1>7 DEF LoopOK
<1>9. ASSUME NEW e \in Edges
      PROVE  Handled(e)' <=> Handled(e)
  <2>1. CASE e.src = u /\ e.label = label
    <3>1. label \in Nat /\ e \in left'[t]
      BY <1>3, <2>1 DEF LoopOK
    <3> QED BY <1>1, <2>1, <3>1 DEF Handled
  <2>2. CASE ~(e.src = u /\ e.label = label)
    <3>1. \A s \in Threads : e \in left'[s] <=> e \in left[s]
      BY <1>1, <1>3, <2>2, Zenon
    <3>2. e.label = label => (e.src \in sources' <=> e.src \in sources)
      BY <1>1, <2>2
    <3> QED BY <1>1, <3>1, <3>2, Zenon DEF Handled
  <2> QED BY <2>1, <2>2
<1> QED BY <1>8, <1>9

\* A thread that is through with an edge handles this one and no other.
LEMMA DropKeeps ==
  ASSUME GraphOK, LoopOK, NEW t \in Threads, NEW e \in left[t],
         left' = [left EXCEPT ![t] = @ \ {e}], cursor' \in [AllVertices -> Nat],
         UNCHANGED <<stored, num_vertex, live, label, sources>>
  PROVE  LoopOK' /\ \A x \in Edges : Handled(x)' <=> (Handled(x) \/ x = e)
<1>1. AllVertices' = AllVertices /\ Edges' = Edges
  BY SameStored
<1>2. /\ label' = label /\ sources' = sources
      /\ left'[t] = left[t] \ {e}
      /\ \A s \in Threads : s # t => left'[s] = left[s]
  BY DEF LoopOK
<1>3. \A s \in Threads : left'[s] \subseteq left[s]
  BY <1>2
<1>4. left' \in [Threads -> SUBSET Edges']
  BY <1>1 DEF LoopOK
<1>5. \A s \in Threads : \A x \in left'[s] : x.label = label' /\ x.src \notin sources'
  BY <1>2, <1>3 DEF LoopOK
<1>6. \A r, s \in Threads : r # s => left'[r] \cap left'[s] = {}
  BY <1>3 DEF LoopOK
<1>7. LoopOK'
  BY <1>1, <1>2, <1>4, <1>5, <1>6 DEF LoopOK
<1>8. ASSUME NEW x \in Edges
      PROVE  Handled(x)' <=> (Handled(x) \/ x = e)
  <2>1. CASE x = e
    <3>1. e.label = label /\ e.src \notin sources /\ \A s \in Threads : s # t => e \notin left[s]
      BY DEF LoopOK
    <3> QED BY <1>2, <2>1, <3>1 DEF Handled
  <2>2. CASE x # e
    <3>1. \A s \in Threads : x \in left'[s] <=> x \in left[s]
      BY <1>2, <2>2
    <3> QED BY <1>2, <2>2, <3>1, Zenon DEF Handled
  <2> QED BY <2>1, <2>2
<1> QED BY <1>7, <1>8

\* The next label starts where the last one ended: every edge of the labels
\* before it is handled, none of its own.
LEMMA NextLabelKeeps ==
  ASSUME GraphOK, LoopOK, NextLabel
  PROVE  LoopOK' /\ \A e \in Edges : Handled(e)' <=> Handled(e)
<1>1. /\ sources = {} /\ \A t \in Threads : left[t] = {}
      /\ label + 1 \in Labels /\ label' = label + 1 /\ sources' = SourceIds(stored, label + 1)
      /\ left' = left /\ cursor' = cursor
  BY DEF NextLabel, LoopDone
<1>2. AllVertices' = AllVertices /\ Edges' = Edges
  BY SameStored DEF NextLabel
<1>3. LoopOK'
  <2>1. sources' \subseteq AllVertices'
    BY <1>1, <1>2, Zenon DEF GraphOK
  <2> QED BY <1>1, <1>2, <2>1 DEF LoopOK
<1>4. ASSUME NEW e \in Edges
      PROVE  Handled(e)' <=> Handled(e)
  <2>1. e.src \in SourceIds(stored, e.label) /\ e.label \in Labels /\ label \in Nat
    BY EdgeTypes, EdgeSource, Zenon DEF LoopOK
  <2>2. Handled(e) <=> e.label < label \/ e.label = label
    BY <1>1, Zenon DEF Handled
  <2>3. Handled(e)' <=> e.label < label + 1
    BY <1>1, <2>1 DEF Handled
  <2>4. e.label \in Int
    BY <2>1, LabelsAssumption, FS_CardinalityType
  <2> QED BY <2>1, <2>2, <2>3, <2>4
<1> QED BY <1>3, <1>4

\* After the last label every edge is handled.
LEMMA PassDone ==
  ASSUME GraphOK, LoopOK, LoopDone, label + 1 \notin Labels
  PROVE  \A e \in Edges : Handled(e)
<1> SUFFICES ASSUME NEW e \in Edges
             PROVE  Handled(e)
  BY Zenon
<1>1. e.label \in Labels /\ label \in Nat /\ label \in Labels
  BY EdgeTypes DEF LoopOK
<1>2. Cardinality(Labels) \in Nat /\ Labels = 1..Cardinality(Labels)
  BY LabelsAssumption, FS_CardinalityType
<1>3. e.label <= label /\ e.label \in Nat
  BY <1>1, <1>2
<1>4. e.label < label \/ e.label = label
  BY <1>1, <1>3
<1> QED BY <1>4 DEF Handled, LoopDone

-----------------------------------------------------------------------------
(* Counting.                                                               *)

\* Sets in one-to-one correspondence have the same size.
LEMMA SameSize ==
  ASSUME NEW S, NEW T, NEW f \in [S -> T], IsFiniteSet(S),
         \A x, y \in S : f[x] = f[y] => x = y,
         \A y \in T : \E x \in S : f[x] = y
  PROVE  IsFiniteSet(T) /\ Cardinality(T) = Cardinality(S)
<1>1. f \in Bijection(S, T)
  BY DEF Bijection, Injection, Surjection, IsInjective
<1> QED BY <1>1, FS_Bijection DEF ExistsBijection

\* The size of a disjoint union.
LEMMA DisjointSize ==
  ASSUME NEW S, NEW T, IsFiniteSet(S), IsFiniteSet(T), S \cap T = {}
  PROVE  Cardinality(S \cup T) = Cardinality(S) + Cardinality(T)
<1>1. Cardinality(S \cup T) = Cardinality(S) + Cardinality(T) - Cardinality(S \cap T)
  BY FS_Union, Zenon
<1>2. Cardinality(S \cap T) = 0 /\ Cardinality(S) \in Nat /\ Cardinality(T) \in Nat
  BY FS_EmptySet, FS_CardinalityType, Zenon
<1> QED BY <1>1, <1>2

\* The two fetch_adds of the first pass count the two ends of their edge.
LEMMA CountEdgeKeeps ==
  ASSUME GraphOK, LoopOK, CountOK, NEW t \in Threads, NEW e \in left[t], CountEdge(t, e)
  PROVE  LoopOK' /\ CountOK'
<1> DEFINE Own(u) == {i \in {1, 2} : <<e.src, e.dst>>[i] = u}
           New(u) == {k \in EndsAt(u) : k[1] = e}
           Counted(u) == {k \in EndsAt(u) : Handled(k[1])}
<1>1. /\ cursor' = [u \in AllVertices |-> cursor[u] + Cardinality(Own(u))]
      /\ left' = [left EXCEPT ![t] = @ \ {e}]
      /\ UNCHANGED <<stored, num_vertex, live, label, sources>>
  BY DEF CountEdge
<1>2. e \in Edges /\ ~Handled(e)
  BY LeftNotHandled DEF LoopOK
<1>3. ASSUME NEW u
      PROVE  /\ IsFiniteSet(Own(u)) /\ Cardinality(Own(u)) \in Nat
             /\ IsFiniteSet(New(u)) /\ Cardinality(New(u)) = Cardinality(Own(u))
  <2>1. IsFiniteSet({1, 2}) /\ Own(u) \subseteq {1, 2}
    <3>1. {1, 2} = 1..2 /\ 1 \in Int /\ 2 \in Int
      OBVIOUS
    <3> QED BY <3>1, FS_Interval, Zenon
  <2>2. IsFiniteSet(Own(u)) /\ Cardinality(Own(u)) \in Nat
    BY <2>1, FS_Subset, FS_CardinalityType, Zenon
  <2> DEFINE f == [i \in Own(u) |-> <<e, i>>]
  <2>3. f \in [Own(u) -> New(u)]
    <3> SUFFICES ASSUME NEW i \in Own(u)
                 PROVE  <<e, i>> \in New(u)
      OBVIOUS
    <3>1. CASE i = 1
      BY <1>2, <3>1, EndTypes, Zenon DEF EndsAt
    <3>2. CASE i = 2
      BY <1>2, <3>2, EndTypes, Zenon DEF EndsAt
    <3> QED BY <3>1, <3>2
  <2>4. \A i, j \in Own(u) : f[i] = f[j] => i = j
    OBVIOUS
  <2>5. ASSUME NEW k \in New(u)
        PROVE  \E i \in Own(u) : f[i] = k
    <3>1. k \in Ends /\ At(k) = u /\ k[1] = e
      BY <2>5 DEF EndsAt
    <3>2. CASE k = <<e, 1>>
      <4>1. e.src = u
        BY <1>2, <3>1, <3>2, EndTypes, Zenon
      <4>2. 1 \in Own(u)
        BY <4>1
      <4> QED BY <3>2, <4>2
    <3>3. CASE k = <<e, 2>>
      <4>1. e.dst = u
        BY <1>2, <3>1, <3>3, EndTypes, Zenon
      <4>2. 2 \in Own(u)
        BY <4>1
      <4> QED BY <3>3, <4>2
    <3> QED BY <3>1, <3>2, <3>3, EndTypes
  <2> HIDE DEF f, Own, New
  <2>6. IsFiniteSet(New(u)) /\ Cardinality(New(u)) = Cardinality(Own(u))
    BY <2>2, <2>3, <2>4, <2>5, SameSize
  <2> QED BY <2>2, <2>6
<1>4. cursor' \in [AllVertices -> Nat]
  <2> HIDE DEF Own
  <2>1. \A u \in AllVertices : cursor[u] \in Nat
    BY DEF LoopOK
  <2>2. ASSUME NEW u \in AllVertices
        PROVE  cursor[u] + Cardinality(Own(u)) \in Nat
    <3>1. cursor[u] \in Nat /\ Cardinality(Own(u)) \in Nat
      BY <1>3, <2>1, Zenon
    <3> QED BY <3>1
  <2> QED BY <1>1, <2>2
<1>5. LoopOK' /\ \A x \in Edges : Handled(x)' <=> (Handled(x) \/ x = e)
  BY <1>1, <1>4, DropKeeps, Zenon
<1>6. AllVertices' = AllVertices /\ \A u : EndsAt(u)' = EndsAt(u)
  BY <1>1, SameStored
<1>7. ASSUME NEW u \in AllVertices
      PROVE  cursor'[u] = Cardinality({k \in EndsAt(u)' : Handled(k[1])'})
  <2>1. \A k \in EndsAt(u) : k[1] \in Edges
    BY EndTypes DEF EndsAt
  <2>2. {k \in EndsAt(u)' : Handled(k[1])'} = Counted(u) \cup New(u)
    BY <1>5, <1>6, <2>1
  <2>3. Counted(u) \cap New(u) = {}
    BY <1>2
  <2>4. IsFiniteSet(Counted(u))
    <3>1. Counted(u) \subseteq EndsAt(u)
      OBVIOUS
    <3> QED BY <3>1, FiniteEnds, FS_Subset
  <2>5. cursor[u] = Cardinality(Counted(u))
    BY Zenon DEF CountOK
  <2> HIDE DEF Counted, New, Own
  <2>6. Cardinality(Counted(u) \cup New(u)) = Cardinality(Counted(u)) + Cardinality(New(u))
    BY <1>3, <2>3, <2>4, DisjointSize, Zenon
  <2>7. cursor'[u] = cursor[u] + Cardinality(Own(u))
    BY <1>1
  <2> QED BY <1>3, <2>2, <2>5, <2>6, <2>7, Zenon
<1> QED BY <1>5, <1>6, <1>7, Zenon DEF CountOK

\* Steps that handle no edge leave the counts right.
LEMMA CountsSame ==
  ASSUME CountOK, cursor' = cursor, UNCHANGED <<stored, num_vertex, live>>,
         \A e \in Edges : Handled(e)' <=> Handled(e)
  PROVE  CountOK'
<1>1. AllVertices' = AllVertices /\ \A u : EndsAt(u)' = EndsAt(u)
  BY SameStored
<1>2. \A u : \A k \in EndsAt(u) : k[1] \in Edges
  BY EndTypes DEF EndsAt
<1>3. \A u : {k \in EndsAt(u)' : Handled(k[1])'} = {k \in EndsAt(u) : Handled(k[1])}
  BY <1>1, <1>2
<1> QED BY <1>1, <1>3 DEF CountOK

-----------------------------------------------------------------------------
(* The second pass.                                                        *)

\* The cursor of a vertex counts the ends whose slot is taken, so it stays
\* within the list.
LEMMA CursorCounts ==
  ASSUME GraphOK, LoopOK, NEW sl \in [Ends -> Nat], SlotMap(sl), NEW u \in AllVertices
  PROVE  /\ cursor[u] = Cardinality({k \in EndsAt(u) : Taken(k)})
         /\ cursor[u] <= Cardinality(EndsAt(u))
<1> DEFINE S == {k \in EndsAt(u) : Taken(k)}
           T == 0..(cursor[u] - 1)
           f == [k \in S |-> sl[k]]
<1>1. IsFiniteSet(EndsAt(u)) /\ S \subseteq EndsAt(u) /\ Cardinality(EndsAt(u)) \in Nat
  BY FiniteEnds
<1>2. IsFiniteSet(S) /\ Cardinality(S) <= Cardinality(EndsAt(u)) /\ Cardinality(S) \in Nat
  BY <1>1, FS_Subset, FS_CardinalityType, Zenon
<1>3. cursor[u] \in Nat
  BY DEF LoopOK
<1>4. \A k \in S : k \in Ends /\ At(k) = u /\ Taken(k)
  BY DEF EndsAt
<1>5. f \in [S -> T]
  <2> SUFFICES ASSUME NEW k \in S
               PROVE  sl[k] \in T
    BY Zenon
  <2>1. sl[k] \in Nat /\ sl[k] < cursor[u]
    BY <1>4, Zenon DEF SlotMap
  <2> QED BY <1>3, <2>1
<1>6. \A k, l \in S : f[k] = f[l] => k = l
  BY <1>4, Zenon DEF SlotMap
<1>7. ASSUME NEW i \in T
      PROVE  \E k \in S : f[k] = i
  <2>1. PICK k \in Ends : Taken(k) /\ At(k) = u /\ sl[k] = i
    BY DEF SlotMap
  <2>2. k \in S
    BY <2>1 DEF EndsAt
  <2> QED BY <2>1, <2>2, Zenon
<1>8. Cardinality(T) = cursor[u]
  <2>1. 0 \in Int /\ cursor[u] - 1 \in Int
    BY <1>3
  <2> QED BY <1>3, <2>1, FS_Interval
<1> HIDE DEF S, T, f
<1>9. Cardinality(T) = Cardinality(S)
  BY <1>2, <1>5, <1>6, <1>7, SameSize, Zenon
<1>10. cursor[u] = Cardinality(S)
  BY <1>8, <1>9
<1> QED BY <1>2, <1>10 DEF S

\* The ends whose slots a thread holds are taken, and no others of its edge.
LEMMA HeldEnds ==
  ASSUME LoopOK, HeldOK, NEW t \in Threads, held[t] # Idle
  PROVE  /\ held[t].edge \in left[t] /\ held[t].edge \in Edges
         /\ held[t].pu \in Nat /\ held[t].pv \in Nat \cup {-1}
         /\ held[t] = [edge |-> held[t].edge, pu |-> held[t].pu, pv |-> held[t].pv]
         /\ Taken(<<held[t].edge, 1>>)
         /\ Taken(<<held[t].edge, 2>>) <=> held[t].pv # -1
<1>1. held[t] \in [edge : left[t], pu : Nat, pv : Nat \cup {-1}]
  BY DEF HeldOK
<1>2. /\ held[t].edge \in left[t] /\ held[t].pu \in Nat /\ held[t].pv \in Nat \cup {-1}
      /\ held[t] = [edge |-> held[t].edge, pu |-> held[t].pu, pv |-> held[t].pv]
  BY <1>1, Zenon
<1>3. held[t].edge \in Edges /\ ~Handled(held[t].edge)
  BY <1>2, LeftNotHandled DEF LoopOK
<1>4. Taken(<<held[t].edge, 1>>)
  BY Zenon DEF Taken
<1>5. held[t].pv # -1 => Taken(<<held[t].edge, 2>>)
  BY DEF Taken
<1>6. ASSUME NEW s \in Threads, held[s] # Idle, held[s].edge = held[t].edge
      PROVE  s = t
  <2>1. held[s].edge \in left[s]
    BY <1>6 DEF HeldOK
  <2> QED BY <1>2, <1>6, <2>1, Zenon DEF LoopOK
<1>7. Taken(<<held[t].edge, 2>>) => held[t].pv # -1
  BY <1>3, <1>6 DEF Taken
<1> QED BY <1>2, <1>3, <1>4, <1>5, <1>7

\* fetch_add on the cursor of a vertex gives an end at that vertex the first
\* slot nobody has.
LEMMA TakeSlot ==
  ASSUME GraphOK, LoopOK, NEW sl \in [Ends -> Nat], SlotMap(sl),
         NEW k \in Ends, ~Taken(k),
         cursor' = [cursor EXCEPT ![At(k)] = @ + 1],
         UNCHANGED <<stored, num_vertex, live, label, sources, left, lists>>,
         \A l \in Ends : Taken(l)' <=> (Taken(l) \/ l = k),
         NEW new, new = [sl EXCEPT ![k] = cursor[At(k)]]
  PROVE  LoopOK' /\ new \in [Ends -> Nat] /\ SlotMap(new)'
<1>1. /\ AllVertices' = AllVertices /\ Edges' = Edges /\ Ends' = Ends
      /\ lists' = lists
      /\ \A e : Handled(e)' <=> Handled(e)
  BY SameStored, Zenon DEF Handled
<1>2. PICK u \in AllVertices : u = At(k)
  BY EndVertices, Zenon
<1>3. /\ cursor \in [AllVertices -> Nat] /\ cursor[u] \in Nat
      /\ cursor' \in [AllVertices -> Nat] /\ cursor'[u] = cursor[u] + 1
      /\ \A v \in AllVertices : v # u => cursor'[v] = cursor[v]
  BY <1>2 DEF LoopOK
<1>4. LoopOK'
  <2>1. label' = label /\ sources' = sources /\ left' = left
    BY Zenon
  <2> QED BY <1>1, <1>3, <2>1, Zenon DEF LoopOK
<1>5. /\ new \in [Ends -> Nat] /\ new[k] = cursor[u]
      /\ \A l \in Ends : l # k => new[l] = sl[l]
  BY <1>2, <1>3, Zenon
<1>6. ASSUME NEW l \in Ends, Taken(l)
      PROVE  new[l] = sl[l] /\ sl[l] \in Nat /\ sl[l] < cursor[At(l)]
  BY <1>5, <1>6 DEF SlotMap
<1>7. \A l \in Ends : At(l) \in AllVertices
  BY EndVertices, Zenon
<1>8. ASSUME NEW l \in Ends, Taken(l)'
      PROVE  new[l] < cursor'[At(l)]
  <2>1. CASE l = k
    BY <1>2, <1>3, <1>5, <2>1
  <2>2. CASE l # k
    <3>1. new[l] = sl[l] /\ sl[l] \in Nat /\ sl[l] < cursor[At(l)]
      BY <1>6, <1>8, <2>2, Zenon
    <3>2. cursor[At(l)] \in Nat /\ (cursor'[At(l)] = cursor[At(l)] \/ cursor'[At(l)] = cursor[At(l)] + 1)
      BY <1>3, <1>7, Zenon
    <3> QED BY <3>1, <3>2
  <2> QED BY <2>1, <2>2, Zenon
<1>9. ASSUME NEW l \in Ends, Taken(l), At(l) = u
      PROVE  new[l] # new[k]
  <2>1. new[l] = sl[l] /\ sl[l] \in Nat /\ sl[l] < cursor[u]
    BY <1>6, <1>9, Zenon
  <2> QED BY <1>3, <1>5, <2>1
<1>10. ASSUME NEW l \in Ends, NEW m \in Ends, Taken(l)', Taken(m)', At(l) = At(m), new[l] = new[m]
       PROVE  l = m
  <2>1. CASE l # k /\ m # k
    BY <1>6, <1>10, <2>1, Zenon DEF SlotMap
  <2>2. CASE l = k /\ m # k
    BY <1>2, <1>9, <1>10, <2>2, Zenon
  <2>3. CASE l # k /\ m = k
    BY <1>2, <1>9, <1>10, <2>3, Zenon
  <2> QED BY <2>1, <2>2, <2>3, Zenon
<1>11. ASSUME NEW v \in AllVertices, NEW i \in 0..(cursor'[v] - 1)
       PROVE  \E l \in Ends : Taken(l)' /\ At(l) = v /\ new[l] = i
  <2>1. CASE v = u /\ i = cursor[u]
    BY <1>2, <1>5, <2>1, Zenon
  <2>2. CASE ~(v = u /\ i = cursor[u])
    <3>1. i \in 0..(cursor[v] - 1)
      <4>1. cursor[v] \in Nat
        BY <1>3, Zenon
      <4> QED BY <1>3, <1>11, <2>2, <4>1
    <3>2. PICK l \in Ends : Taken(l) /\ At(l) = v /\ sl[l] = i
      BY <3>1, Zenon DEF SlotMap
    <3> QED BY <1>6, <3>2, Zenon
  <2> QED BY <2>1, <2>2, Zenon
<1>12. ASSUME NEW l \in Ends, Handled(l[1])
       PROVE  lists[At(l)][new[l]] = Across(l)
  <2>1. Taken(l)
    BY <1>12, Zenon DEF Taken
  <2>2. lists[At(l)][sl[l]] = Across(l)
    BY <1>12, Zenon DEF SlotMap
  <2> QED BY <1>6, <2>1, <2>2, Zenon
<1>13. ASSUME NEW v \in AllVertices, NEW i \in DOMAIN lists[v], lists[v][i] # NoEdge
       PROVE  \E l \in Ends : Handled(l[1]) /\ At(l) = v /\ new[l] = i
  <2>1. PICK l \in Ends : Handled(l[1]) /\ At(l) = v /\ sl[l] = i
    BY <1>13, Zenon DEF SlotMap
  <2>2. Taken(l)
    BY <2>1, Zenon DEF Taken
  <2> QED BY <1>6, <2>1, <2>2, Zenon
<1>14. SlotMap(new)'
  <2>1. \A l \in Ends' : Taken(l)' => new[l] < cursor'[At(l)]
    BY <1>1, <1>8, Zenon
  <2>2. \A l, m \in Ends' :
          Taken(l)' /\ Taken(m)' /\ At(l) = At(m) /\ new[l] = new[m] => l = m
    BY <1>1, <1>10, Zenon
  <2>3. \A v \in AllVertices' : \A i \in 0..(cursor'[v] - 1) :
          \E l \in Ends' : Taken(l)' /\ At(l) = v /\ new[l] = i
    <3> SUFFICES ASSUME NEW v \in AllVertices', NEW i \in 0..(cursor'[v] - 1)
                 PROVE  \E l \in Ends' : Taken(l)' /\ At(l) = v /\ new[l] = i
      BY Zenon
    <3>1. v \in AllVertices
      BY <1>1, Zenon
    <3>2. PICK l \in Ends : Taken(l)' /\ At(l) = v /\ new[l] = i
      BY <1>11, <3>1, Zenon
    <3> QED BY <1>1, <3>2, Zenon
  <2>4. \A l \in Ends' : Handled(l[1])' => lists'[At(l)][new[l]] = Across(l)
    BY <1>1, <1>12, Zenon
  <2>5. \A v \in AllVertices' : \A i \in DOMAIN lists'[v] :
          lists'[v][i] # NoEdge =>
            \E l \in Ends' : Handled(l[1])' /\ At(l) = v /\ new[l] = i
    <3> SUFFICES ASSUME NEW v \in AllVertices', NEW i \in DOMAIN lists'[v],
                        lists'[v][i] # NoEdge
                 PROVE  \E l \in Ends' : Handled(l[1])' /\ At(l) = v /\ new[l] = i
      BY Zenon
    <3>1. v \in AllVertices /\ i \in DOMAIN lists[v] /\ lists[v][i] # NoEdge
      BY <1>1, Zenon
    <3>2. PICK l \in Ends : Handled(l[1]) /\ At(l) = v /\ new[l] = i
      BY <1>13, <3>1, Zenon
    <3> QED BY <1>1, <3>2, Zenon
  <2> QED BY <2>1, <2>2, <2>3, <2>4, <2>5, Zenon DEF SlotMap
<1> QED BY <1>4, <1>5, <1>14, Zenon

\* The lengths of the lists are not touched.
LEMMA ListsSame ==
  ASSUME ListsOK, UNCHANGED <<stored, num_vertex, live, lists>>
  PROVE  ListsOK'
<1>1. AllVertices' = AllVertices /\ lists' = lists /\ \A u : EndsAt(u)' = EndsAt(u)
  BY SameStored
<1> QED BY <1>1, Zenon DEF ListsOK

\* No two threads hold the same edge.
LEMMA HeldApart ==
  ASSUME LoopOK, HeldOK, NEW t \in Threads, NEW e \in left[t],
         NEW s \in Threads, s # t, held[s] # Idle
  PROVE  held[s].edge # e
<1>1. held[s].edge \in left[s]
  BY HeldEnds, Zenon
<1> QED BY <1>1 DEF LoopOK

\* pu: the slot for the entry of the source.
LEMMA TakeSrcKeeps ==
  ASSUME GraphOK, LoopOK, FillOK, NEW t \in Threads, NEW e \in left[t], TakeSrcSlot(t, e)
  PROVE  LoopOK' /\ FillOK'
<1>1. /\ held[t] = Idle
      /\ held' = [held EXCEPT ![t] = [edge |-> e, pu |-> cursor[e.src], pv |-> -1]]
      /\ cursor' = [cursor EXCEPT ![e.src] = @ + 1]
      /\ UNCHANGED <<stored, num_vertex, live, label, sources, left, lists>>
  BY DEF TakeSrcSlot, Bump
<1>2. e \in Edges /\ ~Handled(e) /\ HeldOK /\ ListsOK
  BY LeftNotHandled DEF LoopOK, FillOK
<1>3. PICK c \in Nat : c = cursor[e.src]
  BY <1>2, EdgeTypes DEF LoopOK
<1>4. PICK k \in Ends : k = <<e, 1>> /\ At(k) = e.src
  BY <1>2, EndTypes, Zenon
<1>5. /\ DOMAIN held' = Threads /\ held'[t] = [edge |-> e, pu |-> c, pv |-> -1]
      /\ \A s \in Threads : s # t => held'[s] = held[s]
  BY <1>1, <1>2, <1>3, Zenon DEF HeldOK
<1>6. held'[t] # Idle /\ held'[t].edge = e /\ held'[t].pu = c /\ held'[t].pv = -1
  <2>1. c \in Nat /\ held'[t] = [edge |-> e, pu |-> c, pv |-> -1]
    BY <1>3, <1>5, Zenon
  <2> QED BY <2>1, HeldFields
<1>7. \A x : Handled(x)' <=> Handled(x)
  BY <1>1 DEF Handled
<1>8. ASSUME NEW s \in Threads, held[s] # Idle
      PROVE  s # t /\ held[s].edge # e
  BY <1>1, <1>2, <1>8, HeldApart, Zenon
<1>9. ~Taken(k)
  BY <1>2, <1>4, <1>8, Zenon DEF Taken
<1>10. ASSUME NEW l \in Ends
       PROVE  Taken(l)' <=> (Taken(l) \/ l = k)
  <2>1. ASSUME NEW s \in Threads, held'[s] # Idle, held'[s].edge = l[1],
               l[2] = 1 \/ held'[s].pv # -1
        PROVE  Taken(l) \/ l = k
    <3>1. CASE s = t
      <4>1. l[1] = e /\ l[2] = 1
        BY <1>6, <2>1, <3>1
      <4> QED BY <1>4, <4>1, EndTypes
    <3>2. CASE s # t
      BY <1>5, <2>1, <3>2, Zenon DEF Taken
    <3> QED BY <3>1, <3>2, Zenon
  <2>2. Taken(l)' => Taken(l) \/ l = k
    BY <1>7, <2>1, Zenon DEF Taken, Idle
  <2>3. Taken(l) => Taken(l)'
    <3> SUFFICES ASSUME NEW s \in Threads, held[s] # Idle, held[s].edge = l[1],
                        l[2] = 1 \/ held[s].pv # -1
                 PROVE  Taken(l)'
      BY <1>7, Zenon DEF Taken
    <3>1. held'[s] = held[s]
      BY <1>5, <1>8, Zenon
    <3> QED BY <3>1 DEF Taken, Idle
  <2>4. l = k => Taken(l)'
    <3>1. l = k => l[1] = e /\ l[2] = 1
      BY <1>4
    <3> QED BY <1>6, <3>1 DEF Taken, Idle
  <2> QED BY <2>2, <2>3, <2>4, Zenon
<1>11. PICK sl \in [Ends -> Nat] : SlotMap(sl) /\ HeldSlots(sl)
  BY Zenon DEF FillOK
<1>12. PICK new : new = [sl EXCEPT ![k] = c]
  BY Zenon
<1>13. LoopOK' /\ new \in [Ends -> Nat] /\ SlotMap(new)'
  <2>1. cursor' = [cursor EXCEPT ![At(k)] = @ + 1] /\ new = [sl EXCEPT ![k] = cursor[At(k)]]
    BY <1>1, <1>3, <1>4, <1>12, Zenon
  <2> QED BY <1>1, <1>9, <1>10, <1>11, <2>1, TakeSlot, Zenon
<1>14. HeldSlots(new)'
  <2> SUFFICES ASSUME NEW s \in Threads, held'[s] # Idle
               PROVE  /\ new[<<held'[s].edge, 1>>] = held'[s].pu
                      /\ held'[s].pv # -1 => new[<<held'[s].edge, 2>>] = held'[s].pv
    BY Zenon DEF HeldSlots, Idle
  <2>1. CASE s = t
    BY <1>4, <1>6, <1>11, <1>12, <2>1, Zenon
  <2>2. CASE s # t
    <3>1. held'[s] = held[s] /\ held[s] # Idle
      BY <1>5, <2>2, Zenon
    <3>2. held[s].edge # e /\ held[s].edge \in Edges
      BY <1>2, <1>8, <3>1, HeldEnds, Zenon
    <3>3. /\ <<held[s].edge, 1>> \in Ends /\ <<held[s].edge, 2>> \in Ends
          /\ <<held[s].edge, 1>> # k /\ <<held[s].edge, 2>> # k
      BY <1>4, <3>2, EndTypes, Zenon
    <3>4. /\ new[<<held[s].edge, 1>>] = sl[<<held[s].edge, 1>>]
          /\ new[<<held[s].edge, 2>>] = sl[<<held[s].edge, 2>>]
      BY <1>11, <1>12, <3>3
    <3> QED BY <1>11, <3>1, <3>4, Zenon DEF HeldSlots
  <2> QED BY <2>1, <2>2, Zenon
<1>15. HeldOK'
  <2> SUFFICES ASSUME NEW s \in Threads, held'[s] # Idle
               PROVE  held'[s] \in [edge : left'[s], pu : Nat, pv : Nat \cup {-1}]
    BY <1>5 DEF HeldOK, Idle
  <2>1. CASE s = t
    BY <1>1, <1>5, <2>1, Zenon
  <2>2. CASE s # t
    BY <1>1, <1>2, <1>5, <2>2 DEF HeldOK
  <2> QED BY <2>1, <2>2, Zenon
<1>16. Ends' = Ends /\ ListsOK'
  BY <1>1, <1>2, SameStored, ListsSame, Zenon
<1> QED BY <1>13, <1>14, <1>15, <1>16, Zenon DEF FillOK

\* pv: the slot for the entry of the destination.
LEMMA TakeDstKeeps ==
  ASSUME GraphOK, LoopOK, FillOK, NEW t \in Threads, TakeDstSlot(t)
  PROVE  LoopOK' /\ FillOK'
<1>1. HeldOK /\ ListsOK /\ held[t] # Idle /\ held[t].pv = -1
  BY Zenon DEF TakeDstSlot, FillOK
<1>2. PICK e, a : e = held[t].edge /\ a = held[t].pu
  BY Zenon
<1>3. /\ e \in left[t] /\ e \in Edges /\ a \in Nat
      /\ held[t] = [edge |-> e, pu |-> a, pv |-> -1]
      /\ ~Taken(<<e, 2>>)
  BY <1>1, <1>2, HeldEnds, Zenon
<1>4. /\ held' = [held EXCEPT ![t].pv = cursor[e.dst]]
      /\ cursor' = [cursor EXCEPT ![e.dst] = @ + 1]
      /\ UNCHANGED <<stored, num_vertex, live, label, sources, left, lists>>
  BY <1>2, Zenon DEF TakeDstSlot, Bump
<1>5. PICK c \in Nat : c = cursor[e.dst]
  BY <1>3, EdgeTypes DEF LoopOK
<1>6. PICK k \in Ends : k = <<e, 2>> /\ At(k) = e.dst
  BY <1>3, EndTypes, Zenon
<1>7. /\ DOMAIN held' = Threads /\ held'[t] = [edge |-> e, pu |-> a, pv |-> c]
      /\ \A s \in Threads : s # t => held'[s] = held[s]
  BY <1>1, <1>3, <1>4, <1>5 DEF HeldOK
<1>8. held'[t] # Idle /\ held'[t].edge = e /\ held'[t].pu = a /\ held'[t].pv = c /\ c # -1
  <2>1. a \in Nat /\ c \in Nat /\ held'[t] = [edge |-> e, pu |-> a, pv |-> c]
    BY <1>3, <1>5, <1>7, Zenon
  <2> QED BY <2>1, HeldFields
<1>9. \A x : Handled(x)' <=> Handled(x)
  BY <1>4 DEF Handled
<1>10. ASSUME NEW l \in Ends
       PROVE  Taken(l)' <=> (Taken(l) \/ l = k)
  <2>1. ASSUME NEW s \in Threads, held'[s] # Idle, held'[s].edge = l[1],
               l[2] = 1 \/ held'[s].pv # -1
        PROVE  Taken(l) \/ l = k
    <3>1. CASE s = t
      <4>1. l[1] = e
        BY <1>8, <2>1, <3>1
      <4>2. CASE l[2] = 1
        BY <1>1, <1>2, <4>1, <4>2, Zenon DEF Taken
      <4>3. CASE l[2] # 1
        BY <1>6, <4>1, <4>3, EndTypes
      <4> QED BY <4>2, <4>3, Zenon
    <3>2. CASE s # t
      BY <1>7, <2>1, <3>2, Zenon DEF Taken
    <3> QED BY <3>1, <3>2
  <2>2. Taken(l)' => Taken(l) \/ l = k
    BY <1>9, <2>1, Zenon DEF Taken, Idle
  <2>3. Taken(l) => Taken(l)'
    <3> SUFFICES ASSUME NEW s \in Threads, held[s] # Idle, held[s].edge = l[1],
                        l[2] = 1 \/ held[s].pv # -1
                 PROVE  Taken(l)'
      BY <1>9, Zenon DEF Taken
    <3>1. CASE s = t
      BY <1>2, <1>8, <3>1, Zenon DEF Taken, Idle
    <3>2. CASE s # t
      <4>1. held'[s] = held[s]
        BY <1>7, <3>2, Zenon
      <4> QED BY <4>1, Zenon DEF Taken, Idle
    <3> QED BY <3>1, <3>2, Zenon
  <2>4. l = k => Taken(l)'
    <3>1. l = k => l[1] = e
      BY <1>6
    <3> QED BY <1>8, <3>1 DEF Taken, Idle
  <2> QED BY <2>2, <2>3, <2>4, Zenon
<1>11. PICK sl \in [Ends -> Nat] : SlotMap(sl) /\ HeldSlots(sl)
  BY Zenon DEF FillOK
<1>12. PICK new : new = [sl EXCEPT ![k] = c]
  BY Zenon
<1>13. LoopOK' /\ new \in [Ends -> Nat] /\ SlotMap(new)'
  <2>1. /\ cursor' = [cursor EXCEPT ![At(k)] = @ + 1] /\ new = [sl EXCEPT ![k] = cursor[At(k)]]
        /\ ~Taken(k)
    BY <1>3, <1>4, <1>5, <1>6, <1>12, Zenon
  <2> QED BY <1>4, <1>10, <1>11, <2>1, TakeSlot, Zenon
<1>14. HeldSlots(new)'
  <2> SUFFICES ASSUME NEW s \in Threads, held'[s] # Idle
               PROVE  /\ new[<<held'[s].edge, 1>>] = held'[s].pu
                      /\ held'[s].pv # -1 => new[<<held'[s].edge, 2>>] = held'[s].pv
    BY Zenon DEF HeldSlots, Idle
  <2>1. CASE s = t
    <3>1. sl[<<e, 1>>] = a
      BY <1>1, <1>2, <1>11, Zenon DEF HeldSlots
    <3>2. new[<<e, 1>>] = sl[<<e, 1>>] /\ new[<<e, 2>>] = c
      <4>1. <<e, 1>> # <<e, 2>>
        OBVIOUS
      <4>2. <<e, 1>> \in Ends /\ <<e, 2>> \in Ends
        BY <1>3, EndTypes, Zenon
      <4> QED BY <1>6, <1>11, <1>12, <4>1, <4>2, Zenon
    <3> QED BY <1>8, <2>1, <3>1, <3>2, Zenon
  <2>2. CASE s # t
    <3>1. held'[s] = held[s] /\ held[s] # Idle
      BY <1>7, <2>2, Zenon
    <3>2. held[s].edge # e /\ held[s].edge \in Edges
      BY <1>1, <1>3, <2>2, <3>1, HeldEnds, HeldApart, Zenon
    <3>3. /\ <<held[s].edge, 1>> \in Ends /\ <<held[s].edge, 2>> \in Ends
          /\ <<held[s].edge, 1>> # k /\ <<held[s].edge, 2>> # k
      BY <1>6, <3>2, EndTypes, Zenon
    <3>4. /\ new[<<held[s].edge, 1>>] = sl[<<held[s].edge, 1>>]
          /\ new[<<held[s].edge, 2>>] = sl[<<held[s].edge, 2>>]
      BY <1>11, <1>12, <3>3
    <3> QED BY <1>11, <3>1, <3>4, Zenon DEF HeldSlots
  <2> QED BY <2>1, <2>2, Zenon
<1>15. HeldOK'
  <2> SUFFICES ASSUME NEW s \in Threads, held'[s] # Idle
               PROVE  held'[s] \in [edge : left'[s], pu : Nat, pv : Nat \cup {-1}]
    BY <1>7 DEF HeldOK, Idle
  <2>1. CASE s = t
    BY <1>3, <1>4, <1>7, <2>1
  <2>2. CASE s # t
    BY <1>1, <1>4, <1>7, <2>2, Zenon DEF HeldOK
  <2> QED BY <2>1, <2>2, Zenon
<1>16. Ends' = Ends /\ ListsOK'
  BY <1>1, <1>4, SameStored, ListsSame
<1> QED BY <1>13, <1>14, <1>15, <1>16, Zenon DEF FillOK

\* A thread's two entries go to slots that are its own.
LEMMA WriteKeeps ==
  ASSUME GraphOK, LoopOK, FillOK, NEW t \in Threads, WriteEntries(t)
  PROVE  LoopOK' /\ FillOK'
<1>1. HeldOK /\ ListsOK /\ held[t] # Idle /\ held[t].pv # -1
  BY DEF WriteEntries, FillOK, Idle
<1>2. PICK e, a, b : e = held[t].edge /\ a = held[t].pu /\ b = held[t].pv
  BY Zenon
<1>3. e \in left[t] /\ e \in Edges /\ a \in Nat /\ b \in Nat
  BY <1>1, <1>2, HeldEnds, Zenon
<1>4. /\ lists' = [u \in AllVertices |-> [i \in DOMAIN lists[u] |->
                     CASE u = e.dst /\ i = b -> e.src
                       [] u = e.src /\ i = a -> e.dst
                       [] OTHER -> lists[u][i]]]
      /\ left' = [left EXCEPT ![t] = @ \ {e}]
      /\ held' = [held EXCEPT ![t] = Idle]
      /\ cursor' = cursor
      /\ UNCHANGED <<stored, num_vertex, live, label, sources>>
  BY <1>2 DEF WriteEntries
<1>5. AllVertices' = AllVertices /\ Edges' = Edges /\ Ends' = Ends /\ \A u : EndsAt(u)' = EndsAt(u)
  BY <1>4, SameStored
<1>6. LoopOK' /\ \A x \in Edges : Handled(x)' <=> (Handled(x) \/ x = e)
  <2>1. cursor' \in [AllVertices -> Nat]
    BY <1>4 DEF LoopOK
  <2> QED BY <1>3, <1>4, <2>1, DropKeeps, Zenon
<1>7. /\ DOMAIN held' = Threads /\ held'[t] = Idle
      /\ \A s \in Threads : s # t => held'[s] = held[s]
  BY <1>1, <1>4 DEF HeldOK
<1>8. ASSUME NEW l \in Ends
      PROVE  Taken(l)' <=> Taken(l)
  <2>1. l[1] \in Edges
    BY EndTypes, Zenon
  <2>2. CASE l[1] = e
    <3>1. Taken(l)
      BY <1>1, <1>2, <2>2, Zenon DEF Taken
    <3>2. Taken(l)'
      BY <1>6, <2>1, <2>2, Zenon DEF Taken
    <3> QED BY <3>1, <3>2
  <2>3. CASE l[1] # e
    <3>1. Handled(l[1])' <=> Handled(l[1])
      BY <1>6, <2>1, <2>3, Zenon
    <3>2. ASSUME NEW s \in Threads
          PROVE  /\ held'[s] # Idle /\ held'[s].edge = l[1] => s # t /\ held'[s] = held[s]
                 /\ held[s] # Idle /\ held[s].edge = l[1] => s # t /\ held'[s] = held[s]
      BY <1>2, <1>7, <2>3, Zenon
    <3> QED BY <3>1, <3>2, Zenon DEF Taken, Idle
  <2> QED BY <2>2, <2>3
<1>9. PICK sl \in [Ends -> Nat] : SlotMap(sl) /\ HeldSlots(sl)
  BY Zenon DEF FillOK
<1>10. PICK k1, k2 \in Ends :
         /\ k1 = <<e, 1>> /\ At(k1) = e.src /\ Across(k1) = e.dst /\ sl[k1] = a /\ Taken(k1)
         /\ k2 = <<e, 2>> /\ At(k2) = e.dst /\ Across(k2) = e.src /\ sl[k2] = b /\ Taken(k2)
         /\ k1 # k2 /\ k1[1] = e /\ k2[1] = e
  <2>1. sl[<<e, 1>>] = a /\ sl[<<e, 2>>] = b
    BY <1>1, <1>2, <1>9, Zenon DEF HeldSlots
  <2>2. Taken(<<e, 1>>) /\ Taken(<<e, 2>>)
    BY <1>1, <1>2, HeldEnds, Zenon
  <2>3. <<e, 1>> # <<e, 2>> /\ <<e, 1>>[1] = e /\ <<e, 2>>[1] = e
    OBVIOUS
  <2> QED BY <1>3, <2>1, <2>2, <2>3, EndTypes, Zenon
<1>11. ~(e.src = e.dst /\ a = b)
  <2>1. Taken(k1) /\ Taken(k2) /\ At(k1) = At(k2) /\ sl[k1] = sl[k2] => k1 = k2
    BY <1>9, Zenon DEF SlotMap
  <2> QED BY <1>10, <2>1
<1>12. ASSUME NEW u \in AllVertices
       PROVE  /\ DOMAIN lists'[u] = DOMAIN lists[u]
              /\ \A i \in DOMAIN lists[u] :
                   /\ u = e.dst /\ i = b => lists'[u][i] = e.src
                   /\ u = e.src /\ i = a => lists'[u][i] = e.dst
                   /\ ~(u = e.dst /\ i = b) /\ ~(u = e.src /\ i = a) => lists'[u][i] = lists[u][i]
  BY <1>4, <1>11
<1>13. ListsOK'
  BY <1>1, <1>5, <1>12, Zenon DEF ListsOK
<1>14. ASSUME NEW l \in Ends, Taken(l)
       PROVE  At(l) \in AllVertices /\ sl[l] \in DOMAIN lists[At(l)]
  <2>1. At(l) \in AllVertices
    BY EndVertices, Zenon
  <2>2. sl[l] \in Nat /\ sl[l] < cursor[At(l)] /\ cursor[At(l)] \in Nat
    BY <1>9, <1>14, <2>1, Zenon DEF SlotMap, LoopOK
  <2>3. cursor[At(l)] <= Cardinality(EndsAt(At(l))) /\ Cardinality(EndsAt(At(l))) \in Nat
    BY <1>9, <2>1, CursorCounts, FiniteEnds, Zenon
  <2>4. DOMAIN lists[At(l)] = 0..(Cardinality(EndsAt(At(l))) - 1)
    BY <1>1, <2>1, Zenon DEF ListsOK
  <2> QED BY <2>1, <2>2, <2>3, <2>4
<1>15. ASSUME NEW l \in Ends, Handled(l[1])'
       PROVE  lists'[At(l)][sl[l]] = Across(l)
  <2>1. l[1] \in Edges /\ (l = <<l[1], 1>> \/ l = <<l[1], 2>>)
    BY EndTypes, Zenon
  <2>2. Taken(l)
    BY <1>8, <1>15, Zenon DEF Taken
  <2>3. At(l) \in AllVertices /\ sl[l] \in DOMAIN lists[At(l)]
    BY <1>14, <2>2, Zenon
  <2>4. CASE l[1] = e
    <3>1. l = k1 \/ l = k2
      BY <1>10, <2>1, <2>4, Zenon
    <3> QED BY <1>10, <1>12, <2>3, <3>1, Zenon
  <2>5. CASE l[1] # e
    <3>1. l # k1 /\ l # k2
      BY <1>10, <2>5, Zenon
    <3>2. ~(At(l) = e.dst /\ sl[l] = b) /\ ~(At(l) = e.src /\ sl[l] = a)
      <4>1. /\ Taken(l) /\ Taken(k1) /\ At(l) = At(k1) /\ sl[l] = sl[k1] => l = k1
            /\ Taken(l) /\ Taken(k2) /\ At(l) = At(k2) /\ sl[l] = sl[k2] => l = k2
        BY <1>9, Zenon DEF SlotMap
      <4> QED BY <1>10, <2>2, <3>1, <4>1, Zenon
    <3>3. lists[At(l)][sl[l]] = Across(l)
      BY <1>6, <1>9, <1>15, <2>1, <2>5, Zenon DEF SlotMap
    <3> QED BY <1>12, <2>3, <3>2, <3>3, Zenon
  <2> QED BY <2>4, <2>5
<1>16. ASSUME NEW u \in AllVertices, NEW i \in DOMAIN lists[u], lists'[u][i] # NoEdge
       PROVE  \E l \in Ends : Handled(l[1])' /\ At(l) = u /\ sl[l] = i
  <2>1. Handled(e)'
    BY <1>3, <1>6, Zenon
  <2>2. CASE u = e.dst /\ i = b
    BY <1>10, <2>1, <2>2, Zenon
  <2>3. CASE u = e.src /\ i = a
    BY <1>10, <2>1, <2>3, Zenon
  <2>4. CASE ~(u = e.dst /\ i = b) /\ ~(u = e.src /\ i = a)
    <3>1. lists[u][i] # NoEdge
      BY <1>12, <1>16, <2>4, Zenon
    <3>2. PICK l \in Ends : Handled(l[1]) /\ At(l) = u /\ sl[l] = i
      BY <1>9, <3>1, Zenon DEF SlotMap
    <3>3. l[1] \in Edges
      BY EndTypes, Zenon
    <3> QED BY <1>6, <3>2, <3>3, Zenon
  <2> QED BY <2>2, <2>3, <2>4, Zenon
<1>17. SlotMap(sl)'
  <2>1. \A l \in Ends' : Taken(l)' => sl[l] < cursor'[At(l)]
    BY <1>4, <1>5, <1>8, <1>9, Zenon DEF SlotMap
  <2>2. \A l, m \in Ends' :
          Taken(l)' /\ Taken(m)' /\ At(l) = At(m) /\ sl[l] = sl[m] => l = m
    BY <1>5, <1>8, <1>9, Zenon DEF SlotMap
  <2>3. ASSUME NEW v \in AllVertices', NEW i \in 0..(cursor'[v] - 1)
        PROVE  \E l \in Ends' : Taken(l)' /\ At(l) = v /\ sl[l] = i
    <3>1. v \in AllVertices /\ i \in 0..(cursor[v] - 1)
      BY <1>4, <1>5, <2>3, Zenon
    <3>2. PICK l \in Ends : Taken(l) /\ At(l) = v /\ sl[l] = i
      BY <1>9, <3>1, Zenon DEF SlotMap
    <3> QED BY <1>5, <1>8, <3>2, Zenon
  <2>4. \A l \in Ends' : Handled(l[1])' => lists'[At(l)][sl[l]] = Across(l)
    BY <1>5, <1>15, Zenon
  <2>5. ASSUME NEW v \in AllVertices', NEW i \in DOMAIN lists'[v], lists'[v][i] # NoEdge
        PROVE  \E l \in Ends' : Handled(l[1])' /\ At(l) = v /\ sl[l] = i
    <3>1. v \in AllVertices /\ i \in DOMAIN lists[v]
      BY <1>5, <1>12, Zenon
    <3>2. PICK l \in Ends : Handled(l[1])' /\ At(l) = v /\ sl[l] = i
      BY <1>16, <2>5, <3>1, Zenon
    <3> QED BY <1>5, <3>2, Zenon
  <2> QED BY <2>1, <2>2, <2>3, <2>4, <2>5, Zenon DEF SlotMap
<1>18. ASSUME NEW s \in Threads, held'[s] # Idle
       PROVE  s # t /\ held'[s] = held[s] /\ held[s] # Idle
  BY <1>7, <1>18, Zenon
<1>19. HeldSlots(sl)'
  BY <1>9, <1>18, Zenon DEF HeldSlots, Idle
<1>20. HeldOK'
  <2> SUFFICES ASSUME NEW s \in Threads, held'[s] # Idle
               PROVE  held'[s] \in [edge : left'[s], pu : Nat, pv : Nat \cup {-1}]
    BY <1>7 DEF HeldOK, Idle
  <2>1. left'[s] = left[s]
    BY <1>4, <1>18 DEF LoopOK
  <2> QED BY <1>1, <1>18, <2>1, Zenon DEF HeldOK
<1> QED BY <1>5, <1>6, <1>9, <1>13, <1>17, <1>19, <1>20, Zenon DEF FillOK

\* Steps that take no slot and handle no edge leave the lists right.
LEMMA FillSame ==
  ASSUME FillOK, UNCHANGED <<stored, num_vertex, live, held, cursor, lists>>,
         \A e \in Edges : Handled(e)' <=> Handled(e),
         \A t \in Threads : held[t] # Idle => left'[t] = left[t]
  PROVE  FillOK'
<1>1. /\ AllVertices' = AllVertices /\ Ends' = Ends /\ ListsOK'
      /\ held' = held /\ cursor' = cursor /\ lists' = lists
  BY SameStored, ListsSame DEF FillOK
<1>2. \A k \in Ends : Handled(k[1])' <=> Handled(k[1])
  BY EndTypes, Zenon
<1>3. \A k \in Ends : Taken(k)' <=> Taken(k)
  BY <1>1, <1>2, Zenon DEF Taken, Idle
<1>4. PICK sl \in [Ends -> Nat] : SlotMap(sl) /\ HeldSlots(sl)
  BY Zenon DEF FillOK
<1>5. SlotMap(sl)'
  <2>1. \A l \in Ends' : Taken(l)' => sl[l] < cursor'[At(l)]
    BY <1>1, <1>3, <1>4, Zenon DEF SlotMap
  <2>2. \A l, m \in Ends' :
          Taken(l)' /\ Taken(m)' /\ At(l) = At(m) /\ sl[l] = sl[m] => l = m
    BY <1>1, <1>3, <1>4, Zenon DEF SlotMap
  <2>3. ASSUME NEW v \in AllVertices', NEW i \in 0..(cursor'[v] - 1)
        PROVE  \E l \in Ends' : Taken(l)' /\ At(l) = v /\ sl[l] = i
    <3>1. v \in AllVertices /\ i \in 0..(cursor[v] - 1)
      BY <1>1, <2>3, Zenon
    <3>2. PICK l \in Ends : Taken(l) /\ At(l) = v /\ sl[l] = i
      BY <1>4, <3>1, Zenon DEF SlotMap
    <3> QED BY <1>1, <1>3, <3>2, Zenon
  <2>4. \A l \in Ends' : Handled(l[1])' => lists'[At(l)][sl[l]] = Across(l)
    BY <1>1, <1>2, <1>4, Zenon DEF SlotMap
  <2>5. ASSUME NEW v \in AllVertices', NEW i \in DOMAIN lists'[v], lists'[v][i] # NoEdge
        PROVE  \E l \in Ends' : Handled(l[1])' /\ At(l) = v /\ sl[l] = i
    <3>1. v \in AllVertices /\ i \in DOMAIN lists[v] /\ lists[v][i] # NoEdge
      BY <1>1, <2>5, Zenon
    <3>2. PICK l \in Ends : Handled(l[1]) /\ At(l) = v /\ sl[l] = i
      BY <1>4, <3>1, Zenon DEF SlotMap
    <3> QED BY <1>1, <1>2, <3>2, Zenon
  <2> QED BY <2>1, <2>2, <2>3, <2>4, <2>5, Zenon DEF SlotMap
<1>6. HeldSlots(sl)'
  BY <1>1, <1>4, Zenon DEF HeldSlots, Idle
<1>7. HeldOK'
  <2>1. DOMAIN held' = Threads
    BY <1>1, Zenon DEF FillOK, HeldOK
  <2>2. ASSUME NEW t \in Threads, held'[t] # Idle
        PROVE  held'[t] \in [edge : left'[t], pu : Nat, pv : Nat \cup {-1}]
    <3>1. held[t] # Idle /\ held'[t] = held[t] /\ left'[t] = left[t]
      BY <1>1, <2>2, Zenon
    <3> QED BY <3>1, Zenon DEF FillOK, HeldOK
  <2> QED BY <2>1, <2>2, Zenon DEF HeldOK, Idle
<1> QED BY <1>1, <1>4, <1>5, <1>6, <1>7, Zenon DEF FillOK

\* Between the passes every list gets the length that was counted.
LEMMA AllocateKeeps ==
  ASSUME GraphOK, LoopOK, CountOK, NoneHeld, Allocate
  PROVE  LoopOK' /\ FillOK'
<1>1. /\ LoopDone /\ label + 1 \notin Labels
      /\ lists' = [u \in AllVertices |-> [i \in 0..(cursor[u] - 1) |-> NoEdge]]
      /\ cursor' = [u \in AllVertices |-> 0]
      /\ label' = 1 /\ sources' = SourceIds(stored, 1) /\ left' = left /\ held' = held
      /\ UNCHANGED <<stored, num_vertex, live>>
  BY DEF Allocate
<1>2. /\ AllVertices' = AllVertices /\ Edges' = Edges /\ Ends' = Ends
      /\ \A u : EndsAt(u)' = EndsAt(u)
  BY <1>1, SameStored
<1>3. Cardinality(Labels) \in Nat /\ Labels = 1..Cardinality(Labels)
  BY LabelsAssumption, FS_CardinalityType, Zenon
<1>4. \A t \in Threads : left'[t] = {} /\ held'[t] = Idle
  BY <1>1, Zenon DEF LoopDone
<1>5. LoopOK'
  <2>1. label' \in Nat /\ (label' \in Labels \/ Labels = {})
    BY <1>1, <1>3
  <2>2. cursor' \in [AllVertices' -> Nat]
    BY <1>1, <1>2
  <2>3. sources' \subseteq AllVertices' /\ left' \in [Threads -> SUBSET Edges']
    BY <1>1, <1>2, Zenon DEF LoopOK, GraphOK
  <2> QED BY <1>4, <2>1, <2>2, <2>3 DEF LoopOK
<1>6. ASSUME NEW u \in AllVertices
      PROVE  cursor[u] = Cardinality(EndsAt(u))
  <2>1. \A k \in EndsAt(u) : Handled(k[1])
    BY <1>1, PassDone, EndTypes DEF EndsAt
  <2>2. {k \in EndsAt(u) : Handled(k[1])} = EndsAt(u)
    BY <2>1
  <2> QED BY <2>2, Zenon DEF CountOK
<1>7. ListsOK'
  <2>1. \A u \in AllVertices : DOMAIN lists'[u] = 0..(cursor[u] - 1)
    BY <1>1
  <2> QED BY <1>2, <1>6, <2>1, Zenon DEF ListsOK
<1>8. ASSUME NEW e \in Edges
      PROVE  ~Handled(e)'
  <2>1. e.src \in SourceIds(stored, e.label) /\ e.label \in Labels
    BY EdgeTypes, EdgeSource, Zenon
  <2>2. e.label \in Nat /\ e.label >= 1
    BY <1>3, <2>1
  <2> QED BY <1>1, <2>1, <2>2 DEF Handled
<1>9. ASSUME NEW k \in Ends
      PROVE  ~Handled(k[1])' /\ ~Taken(k)'
  <2>1. ~Handled(k[1])'
    BY <1>8, EndTypes, Zenon
  <2> QED BY <1>4, <2>1 DEF Taken, Idle
<1>10. PICK sl : sl = [k \in Ends |-> 0]
  BY Zenon
<1>11. sl \in [Ends' -> Nat] /\ SlotMap(sl)'
  <2>1. ASSUME NEW v \in AllVertices'
        PROVE  0..(cursor'[v] - 1) = {}
    <3>1. cursor'[v] = 0
      BY <1>1, <1>2
    <3> QED BY <3>1
  <2>2. ASSUME NEW v \in AllVertices', NEW i \in DOMAIN lists'[v]
        PROVE  lists'[v][i] = NoEdge
    BY <1>1, <1>2
  <2>3. sl \in [Ends' -> Nat]
    BY <1>2, <1>10, Zenon
  <2> QED BY <1>2, <1>9, <2>1, <2>2, <2>3, Zenon DEF SlotMap
<1>12. HeldSlots(sl)' /\ HeldOK'
  BY <1>1, <1>4 DEF HeldSlots, HeldOK, NoneHeld, Idle
<1> QED BY <1>5, <1>7, <1>11, <1>12, Zenon DEF FillOK

\* When everything is handled the lists are those of the sequential build.
LEMMA AllHandled ==
  ASSUME GraphOK, LoopOK, FillOK, \A e \in Edges : Handled(e)
  PROVE  Complete
<1>1. PICK sl \in [Ends -> Nat] : SlotMap(sl)
  BY Zenon DEF FillOK
<1>2. \A k \in Ends : Handled(k[1]) /\ Taken(k)
  BY EndTypes, Zenon DEF Taken
<1>3. ASSUME NEW u \in AllVertices
      PROVE  /\ cursor[u] \in Nat /\ DOMAIN lists[u] = 0..(cursor[u] - 1)
             /\ \A k \in EndsAt(u) : k \in Ends /\ At(k) = u
  <2>1. \A k \in EndsAt(u) : k \in Ends /\ At(k) = u
    BY Zenon DEF EndsAt
  <2>2. {k \in EndsAt(u) : Taken(k)} = EndsAt(u)
    BY <1>2, <2>1
  <2>3. cursor[u] = Cardinality(EndsAt(u)) /\ cursor[u] \in Nat
    BY <1>1, <2>2, CursorCounts, Zenon DEF LoopOK
  <2> QED BY <2>1, <2>3, Zenon DEF FillOK, ListsOK
<1>4. ASSUME NEW k \in Ends
      PROVE  /\ sl[k] \in DOMAIN lists[At(k)] /\ lists[At(k)][sl[k]] = Across(k)
             /\ Across(k) \in AllVertices
  <2>1. At(k) \in AllVertices /\ Across(k) \in AllVertices
    BY EndVertices, Zenon
  <2>2. sl[k] < cursor[At(k)] /\ lists[At(k)][sl[k]] = Across(k)
    BY <1>1, <1>2, Zenon DEF SlotMap
  <2>3. cursor[At(k)] \in Nat /\ DOMAIN lists[At(k)] = 0..(cursor[At(k)] - 1) /\ sl[k] \in Nat
    BY <1>1, <1>3, <2>1
  <2> QED BY <2>1, <2>2, <2>3
<1>5. ASSUME NEW u \in AllVertices, NEW i \in DOMAIN lists[u]
      PROVE  \E k \in Ends : At(k) = u /\ sl[k] = i /\ lists[u][i] = Across(k)
  <2>1. i \in 0..(cursor[u] - 1)
    BY <1>3, <1>5, Zenon
  <2>2. PICK k \in Ends : At(k) = u /\ sl[k] = i
    BY <1>1, <2>1, Zenon DEF SlotMap
  <2> QED BY <1>4, <2>2, Zenon
<1>6. ASSUME NEW u \in AllVertices, NEW i \in DOMAIN lists[u]
      PROVE  lists[u][i] # NoEdge
  <2>1. lists[u][i] \in AllVertices
    <3>1. PICK k \in Ends : lists[u][i] = Across(k)
      BY <1>5, Zenon
    <3> QED BY <1>4, <3>1, Zenon
  <2>2. AllVertices \subseteq Nat
    BY DEF AllVertices, GraphOK
  <2> QED BY <2>1, <2>2, NoEdgeAssumption
<1>7. ASSUME NEW u \in AllVertices, NEW v \in AllVertices
      PROVE  Cardinality({i \in DOMAIN lists[u] : lists[u][i] = v})
               = Cardinality({e \in Edges : e.src = u /\ e.dst = v})
                   + Cardinality({e \in Edges : e.src = v /\ e.dst = u})
  <2> DEFINE A == {e \in Edges : e.src = u /\ e.dst = v}
             B == {e \in Edges : e.src = v /\ e.dst = u}
             S1 == {<<e, 1>> : e \in A}
             S2 == {<<e, 2>> : e \in B}
             S == {k \in EndsAt(u) : Across(k) = v}
             T == {i \in DOMAIN lists[u] : lists[u][i] = v}
  <2>1. IsFiniteSet(A) /\ IsFiniteSet(B)
    BY FiniteEnds, FS_Subset, Zenon
  <2>2. IsFiniteSet(S1) /\ Cardinality(S1) = Cardinality(A)
    <3> DEFINE f == [e \in A |-> <<e, 1>>]
    <3>1. /\ f \in [A -> S1] /\ \A x, y \in A : f[x] = f[y] => x = y
          /\ \A y \in S1 : \E x \in A : f[x] = y
      BY Zenon
    <3> HIDE DEF f, A, S1
    <3> QED BY <2>1, <3>1, SameSize, Zenon
  <2>3. IsFiniteSet(S2) /\ Cardinality(S2) = Cardinality(B)
    <3> DEFINE f == [e \in B |-> <<e, 2>>]
    <3>1. /\ f \in [B -> S2] /\ \A x, y \in B : f[x] = f[y] => x = y
          /\ \A y \in S2 : \E x \in B : f[x] = y
      OBVIOUS
    <3> HIDE DEF f, B, S2
    <3> QED BY <2>1, <3>1, SameSize, Zenon
  <2>4. S1 \cap S2 = {}
    OBVIOUS
  <2>5. S = S1 \cup S2
    <3>1. ASSUME NEW k \in S
          PROVE  k \in S1 \cup S2
      <4>1. k \in Ends /\ At(k) = u /\ Across(k) = v
        BY <3>1 DEF EndsAt
      <4>2. PICK e \in Edges : k = <<e, 1>> \/ k = <<e, 2>>
        BY <4>1, EndTypes, Zenon
      <4>3. CASE k = <<e, 1>>
        BY <4>1, <4>3, EndTypes, Zenon
      <4>4. CASE k = <<e, 2>>
        BY <4>1, <4>4, EndTypes, Zenon
      <4> QED BY <4>2, <4>3, <4>4
    <3>2. ASSUME NEW e \in A
          PROVE  <<e, 1>> \in S
      BY <3>2, EndTypes, Zenon DEF EndsAt
    <3>3. ASSUME NEW e \in B
          PROVE  <<e, 2>> \in S
      BY <3>3, EndTypes, Zenon DEF EndsAt
    <3> QED BY <3>1, <3>2, <3>3, Zenon
  <2>6. IsFiniteSet(S)
    BY FiniteEnds, FS_Subset
  <2>7. Cardinality(T) = Cardinality(S)
    <3> DEFINE f == [k \in S |-> sl[k]]
    <3>1. \A k \in S : k \in Ends /\ At(k) = u /\ Across(k) = v
      BY <1>3, Zenon
    <3>2. f \in [S -> T]
      BY <1>4, <3>1, Zenon
    <3>3. \A x, y \in S : f[x] = f[y] => x = y
      BY <1>1, <1>2, <3>1, Zenon DEF SlotMap
    <3>4. ASSUME NEW i \in T
          PROVE  \E k \in S : f[k] = i
      <4>1. PICK k \in Ends : At(k) = u /\ sl[k] = i /\ lists[u][i] = Across(k)
        BY <1>5, <3>4, Zenon
      <4>2. k \in S
        BY <3>4, <4>1 DEF EndsAt
      <4> QED BY <4>1, <4>2, Zenon
    <3> HIDE DEF f, S, T
    <3> QED BY <2>6, <3>2, <3>3, <3>4, SameSize
  <2> HIDE DEF A, B, S1, S2, S, T
  <2>8. Cardinality(S) = Cardinality(A) + Cardinality(B)
    BY <2>2, <2>3, <2>4, <2>5, DisjointSize
  <2>9. Cardinality(T) = Cardinality(A) + Cardinality(B)
    BY <2>7, <2>8, Zenon
  <2> QED BY <2>9, Zenon DEF A, B, T
<1>8. ListWeights = SequentialWeights(stored)
  <2>1. SequentialWeights(stored)
          = [u \in AllVertices |-> [v \in AllVertices |->
               Cardinality({e \in Edges : e.src = u /\ e.dst = v})
                 + Cardinality({e \in Edges : e.src = v /\ e.dst = u})]]
    BY Zenon DEF SequentialWeights, AllVertices, Edges, GraphOK
  <2> QED BY <1>7, <2>1, Zenon DEF ListWeights
<1> QED BY <1>6, <1>8, Zenon DEF Complete, GraphOK

-----------------------------------------------------------------------------
(* The steps of a call.                                                    *)

\* Every step of the parallel loops and the barriers between them keeps the
\* invariant.
LEMMA BuildStepKeeps ==
  ASSUME BInv, BuildStep
  PROVE  bstage \in {"count", "fill"} /\ BInv'
<1>1. \A t \in Threads : held[t] # Idle => bstage = "fill"
  BY DEF BInv, NoneHeld
<1>2. CASE NextLabel
  <2>1. /\ bstage \in {"count", "fill"} /\ GraphOK /\ LoopOK /\ bstage' = bstage
        /\ UNCHANGED <<stored, num_vertex, live, left, held, cursor, lists>>
    BY <1>2 DEF NextLabel, BInv
  <2>2. GraphOK' /\ LoopOK' /\ \A e \in Edges : Handled(e)' <=> Handled(e)
    BY <1>2, <2>1, NextLabelKeeps, SameStored, Zenon
  <2>3. bstage = "count" => CountOK' /\ NoneHeld'
    BY <2>1, <2>2, CountsSame, Zenon DEF BInv, NoneHeld, Idle
  <2>4. bstage = "fill" => FillOK'
    BY <2>1, <2>2, FillSame DEF BInv
  <2> QED BY <2>1, <2>2, <2>3, <2>4, Zenon DEF BInv
<1>3. CASE Allocate
  <2>1. /\ bstage = "count" /\ GraphOK /\ LoopOK /\ CountOK /\ NoneHeld /\ bstage' = "fill"
        /\ UNCHANGED <<stored, num_vertex, live>>
    BY <1>3 DEF Allocate, BInv
  <2>2. GraphOK' /\ LoopOK' /\ FillOK'
    BY <1>3, <2>1, AllocateKeeps, SameStored, Zenon
  <2> QED BY <2>1, <2>2, Zenon DEF BInv
<1>4. CASE FinishBuild
  <2>1. /\ bstage = "fill" /\ GraphOK /\ LoopOK /\ FillOK /\ LoopDone /\ label + 1 \notin Labels
        /\ bstage' = "built"
        /\ UNCHANGED <<stored, num_vertex, live, label, sources, left, held, cursor, lists>>
    BY <1>4, Zenon DEF FinishBuild, BInv
  <2>2. Complete
    BY <2>1, PassDone, AllHandled, Zenon
  <2>3. Complete'
    <3>1. ListWeights' = ListWeights /\ AllVertices' = AllVertices
      BY <2>1, Zenon DEF ListWeights, AllVertices
    <3> QED BY <2>1, <2>2, <3>1, Zenon DEF Complete
  <2>4. NoneHeld'
    BY <2>1, Zenon DEF LoopDone, FillOK, HeldOK, NoneHeld, Idle
  <2>5. left' = [t \in Threads |-> {}]
    BY <2>1 DEF LoopDone, LoopOK
  <2> QED BY <2>1, <2>3, <2>4, <2>5 DEF BInv
<1>5. ASSUME NEW t \in Threads, NEW u \in sources, Claim(t, u)
      PROVE  bstage \in {"count", "fill"} /\ BInv'
  <2>1. /\ bstage \in {"count", "fill"} /\ GraphOK /\ LoopOK /\ bstage' = bstage
        /\ UNCHANGED <<stored, num_vertex, live, held, cursor, lists>>
        /\ held[t] = Idle
    BY <1>5, Zenon DEF Claim, BInv
  <2>2. GraphOK' /\ LoopOK' /\ \A e \in Edges : Handled(e)' <=> Handled(e)
    BY <1>5, <2>1, ClaimKeeps, SameStored, Zenon
  <2>3. bstage = "count" => CountOK' /\ NoneHeld'
    BY <2>1, <2>2, CountsSame, Zenon DEF BInv, NoneHeld, Idle
  <2>4. \A s \in Threads : held[s] # Idle => left'[s] = left[s]
    BY <1>5, <2>1, Zenon DEF Claim, LoopOK
  <2>5. bstage = "fill" => FillOK'
    BY <2>1, <2>2, <2>4, FillSame, Zenon DEF BInv
  <2> QED BY <2>1, <2>2, <2>3, <2>5, Zenon DEF BInv
<1>6. ASSUME NEW t \in Threads, NEW e \in left[t], CountEdge(t, e)
      PROVE  bstage \in {"count", "fill"} /\ BInv'
  <2>1. /\ bstage = "count" /\ GraphOK /\ LoopOK /\ CountOK /\ NoneHeld /\ bstage' = bstage
        /\ UNCHANGED <<stored, num_vertex, live, held>>
    BY <1>6, Zenon DEF CountEdge, BInv
  <2>2. GraphOK' /\ LoopOK' /\ CountOK' /\ NoneHeld'
    BY <1>6, <2>1, CountEdgeKeeps, SameStored, Zenon DEF NoneHeld, Idle
  <2> QED BY <2>1, <2>2 DEF BInv
<1>7. ASSUME NEW t \in Threads,
             (\E e \in left[t] : TakeSrcSlot(t, e)) \/ TakeDstSlot(t) \/ WriteEntries(t)
      PROVE  bstage \in {"count", "fill"} /\ BInv'
  <2>1. bstage = "fill"
    BY <1>1, <1>7 DEF TakeSrcSlot, TakeDstSlot, WriteEntries, Idle
  <2>2. GraphOK /\ LoopOK /\ FillOK
    BY <2>1 DEF BInv
  <2>3. bstage' = bstage /\ UNCHANGED <<stored, num_vertex, live>>
    BY <1>7, Zenon DEF TakeSrcSlot, TakeDstSlot, WriteEntries
  <2>4. GraphOK' /\ LoopOK' /\ FillOK'
    BY <1>7, <2>2, <2>3, TakeSrcKeeps, TakeDstKeeps, WriteKeeps, SameStored, Zenon
  <2> QED BY <2>1, <2>3, <2>4 DEF BInv
<1> QED BY <1>2, <1>3, <1>4, <1>5, <1>6, <1>7, Zenon DEF BuildStep

\* Steps of the other parts leave the build alone.
LEMMA BInvStutters ==
  ASSUME BInv, UNCHANGED bvars
  PROVE  BInv'
<1>1. /\ bstage' = bstage /\ label' = label /\ sources' = sources /\ left' = left
      /\ held' = held /\ cursor' = cursor /\ lists' = lists
      /\ stored' = stored /\ num_vertex' = num_vertex /\ live' = live
  BY Zenon DEF bvars
<1>2. AllVertices' = AllVertices /\ Edges' = Edges /\ (GraphOK => GraphOK')
  BY <1>1, SameStored, Zenon
<1>3. \A e \in Edges : Handled(e)' <=> Handled(e)
  BY <1>1, Zenon DEF Handled
<1>4. LoopOK => LoopOK'
  BY <1>1, <1>2, Zenon DEF LoopOK
<1>5. CountOK => CountOK'
  BY <1>1, <1>3, CountsSame, Zenon
<1>6. FillOK => FillOK'
  BY <1>1, <1>3, FillSame, Zenon
<1>7. NoneHeld => NoneHeld'
  BY <1>1, Zenon DEF NoneHeld, Idle
<1>8. Complete => Complete'
  <2>1. ListWeights' = ListWeights
    BY <1>1, <1>2, Zenon DEF ListWeights
  <2> QED BY <1>1, <1>2, <2>1, Zenon DEF Complete
<1> QED BY <1>1, <1>2, <1>4, <1>5, <1>6, <1>7, <1>8, Zenon DEF BInv

\* What a thread is about to write is a slot of its own inside the list.
LEMMA SlotsAreFresh ==
  ASSUME GraphOK, LoopOK, FillOK, NEW t \in Threads, held[t] # Idle,
         NEW k \in Ends, Taken(k), k[1] = held[t].edge,
         NEW i, i = IF k[2] = 1 THEN held[t].pu ELSE held[t].pv
  PROVE  OwnSlot(t, At(k), i)
<1>1. HeldOK /\ ListsOK
  BY Zenon DEF FillOK
<1>2. PICK sl \in [Ends -> Nat] : SlotMap(sl) /\ HeldSlots(sl)
  BY Zenon DEF FillOK
<1>3. k = <<held[t].edge, 1>> \/ k = <<held[t].edge, 2>>
  BY EndTypes, Zenon
<1>4. sl[k] = i /\ i \in Nat
  <2>1. CASE k = <<held[t].edge, 1>>
    BY <1>1, <1>2, <2>1, HeldEnds, Zenon DEF HeldSlots
  <2>2. CASE k = <<held[t].edge, 2>>
    <3>1. held[t].pv # -1
      BY <1>1, <2>2, HeldEnds, Zenon
    <3> QED BY <1>1, <1>2, <2>2, <3>1, HeldEnds, Zenon DEF HeldSlots
  <2> QED BY <1>3, <2>1, <2>2, Zenon
<1>5. PICK u \in AllVertices : u = At(k)
  BY EndVertices, Zenon
<1>6. i \in DOMAIN lists[u]
  <2>1. i < cursor[u] /\ cursor[u] \in Nat
    <3>1. cursor[u] \in Nat
      BY Zenon DEF LoopOK
    <3>2. sl[k] < cursor[At(k)]
      BY <1>2, Zenon DEF SlotMap
    <3> QED BY <1>4, <1>5, <3>1, <3>2, Zenon
  <2>2. cursor[u] <= Cardinality(EndsAt(u)) /\ Cardinality(EndsAt(u)) \in Nat
    BY <1>2, CursorCounts, FiniteEnds, Zenon
  <2>3. DOMAIN lists[u] = 0..(Cardinality(EndsAt(u)) - 1)
    BY <1>1, Zenon DEF ListsOK
  <2>4. PICK c, n \in Nat : c = cursor[u] /\ n = Cardinality(EndsAt(u))
    BY <2>1, <2>2, Zenon
  <2>5. i < c /\ c <= n /\ DOMAIN lists[u] = 0..(n - 1)
    BY <2>1, <2>2, <2>3, <2>4, Zenon
  <2>6. i \in 0..(n - 1)
    BY <1>4, <2>5
  <2> QED BY <2>5, <2>6, Zenon
<1>7. ASSUME NEW l \in Ends, Taken(l), At(l) = u, sl[l] = i
      PROVE  l = k
  BY <1>2, <1>4, <1>5, <1>7, Zenon DEF SlotMap
<1>8. lists[u][i] = NoEdge
  <2> SUFFICES ASSUME lists[u][i] # NoEdge
               PROVE  FALSE
    BY Zenon
  <2>1. PICK l \in Ends : Handled(l[1]) /\ At(l) = u /\ sl[l] = i
    BY <1>2, <1>6, Zenon DEF SlotMap
  <2>2. l = k
    BY <1>7, <2>1, Zenon DEF Taken
  <2>3. ~Handled(held[t].edge)
    BY <1>1, HeldEnds, LeftNotHandled, Zenon
  <2> QED BY <2>1, <2>2, <2>3, Zenon
<1>9. ASSUME NEW s \in Threads, s # t, held[s] # Idle
      PROVE  /\ ~(held[s].edge.src = u /\ held[s].pu = i)
             /\ ~(held[s].edge.dst = u /\ held[s].pv = i)
  <2>1. PICK x \in Edges : x = held[s].edge /\ x # held[t].edge
    <3>1. held[s].edge \in Edges
      BY <1>1, <1>9, HeldEnds, Zenon
    <3>2. held[t].edge \in left[t]
      BY <1>1, HeldEnds, Zenon
    <3>3. held[s].edge # held[t].edge
      BY <1>1, <1>9, <3>2, HeldApart, Zenon
    <3> QED BY <3>1, <3>3, Zenon
  <2>2. /\ <<x, 1>> \in Ends /\ At(<<x, 1>>) = x.src /\ <<x, 1>> # k
        /\ <<x, 2>> \in Ends /\ At(<<x, 2>>) = x.dst /\ <<x, 2>> # k
    BY <1>3, <2>1, EndTypes
  <2>3. /\ Taken(<<x, 1>>) /\ sl[<<x, 1>>] = held[s].pu
        /\ held[s].pv # -1 => Taken(<<x, 2>>) /\ sl[<<x, 2>>] = held[s].pv
    BY <1>1, <1>2, <1>9, <2>1, HeldEnds, Zenon DEF HeldSlots
  <2>4. ~(x.src = u /\ held[s].pu = i)
    BY <1>7, <2>2, <2>3, Zenon
  <2>5. i # -1
    <3>1. \A n \in Nat : n # -1
      OBVIOUS
    <3> QED BY <1>4, <3>1, Zenon
  <2>6. ~(x.dst = u /\ held[s].pv = i)
    BY <1>7, <2>2, <2>3, <2>5, Zenon
  <2> QED BY <2>1, <2>4, <2>6, Zenon
<1> QED BY <1>5, <1>6, <1>8, <1>9, Zenon DEF OwnSlot

\* In every state of the invariant the build is exact.
LEMMA BInvExact ==
  ASSUME BInv
  PROVE  BuiltExact
<1>1. ASSUME NEW t \in Threads, held[t] # Idle
      PROVE  GraphOK /\ LoopOK /\ FillOK
  BY <1>1 DEF BInv, NoneHeld
<1>2. ASSUME NEW t \in Threads, held[t] # Idle
      PROVE  /\ OwnSlot(t, held[t].edge.src, held[t].pu)
             /\ held[t].pv # -1 => OwnSlot(t, held[t].edge.dst, held[t].pv)
             /\ held[t].edge.src = held[t].edge.dst => held[t].pu # held[t].pv
  <2>1. PICK e \in Edges : e = held[t].edge
    BY <1>1, <1>2, HeldEnds, Zenon DEF FillOK
  <2>2. PICK k1, k2 \in Ends :
          /\ k1 = <<e, 1>> /\ At(k1) = e.src /\ k1[1] = e /\ k1[2] = 1
          /\ k2 = <<e, 2>> /\ At(k2) = e.dst /\ k2[1] = e /\ k2[2] = 2
    BY <2>1, EndTypes, Zenon
  <2>3. /\ Taken(k1) /\ held[t].pu \in Nat
        /\ Taken(k2) <=> held[t].pv # -1
    BY <1>1, <1>2, <2>1, <2>2, HeldEnds, Zenon DEF FillOK
  <2>4. OwnSlot(t, e.src, held[t].pu)
    <3>1. held[t].pu = IF k1[2] = 1 THEN held[t].pu ELSE held[t].pv
      BY <2>2
    <3>2. OwnSlot(t, At(k1), held[t].pu)
      BY <1>1, <1>2, <2>1, <2>2, <2>3, <3>1, SlotsAreFresh, Zenon
    <3> QED BY <2>2, <3>2, Zenon
  <2>5. held[t].pv # -1 => OwnSlot(t, e.dst, held[t].pv)
    <3>1. held[t].pv = IF k2[2] = 1 THEN held[t].pu ELSE held[t].pv
      BY <2>2
    <3>2. held[t].pv # -1 => OwnSlot(t, At(k2), held[t].pv)
      BY <1>1, <1>2, <2>1, <2>2, <2>3, <3>1, SlotsAreFresh, Zenon
    <3> QED BY <2>2, <3>2, Zenon
  <2>6. e.src = e.dst => held[t].pu # held[t].pv
    <3>1. CASE held[t].pv = -1
      <4>1. \A n \in Nat : n # -1
        OBVIOUS
      <4> QED BY <2>3, <3>1, <4>1, Zenon
    <3>2. CASE held[t].pv # -1
      <4>1. PICK sl \in [Ends -> Nat] : SlotMap(sl) /\ HeldSlots(sl)
        BY <1>1, <1>2, Zenon DEF FillOK
      <4>2. sl[k1] = held[t].pu /\ sl[k2] = held[t].pv
        BY <1>2, <2>1, <2>2, <3>2, <4>1, Zenon DEF HeldSlots
      <4>3. Taken(k1) /\ Taken(k2) /\ At(k1) = At(k2) /\ sl[k1] = sl[k2] => k1 = k2
        BY <4>1, Zenon DEF SlotMap
      <4>4. k1 # k2
        BY <2>2
      <4> QED BY <2>2, <2>3, <3>2, <4>2, <4>3, <4>4, Zenon
    <3> QED BY <3>1, <3>2, Zenon
  <2> QED BY <2>1, <2>4, <2>5, <2>6, Zenon
<1>3. bstage = "built" => Complete
  BY Zenon DEF BInv
<1> QED BY <1>2, <1>3, Zenon DEF BuiltExact, Complete
=============================================================================
