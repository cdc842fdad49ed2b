---------------------------- MODULE LouvainProofs ----------------------------
(***************************************************************************)
(* The steps of LouvainComputer::Compute on any undirected graph: the      *)
(* coarse graphs are sums of the graph of level 0, the last partition is   *)
(* mapped back without loss, the modularity returned is that of the        *)
(* definition, and a node that moves raises it.  GraphProceduresProofs     *)
(* puts the steps together.                                                *)
(***************************************************************************)
EXTENDS LouvainComputer, FiniteSetTheorems, WellFoundedInduction, TLAPS

-----------------------------------------------------------------------------
(* Sums of natural numbers over finite sets.                               *)

\* What Total counts.
Marks(f, S) == UNION {{x} \X (1..f[x]) : x \in S}

\* A mark is an element and one of its units.
LEMMA MarkMember ==
  ASSUME NEW f, NEW S, NEW p
  PROVE  p \in Marks(f, S) <=> \E x \in S : \E k \in 1..f[x] : p = <<x, k>>
BY DEF Marks

\* A function takes finitely many values on a finite set.
LEMMA FiniteRange ==
  ASSUME NEW S, IsFiniteSet(S), NEW f, NEW R, \A y \in R : \E x \in S : y = f[x]
  PROVE  IsFiniteSet(R)
<1>1. PICK h : h = [x \in S |-> f[x]]
  BY Zenon
<1>2. PICK Q : Q = {f[x] : x \in S}
  BY Zenon
<1>3. h \in Surjection(S, Q)
  BY <1>1, <1>2 DEF Surjection
<1>4. IsFiniteSet(Q)
  BY <1>3, FS_Surjection, Zenon
<1>5. R \in SUBSET Q
  BY <1>2, Zenon
<1> QED BY <1>4, <1>5, FS_Subset, Zenon

\* The union of finitely many finite sets is finite.
LEMMA FiniteUnion ==
  ASSUME NEW S, IsFiniteSet(S), NEW T, \A x \in S : IsFiniteSet(T[x]),
         NEW U, \A y : y \in U <=> \E x \in S : y \in T[x]
  PROVE  IsFiniteSet(U)
<1>1. PICK R : R = {T[x] : x \in S}
  BY Zenon
<1>2. IsFiniteSet(R)
  <2>1. \A y \in R : \E x \in S : y = T[x]
    BY <1>1, Zenon
  <2> QED BY <2>1, FiniteRange, Zenon
<1>3. IsFiniteSet(UNION R)
  BY <1>1, <1>2, FS_UNION, Zenon
<1>4. U = UNION R
  BY <1>1, Zenon
<1> QED BY <1>3, <1>4, Zenon

\* U is cut into the finitely many finite sets T[x], x in S.
Tiled(U, T, S) ==
  /\ IsFiniteSet(S)
  /\ \A x \in S : IsFiniteSet(T[x])
  /\ \A x, y \in S : x # y => T[x] \cap T[y] = {}
  /\ \A y : y \in U <=> \E x \in S : y \in T[x]

\* A sum of the sizes of the parts is the size of the whole.
LEMMA SumOfParts ==
  ASSUME NEW U, NEW T, NEW S, Tiled(U, T, S),
         NEW f, \A x \in S : f[x] = Cardinality(T[x])
  PROVE  IsFiniteSet(U) /\ Total(f, S) = Cardinality(U)
<1>0. /\ IsFiniteSet(S)
      /\ \A x \in S : IsFiniteSet(T[x])
      /\ \A x, y \in S : x # y => T[x] \cap T[y] = {}
      /\ \A y : y \in U <=> \E x \in S : y \in T[x]
  BY Zenon DEF Tiled
<1>1. PICK K : K = Marks(f, S)
  BY Zenon
<1>3. \A p : p \in K <=> \E x \in S : \E k \in 1..f[x] : p = <<x, k>>
  BY <1>1, MarkMember
<1>5. IsFiniteSet(U)
  BY <1>0, FiniteUnion, Zenon
<1>6. \A x \in S : \E h : h \in Bijection(1..f[x], T[x])
  BY <1>0, FS_CardinalityType, Zenon DEF ExistsBijection
<1>7. PICK G : G = [x \in S |-> CHOOSE h : h \in Bijection(1..f[x], T[x])]
  BY Zenon
<1>8. \A x \in S : G[x] \in Bijection(1..f[x], T[x])
  BY <1>6, <1>7, Zenon
<1>9. ASSUME NEW x \in S
      PROVE  /\ \A k \in 1..f[x] : G[x][k] \in T[x]
             /\ \A k, l \in 1..f[x] : G[x][k] = G[x][l] => k = l
             /\ \A y \in T[x] : \E k \in 1..f[x] : G[x][k] = y
  <2>1. /\ G[x] \in [1..f[x] -> T[x]] /\ IsInjective(G[x])
        /\ \A y \in T[x] : \E k \in 1..f[x] : G[x][k] = y
    BY <1>8, Zenon DEF Bijection, Injection, Surjection
  <2>2. DOMAIN G[x] = 1..f[x] /\ \A k \in 1..f[x] : G[x][k] \in T[x]
    BY <2>1, Zenon
  <2> QED BY <2>1, <2>2, Zenon DEF IsInjective
<1>10. PICK F : F = [p \in K |-> G[p[1]][p[2]]]
  BY Zenon
<1>11. \A x \in S : \A k \in 1..f[x] : <<x, k>> \in K /\ F[<<x, k>>] = G[x][k]
  BY <1>3, <1>10
<1>12. F \in [K -> U]
  <2>1. ASSUME NEW p \in K PROVE F[p] \in U
    <3>1. PICK x \in S : \E k \in 1..f[x] : p = <<x, k>>
      BY <1>3, Zenon
    <3>2. PICK k \in 1..f[x] : p = <<x, k>>
      BY <3>1, Zenon
    <3>3. F[p] = G[x][k] /\ G[x][k] \in T[x]
      BY <1>9, <1>11, <3>2, Zenon
    <3> QED BY <1>0, <3>3, Zenon
  <2> QED BY <1>10, <2>1, Zenon
<1>13. ASSUME NEW p \in K, NEW q \in K, F[p] = F[q]
       PROVE  p = q
  <2>1. PICK x \in S : \E k \in 1..f[x] : p = <<x, k>>
    BY <1>3, Zenon
  <2>2. PICK k \in 1..f[x] : p = <<x, k>>
    BY <2>1, Zenon
  <2>3. PICK y \in S : \E l \in 1..f[y] : q = <<y, l>>
    BY <1>3, Zenon
  <2>4. PICK l \in 1..f[y] : q = <<y, l>>
    BY <2>3, Zenon
  <2>5. F[p] = G[x][k] /\ F[q] = G[y][l] /\ G[x][k] \in T[x] /\ G[y][l] \in T[y]
    BY <1>9, <1>11, <2>2, <2>4, Zenon
  <2>6. x = y
    <3>1. G[x][k] \in T[x] \cap T[y]
      BY <1>13, <2>5, Zenon
    <3> QED BY <1>0, <3>1, Zenon
  <2>7. k = l
    <3>1. l \in 1..f[x] /\ G[x][k] = G[x][l]
      BY <1>13, <2>5, <2>6, Zenon
    <3> QED BY <1>9, <3>1, Zenon
  <2> QED BY <2>2, <2>4, <2>6, <2>7, Zenon
<1>14. ASSUME NEW y \in U
       PROVE  \E p \in K : F[p] = y
  <2>1. PICK x \in S : y \in T[x]
    BY <1>0, Zenon
  <2>2. PICK k \in 1..f[x] : G[x][k] = y
    BY <1>9, <2>1, Zenon
  <2> QED BY <1>11, <2>2, Zenon
<1>15. F \in Injection(K, U) /\ F \in Surjection(K, U)
  BY <1>12, <1>13, <1>14, Zenon DEF Injection, Surjection, IsInjective
<1>16. Cardinality(K) = Cardinality(U)
  BY <1>5, <1>15, FS_Injection, Zenon
<1> QED BY <1>1, <1>5, <1>16, Zenon DEF Total, Marks

\* The marks of one element.
LEMMA UnitMarks ==
  ASSUME NEW x, NEW n, n \in Nat, NEW T, T = {x} \X (1..n)
  PROVE  IsFiniteSet(T) /\ Cardinality(T) = n
<1>1. PICK X, Y : X = {x} /\ Y = 1..n
  BY Zenon
<1>2. IsFiniteSet(X) /\ Cardinality(X) = 1
  BY <1>1, FS_Singleton, Zenon
<1>3. IsFiniteSet(Y) /\ Cardinality(Y) = n
  BY <1>1, FS_Interval
<1>4. IsFiniteSet(X \X Y) /\ Cardinality(X \X Y) = Cardinality(X) * Cardinality(Y)
  BY <1>2, <1>3, FS_Product, Zenon
<1>5. IsFiniteSet(T) /\ Cardinality(T) = 1 * n
  BY <1>1, <1>2, <1>3, <1>4, Zenon
<1> QED BY <1>5

\* A finite sum is a natural number.
LEMMA TotalType ==
  ASSUME NEW S, IsFiniteSet(S), NEW f, \A x \in S : f[x] \in Nat
  PROVE  /\ IsFiniteSet(Marks(f, S)) /\ Total(f, S) = Cardinality(Marks(f, S))
         /\ Total(f, S) \in Nat
<1>1. PICK T : T = [x \in S |-> {x} \X (1..f[x])]
  BY Zenon
<1>2. \A x \in S : T[x] = {x} \X (1..f[x])
  BY <1>1, Zenon
<1>3. \A x \in S : IsFiniteSet(T[x]) /\ f[x] = Cardinality(T[x])
  BY <1>2, UnitMarks, Zenon
<1>4. \A x, y \in S : x # y => T[x] \cap T[y] = {}
  BY <1>2
<1>5. PICK U : U = Marks(f, S)
  BY Zenon
<1>6. \A y : y \in U <=> \E x \in S : y \in T[x]
  BY <1>2, <1>5, Zenon DEF Marks
<1>7. Tiled(U, T, S)
  BY <1>3, <1>4, <1>6, Zenon DEF Tiled
<1>8. IsFiniteSet(U) /\ Total(f, S) = Cardinality(U)
  <2>1. \A x \in S : f[x] = Cardinality(T[x])
    BY <1>3, Zenon
  <2> QED BY <1>7, <2>1, SumOfParts
<1> QED BY <1>5, <1>8, FS_CardinalityType, Zenon

\* A sum depends on the summands only.
LEMMA TotalSame ==
  ASSUME NEW S, NEW f, NEW g, \A x \in S : f[x] = g[x]
  PROVE  Total(f, S) = Total(g, S)
<1>1. \A p : p \in Marks(f, S) <=> p \in Marks(g, S)
  BY MarkMember
<1>2. Marks(f, S) = Marks(g, S)
  BY <1>1, Zenon
<1> QED BY <1>2, Zenon DEF Total, Marks

\* A sum of the sums over the parts is the sum over the whole.
LEMMA TotalOfParts ==
  ASSUME NEW U, NEW P, NEW I, Tiled(U, P, I), NEW f, \A x \in U : f[x] \in Nat,
         NEW F, \A i \in I : F[i] = Total(f, P[i])
  PROVE  IsFiniteSet(U) /\ Total(F, I) = Total(f, U)
<1>0. /\ IsFiniteSet(I)
      /\ \A i \in I : IsFiniteSet(P[i])
      /\ \A i, j \in I : i # j => P[i] \cap P[j] = {}
      /\ \A x : x \in U <=> \E i \in I : x \in P[i]
  BY Zenon DEF Tiled
<1>1. PICK T : T = [i \in I |-> Marks(f, P[i])]
  BY Zenon
<1>2. \A i \in I : T[i] = Marks(f, P[i])
  BY <1>1, Zenon
<1>3. ASSUME NEW i \in I
      PROVE  IsFiniteSet(T[i]) /\ F[i] = Cardinality(T[i])
  <2>1. IsFiniteSet(P[i]) /\ \A x \in P[i] : f[x] \in Nat
    BY <1>0, Zenon
  <2> QED BY <1>2, <2>1, TotalType, Zenon
<1>4. ASSUME NEW i \in I, NEW j \in I, i # j
      PROVE  T[i] \cap T[j] = {}
  <2> SUFFICES ASSUME NEW p, p \in T[i], p \in T[j]
               PROVE  FALSE
    BY Zenon
  <2>1. PICK x \in P[i] : \E k \in 1..f[x] : p = <<x, k>>
    BY <1>2, MarkMember
  <2>2. PICK y \in P[j] : \E k \in 1..f[y] : p = <<y, k>>
    BY <1>2, MarkMember
  <2>3. x = y
    BY <2>1, <2>2
  <2>4. x \in P[i] \cap P[j]
    BY <2>3, Zenon
  <2> QED BY <1>0, <1>4, <2>4, Zenon
<1>5. PICK V : V = Marks(f, U)
  BY Zenon
<1>6. \A p : p \in V <=> \E i \in I : p \in T[i]
  BY <1>0, <1>2, <1>5, MarkMember
<1>7. Tiled(V, T, I)
  BY <1>0, <1>3, <1>4, <1>6, Zenon DEF Tiled
<1>8. Total(F, I) = Cardinality(V)
  <2>1. \A x \in I : F[x] = Cardinality(T[x])
    BY <1>3, Zenon
  <2> QED BY <1>7, <2>1, SumOfParts
<1>9. IsFiniteSet(U)
  BY <1>0, FiniteUnion, Zenon
<1> QED BY <1>5, <1>8, <1>9, Zenon DEF Total, Marks

\* A sum does not depend on the names of the summands.
LEMMA TotalMoved ==
  ASSUME NEW S, IsFiniteSet(S), NEW h, NEW f, NEW g,
         \A x \in S : f[x] \in Nat /\ f[x] = g[h[x]],
         \A x, y \in S : h[x] = h[y] => x = y,
         NEW R, \A y : y \in R <=> \E x \in S : y = h[x]
  PROVE  Total(f, S) = Total(g, R)
<1>1. PICK T : T = [x \in S |-> {h[x]} \X (1..f[x])]
  BY Zenon
<1>2. \A x \in S : T[x] = {h[x]} \X (1..f[x])
  BY <1>1, Zenon
<1>3. ASSUME NEW x \in S
      PROVE  IsFiniteSet(T[x]) /\ f[x] = Cardinality(T[x])
  <2>1. PICK y, n, t : y = h[x] /\ n = f[x] /\ t = T[x]
    BY Zenon
  <2>2. n \in Nat /\ t = {y} \X (1..n)
    BY <1>2, <2>1, Zenon
  <2>3. IsFiniteSet(t) /\ Cardinality(t) = n
    BY <2>2, UnitMarks, Zenon
  <2> QED BY <2>1, <2>3, Zenon
<1>4. \A x, y \in S : x # y => T[x] \cap T[y] = {}
  BY <1>2
<1>5. PICK V : V = Marks(g, R)
  BY Zenon
<1>6. \A p : p \in V <=> \E x \in S : p \in T[x]
  <2>1. \A x \in S : \A p : p \in T[x] <=> \E k \in 1..f[x] : p = <<h[x], k>>
    BY <1>2
  <2> QED BY <1>5, <2>1, MarkMember
<1>7. Tiled(V, T, S)
  BY <1>3, <1>4, <1>6, Zenon DEF Tiled
<1>8. Total(f, S) = Cardinality(V)
  <2>1. \A x \in S : f[x] = Cardinality(T[x])
    BY <1>3, Zenon
  <2> QED BY <1>7, <2>1, SumOfParts
<1> QED BY <1>5, <1>8, Zenon DEF Total, Marks

\* A product of two sums is the sum of the products.
LEMMA TotalProduct ==
  ASSUME NEW A, IsFiniteSet(A), NEW B, IsFiniteSet(B), NEW k, NEW l, NEW F,
         \A a \in A : k[a] \in Nat, \A b \in B : l[b] \in Nat,
         \A a \in A, b \in B : F[<<a, b>>] = k[a] * l[b]
  PROVE  Total(F, A \X B) = Total(k, A) * Total(l, B)
<1>1. PICK T : T = [p \in A \X B |-> ({p[1]} \X (1..k[p[1]])) \X ({p[2]} \X (1..l[p[2]]))]
  BY Zenon
<1>2. \A a \in A, b \in B : T[<<a, b>>] = ({a} \X (1..k[a])) \X ({b} \X (1..l[b]))
  BY <1>1
<1>3. ASSUME NEW a \in A, NEW b \in B
      PROVE  IsFiniteSet(T[<<a, b>>]) /\ F[<<a, b>>] = Cardinality(T[<<a, b>>])
  <2>1. PICK X, Y : X = {a} \X (1..k[a]) /\ Y = {b} \X (1..l[b])
    BY Zenon
  <2>2. IsFiniteSet(X) /\ Cardinality(X) = k[a] /\ IsFiniteSet(Y) /\ Cardinality(Y) = l[b]
    BY <2>1, UnitMarks, Zenon
  <2>3. IsFiniteSet(X \X Y) /\ Cardinality(X \X Y) = k[a] * l[b]
    BY <2>2, FS_Product
  <2> QED BY <1>2, <2>1, <2>3, Zenon
<1>4. \A p \in A \X B : IsFiniteSet(T[p]) /\ F[p] = Cardinality(T[p])
  <2> SUFFICES ASSUME NEW p \in A \X B
               PROVE  IsFiniteSet(T[p]) /\ F[p] = Cardinality(T[p])
    BY Zenon
  <2>1. PICK a \in A, b \in B : p = <<a, b>>
    OBVIOUS
  <2>2. IsFiniteSet(T[<<a, b>>]) /\ F[<<a, b>>] = Cardinality(T[<<a, b>>])
    BY <1>3, Zenon
  <2> QED BY <2>1, <2>2
<1>5. ASSUME NEW a \in A, NEW b \in B, NEW y
      PROVE  y \in T[<<a, b>>] <=>
               \E i \in 1..k[a], j \in 1..l[b] : y = <<<<a, i>>, <<b, j>>>>
  <2>1. T[<<a, b>>] = ({a} \X (1..k[a])) \X ({b} \X (1..l[b]))
    BY <1>2
  <2> QED BY <2>1
<1>6. ASSUME NEW p \in A \X B, NEW q \in A \X B, p # q
      PROVE  T[p] \cap T[q] = {}
  <2> SUFFICES ASSUME NEW y, y \in T[p], y \in T[q]
               PROVE  FALSE
    BY Zenon
  <2>1. PICK a \in A, b \in B : p = <<a, b>>
    OBVIOUS
  <2>2. PICK c \in A, d \in B : q = <<c, d>>
    OBVIOUS
  <2>3. PICK i, j : y = <<<<a, i>>, <<b, j>>>>
    BY <1>5, <2>1
  <2>4. PICK m, n : y = <<<<c, m>>, <<d, n>>>>
    BY <1>5, <2>2
  <2>5. a = c /\ b = d
    BY <2>3, <2>4
  <2> QED BY <1>6, <2>1, <2>2, <2>5, Zenon
<1>7. PICK K, L : K = Marks(k, A) /\ L = Marks(l, B)
  BY Zenon
<1>8. \A y : y \in K \X L <=> \E p \in A \X B : y \in T[p]
  <2>1. ASSUME NEW y \in K \X L
        PROVE  \E p \in A \X B : y \in T[p]
    <3>1. PICK s \in K, t \in L : y = <<s, t>>
      OBVIOUS
    <3>2. PICK a \in A : \E i \in 1..k[a] : s = <<a, i>>
      BY <1>7, <3>1, MarkMember
    <3>3. PICK b \in B : \E j \in 1..l[b] : t = <<b, j>>
      BY <1>7, <3>1, MarkMember
    <3>4. y \in T[<<a, b>>]
      BY <1>5, <3>1, <3>2, <3>3
    <3> QED BY <3>4
  <2>2. ASSUME NEW p \in A \X B, NEW y \in T[p]
        PROVE  y \in K \X L
    <3>1. PICK a \in A, b \in B : p = <<a, b>>
      OBVIOUS
    <3>2. PICK i \in 1..k[a], j \in 1..l[b] : y = <<<<a, i>>, <<b, j>>>>
      BY <1>5, <3>1
    <3>3. <<a, i>> \in K /\ <<b, j>> \in L
      BY <1>7, MarkMember, Zenon
    <3> QED BY <3>2, <3>3
  <2> QED BY <2>1, <2>2, Zenon
<1>9. /\ IsFiniteSet(K) /\ Total(k, A) = Cardinality(K)
      /\ IsFiniteSet(L) /\ Total(l, B) = Cardinality(L)
  BY <1>7, TotalType, Zenon
<1>10. IsFiniteSet(A \X B)
  BY FS_Product, Zenon
<1>11. Total(F, A \X B) = Cardinality(K \X L)
  <2>1. Tiled(K \X L, T, A \X B)
    BY <1>4, <1>6, <1>8, <1>10, Zenon DEF Tiled
  <2>2. \A p \in A \X B : F[p] = Cardinality(T[p])
    BY <1>4, Zenon
  <2> QED BY <2>1, <2>2, SumOfParts
<1>12. Cardinality(K \X L) = Cardinality(K) * Cardinality(L)
  BY <1>9, FS_Product, Zenon
<1> QED BY <1>9, <1>11, <1>12, Zenon

-----------------------------------------------------------------------------
(* Weight functions and the sums over pairs of vertices.                   *)

\* A weight for every ordered pair of the vertices 0..n-1.
Square(g) ==
  /\ \E n \in Nat : DOMAIN g = 0..(n - 1)
  /\ \A u \in DOMAIN g : DOMAIN g[u] = DOMAIN g
  /\ \A u, v \in DOMAIN g : g[u][v] \in Nat

\* The weights of an undirected graph.
Weighted(g) == Square(g) /\ \A u, v \in DOMAIN g : g[u][v] = g[v][u]

\* The weights as a function of the pairs.
Flat(g) == [p \in (DOMAIN g) \X (DOMAIN g) |-> g[p[1]][p[2]]]

\* The pairs are finitely many and their weights natural numbers.
LEMMA FlatType ==
  ASSUME NEW g, Square(g)
  PROVE  /\ IsFiniteSet(DOMAIN g)
         /\ \A A, B \in SUBSET DOMAIN g :
              /\ IsFiniteSet(A) /\ IsFiniteSet(A \X B)
              /\ A \X B \subseteq (DOMAIN g) \X (DOMAIN g)
         /\ \A u, v \in DOMAIN g : Flat(g)[<<u, v>>] = g[u][v]
         /\ \A p \in (DOMAIN g) \X (DOMAIN g) : Flat(g)[p] \in Nat
<1>1. PICK n \in Nat : DOMAIN g = 0..(n - 1)
  BY Zenon DEF Square
<1>2. IsFiniteSet(DOMAIN g)
  BY <1>1, FS_Interval
<1>3. \A A \in SUBSET DOMAIN g : IsFiniteSet(A)
  BY <1>2, FS_Subset, Zenon
<1>4. ASSUME NEW A \in SUBSET DOMAIN g, NEW B \in SUBSET DOMAIN g
      PROVE  IsFiniteSet(A \X B) /\ A \X B \subseteq (DOMAIN g) \X (DOMAIN g)
  <2>1. IsFiniteSet(A \X B)
    BY <1>3, FS_Product, Zenon
  <2> QED BY <2>1
<1>5. \A u, v \in DOMAIN g : Flat(g)[<<u, v>>] = g[u][v]
  BY DEF Flat
<1>6. \A p \in (DOMAIN g) \X (DOMAIN g) : Flat(g)[p] \in Nat
  <2>1. \A p \in (DOMAIN g) \X (DOMAIN g) : p[1] \in DOMAIN g /\ p[2] \in DOMAIN g
    OBVIOUS
  <2> QED BY <2>1, Zenon DEF Flat, Square
<1> QED BY <1>2, <1>3, <1>4, <1>5, <1>6, Zenon

\* The part of a row that leads to B.
LEMMA RowIsFlat ==
  ASSUME NEW g, Square(g), NEW u \in DOMAIN g, NEW B \in SUBSET DOMAIN g
  PROVE  Total(g[u], B) = Total(Flat(g), {u} \X B)
<1>1. PICK h : h = [v \in B |-> <<u, v>>]
  BY Zenon
<1>2. \A v \in B : h[v] = <<u, v>>
  BY <1>1, Zenon
<1>3. \A v \in B : g[u][v] \in Nat /\ g[u][v] = Flat(g)[h[v]]
  <2>1. \A v \in B : v \in DOMAIN g
    BY Zenon
  <2>2. \A v \in B : g[u][v] \in Nat /\ Flat(g)[<<u, v>>] = g[u][v]
    BY <2>1, FlatType, Zenon DEF Square
  <2> QED BY <1>2, <2>2, Zenon
<1>4. \A v, w \in B : h[v] = h[w] => v = w
  BY <1>2
<1>5. PICK R : R = {u} \X B
  BY Zenon
<1>6. \A y : y \in R <=> \E v \in B : y = h[v]
  BY <1>2, <1>5
<1>7. IsFiniteSet(B)
  BY FlatType, Zenon
<1>8. PICK f, F : f = g[u] /\ F = Flat(g)
  BY Zenon
<1>9. \A v \in B : f[v] \in Nat /\ f[v] = F[h[v]]
  BY <1>3, <1>8, Zenon
<1>10. Total(f, B) = Total(F, R)
  BY <1>4, <1>6, <1>7, <1>9, TotalMoved
<1> QED BY <1>5, <1>8, <1>10, Zenon

\* The weight from A to B is the sum over the pairs.
LEMMA BetweenIsFlat ==
  ASSUME NEW g, Square(g), NEW A \in SUBSET DOMAIN g, NEW B \in SUBSET DOMAIN g
  PROVE  /\ WeightBetween(g, A, B) = Total(Flat(g), A \X B)
         /\ Total(Flat(g), A \X B) \in Nat
<1>1. PICK P : P = [u \in A |-> {u} \X B]
  BY Zenon
<1>2. \A u \in A : P[u] = {u} \X B
  BY <1>1, Zenon
<1>3. PICK F : F = [u \in A |-> Total(g[u], B)]
  BY Zenon
<1>4. \A u \in A : F[u] = Total(Flat(g), P[u])
  <2> TAKE u \in A
  <2>0. u \in DOMAIN g
    BY Zenon
  <2>1. Total(g[u], B) = Total(Flat(g), {u} \X B)
    BY <2>0, RowIsFlat
  <2>2. F[u] = Total(g[u], B) /\ P[u] = {u} \X B
    BY <1>2, <1>3, Zenon
  <2> QED BY <2>1, <2>2, Zenon
<1>5. Tiled(A \X B, P, A)
  <2>1. \A u \in A : IsFiniteSet(P[u])
    <3> TAKE u \in A
    <3>1. PICK C : C = {u}
      BY Zenon
    <3>2. C \in SUBSET DOMAIN g
      BY <3>1, Zenon
    <3>3. IsFiniteSet(C \X B)
      BY <3>2, FlatType, Zenon
    <3> QED BY <1>2, <3>1, <3>3, Zenon
  <2>2. \A u, v \in A : u # v => P[u] \cap P[v] = {}
    BY <1>2
  <2>3. \A y : y \in A \X B <=> \E u \in A : y \in P[u]
    BY <1>2
  <2>4. IsFiniteSet(A)
    BY FlatType, Zenon
  <2> QED BY <2>1, <2>2, <2>3, <2>4, Zenon DEF Tiled
<1>6. \A p \in A \X B : Flat(g)[p] \in Nat
  BY FlatType, Zenon
<1>7. Total(F, A) = Total(Flat(g), A \X B)
  BY <1>4, <1>5, <1>6, TotalOfParts
<1>8. Total(Flat(g), A \X B) \in Nat
  BY <1>6, FlatType, TotalType
<1> QED BY <1>3, <1>7, <1>8, Zenon DEF WeightBetween

\* In an undirected graph it is the weight from B to A.
LEMMA BetweenSymmetric ==
  ASSUME NEW g, Weighted(g), NEW A \in SUBSET DOMAIN g, NEW B \in SUBSET DOMAIN g
  PROVE  WeightBetween(g, A, B) = WeightBetween(g, B, A)
<1>0. Square(g)
  BY Zenon DEF Weighted
<1>1. PICK h : h = [p \in A \X B |-> <<p[2], p[1]>>]
  BY Zenon
<1>2. \A a \in A, b \in B : h[<<a, b>>] = <<b, a>>
  BY <1>1
<1>3. \A p \in A \X B : \E a \in A, b \in B : p = <<a, b>>
  OBVIOUS
<1>4. \A a \in A, b \in B : /\ Flat(g)[<<a, b>>] = g[a][b] /\ g[a][b] \in Nat
                            /\ Flat(g)[<<b, a>>] = g[b][a] /\ g[a][b] = g[b][a]
  <2> TAKE a \in A, b \in B
  <2>1. a \in DOMAIN g /\ b \in DOMAIN g
    BY Zenon
  <2>2. Flat(g)[<<a, b>>] = g[a][b] /\ Flat(g)[<<b, a>>] = g[b][a]
    BY <1>0, <2>1, FlatType, Zenon
  <2>3. g[a][b] \in Nat /\ g[a][b] = g[b][a]
    BY <2>1, Zenon DEF Weighted, Square
  <2> QED BY <2>2, <2>3, Zenon
<1>5. \A p \in A \X B : Flat(g)[p] \in Nat /\ Flat(g)[p] = Flat(g)[h[p]]
  <2> TAKE p \in A \X B
  <2>1. PICK a \in A, b \in B : p = <<a, b>>
    BY <1>3, Zenon
  <2>2. h[p] = <<b, a>>
    BY <1>2, <2>1, Zenon
  <2>3. Flat(g)[p] = g[a][b] /\ Flat(g)[h[p]] = g[a][b] /\ g[a][b] \in Nat
    BY <1>4, <2>1, <2>2
  <2> QED BY <2>3, Zenon
<1>6. \A p, q \in A \X B : h[p] = h[q] => p = q
  BY <1>1
<1>7. \A y : y \in B \X A <=> \E p \in A \X B : y = h[p]
  <2>1. ASSUME NEW y \in B \X A
        PROVE  \E p \in A \X B : y = h[p]
    <3>1. PICK a \in A, b \in B : y = <<b, a>>
      OBVIOUS
    <3>2. <<a, b>> \in A \X B /\ y = h[<<a, b>>]
      BY <1>2, <3>1
    <3> QED BY <3>2, Zenon
  <2>2. ASSUME NEW p \in A \X B
        PROVE  h[p] \in B \X A
    BY <1>1
  <2> QED BY <2>1, <2>2, Zenon
<1>8. IsFiniteSet(A \X B)
  BY <1>0, FlatType, Zenon
<1>9. PICK F, S, R : F = Flat(g) /\ S = A \X B /\ R = B \X A
  BY Zenon
<1>10. /\ IsFiniteSet(S)
       /\ \A p \in S : F[p] \in Nat /\ F[p] = F[h[p]]
       /\ \A p, q \in S : h[p] = h[q] => p = q
       /\ \A y : y \in R <=> \E p \in S : y = h[p]
  BY <1>5, <1>6, <1>7, <1>8, <1>9, Zenon
<1>11. Total(F, S) = Total(F, R)
  BY <1>10, TotalMoved
<1>12. /\ WeightBetween(g, A, B) = Total(Flat(g), A \X B)
       /\ WeightBetween(g, B, A) = Total(Flat(g), B \X A)
  BY <1>0, BetweenIsFlat
<1> QED BY <1>9, <1>11, <1>12, Zenon

-----------------------------------------------------------------------------
(* Coarse graphs.                                                          *)

\* The sets orig[c], c in C, partition V.
Partition(orig, C, V) ==
  /\ \A c \in C : orig[c] # {} /\ orig[c] \in SUBSET V
  /\ \A v \in V : \E c \in C : v \in orig[c]
  /\ \A c, d \in C : c # d => orig[c] \cap orig[d] = {}

\* The node c stands for the vertices orig[c] of g: the graph a and the
\* weighted degrees w are those of g, summed over the vertices.
CoarseOf(g, a, orig, w) ==
  /\ Weighted(g)
  /\ \E m \in Nat : DOMAIN a = 0..(m - 1)
  /\ Partition(orig, DOMAIN a, DOMAIN g)
  /\ \A c \in DOMAIN a : DOMAIN a[c] = DOMAIN a
  /\ \A c, d \in DOMAIN a : a[c][d] = Total(Flat(g), orig[c] \X orig[d])
  /\ w = [c \in DOMAIN a |-> Total(Flat(g), orig[c] \X DOMAIN g)]

\* A coarse graph is an undirected graph.
LEMMA CoarseSquare ==
  ASSUME NEW g, NEW a, NEW orig, NEW w, CoarseOf(g, a, orig, w)
  PROVE  Square(a) /\ Weighted(a) /\ Square(g) /\ Weighted(g)
<1>1. Weighted(g) /\ Square(g)
  BY Zenon DEF CoarseOf, Partition, Weighted
<1>2. ASSUME NEW c \in DOMAIN a, NEW d \in DOMAIN a
      PROVE  a[c][d] \in Nat /\ a[c][d] = a[d][c]
  <2>1. PICK A, B : A = orig[c] /\ B = orig[d]
    BY Zenon
  <2>2. A \in SUBSET DOMAIN g /\ B \in SUBSET DOMAIN g
    BY <2>1, Zenon DEF CoarseOf, Partition
  <2>3. /\ WeightBetween(g, A, B) = Total(Flat(g), A \X B)
        /\ WeightBetween(g, B, A) = Total(Flat(g), B \X A)
        /\ Total(Flat(g), A \X B) \in Nat
    BY <1>1, <2>2, BetweenIsFlat
  <2>4. WeightBetween(g, A, B) = WeightBetween(g, B, A)
    BY <1>1, <2>2, BetweenSymmetric, Zenon
  <2>5. a[c][d] = Total(Flat(g), A \X B) /\ a[d][c] = Total(Flat(g), B \X A)
    BY <2>1, Zenon DEF CoarseOf, Partition
  <2> QED BY <2>3, <2>4, <2>5, Zenon
<1>3. Square(a)
  BY <1>2, Zenon DEF CoarseOf, Partition, Square
<1> QED BY <1>1, <1>2, <1>3, Zenon DEF Weighted

\* U holds the pairs of vertices that the pairs Q of nodes stand for.
Blocks(U, Q, a, orig) ==
  /\ Q \in SUBSET ((DOMAIN a) \X (DOMAIN a))
  /\ \A y : y \in U <=> \E c, d \in DOMAIN a : <<c, d>> \in Q /\ y \in orig[c] \X orig[d]

\* F is the sum of f over the block of a pair of nodes.
BlockSums(F, f, Q, a, orig) ==
  \A c, d \in DOMAIN a : <<c, d>> \in Q => F[<<c, d>>] = Total(f, orig[c] \X orig[d])

\* Summing over the blocks of pairs of nodes is summing over the pairs of
\* their vertices.
LEMMA BlockTotals ==
  ASSUME NEW g, NEW a, NEW orig, NEW w, CoarseOf(g, a, orig, w),
         NEW Q, NEW U, Blocks(U, Q, a, orig),
         NEW f, \A p \in (DOMAIN g) \X (DOMAIN g) : f[p] \in Nat,
         NEW F, BlockSums(F, f, Q, a, orig)
  PROVE  Total(F, Q) = Total(f, U)
<1>a. /\ Q \in SUBSET ((DOMAIN a) \X (DOMAIN a))
      /\ \A y : y \in U <=> \E c, d \in DOMAIN a : <<c, d>> \in Q /\ y \in orig[c] \X orig[d]
  BY Zenon DEF Blocks
<1>0. Square(a) /\ Square(g)
  BY CoarseSquare, Zenon
<1>1. PICK P : P = [p \in Q |-> orig[p[1]] \X orig[p[2]]]
  BY Zenon
<1>2. \A c, d \in DOMAIN a : <<c, d>> \in Q => P[<<c, d>>] = orig[c] \X orig[d]
  BY <1>1
<1>3. \A p \in Q : \E c, d \in DOMAIN a : p = <<c, d>>
  BY <1>a
<1>4. \A c \in DOMAIN a : orig[c] \in SUBSET DOMAIN g
  BY Zenon DEF CoarseOf, Partition
<1>5. ASSUME NEW p \in Q
      PROVE  IsFiniteSet(P[p]) /\ F[p] = Total(f, P[p])
  <2>1. PICK c \in DOMAIN a, d \in DOMAIN a : p = <<c, d>>
    BY <1>3, Zenon
  <2>2. P[p] = orig[c] \X orig[d] /\ F[p] = Total(f, orig[c] \X orig[d])
    BY <1>2, <2>1 DEF BlockSums
  <2>3. IsFiniteSet(orig[c] \X orig[d])
    BY <1>0, <1>4, FlatType, Zenon
  <2> QED BY <2>2, <2>3, Zenon
<1>6. ASSUME NEW p \in Q, NEW q \in Q, NEW y, y \in P[p], y \in P[q]
      PROVE  p = q
  <2>1. PICK c \in DOMAIN a, d \in DOMAIN a : p = <<c, d>>
    BY <1>3, Zenon
  <2>2. PICK e \in DOMAIN a, h \in DOMAIN a : q = <<e, h>>
    BY <1>3, Zenon
  <2>3. y \in orig[c] \X orig[d] /\ y \in orig[e] \X orig[h]
    BY <1>2, <1>6, <2>1, <2>2
  <2>4. y[1] \in orig[c] \cap orig[e] /\ y[2] \in orig[d] \cap orig[h]
    BY <2>3
  <2>5. c = e /\ d = h
    BY <2>4, Zenon DEF CoarseOf, Partition
  <2> QED BY <2>1, <2>2, <2>5, Zenon
<1>7. ASSUME NEW y
      PROVE  y \in U <=> \E p \in Q : y \in P[p]
  <2>1. ASSUME y \in U
        PROVE  \E p \in Q : y \in P[p]
    <3>1. PICK c \in DOMAIN a, d \in DOMAIN a : <<c, d>> \in Q /\ y \in orig[c] \X orig[d]
      BY <1>a, <2>1, Zenon
    <3> QED BY <1>2, <3>1
  <2>2. ASSUME NEW p \in Q, y \in P[p]
        PROVE  y \in U
    <3>1. PICK c \in DOMAIN a, d \in DOMAIN a : p = <<c, d>>
      BY <1>3, Zenon
    <3>2. <<c, d>> \in Q /\ y \in orig[c] \X orig[d]
      BY <1>2, <2>2, <3>1
    <3> QED BY <1>a, <3>2, Zenon
  <2> QED BY <2>1, <2>2, Zenon
<1>8. IsFiniteSet(Q)
  <2>1. IsFiniteSet((DOMAIN a) \X (DOMAIN a))
    BY <1>0, FlatType, Zenon
  <2> QED BY <1>a, <2>1, FS_Subset, Zenon
<1>9. Tiled(U, P, Q)
  <2>1. \A p, q \in Q : p # q => P[p] \cap P[q] = {}
    BY <1>6, Zenon
  <2> QED BY <1>5, <1>7, <1>8, <2>1, Zenon DEF Tiled
<1>10. \A y \in U : f[y] \in Nat
  <2> TAKE y \in U
  <2>1. PICK c \in DOMAIN a, d \in DOMAIN a : y \in orig[c] \X orig[d]
    BY <1>a, Zenon
  <2>2. y \in (DOMAIN g) \X (DOMAIN g)
    BY <1>4, <2>1
  <2> QED BY <2>2, Zenon
<1> QED BY <1>5, <1>9, <1>10, TotalOfParts

\* The weights of a coarse graph are such sums.
LEMMA CoarseBlocks ==
  ASSUME NEW g, NEW a, NEW orig, NEW w, CoarseOf(g, a, orig, w), NEW Q
  PROVE  BlockSums(Flat(a), Flat(g), Q, a, orig)
<1> SUFFICES ASSUME NEW c \in DOMAIN a, NEW d \in DOMAIN a
             PROVE  Flat(a)[<<c, d>>] = Total(Flat(g), orig[c] \X orig[d])
  BY Zenon DEF BlockSums
<1>1. Square(a)
  BY CoarseSquare, Zenon
<1>2. Flat(a)[<<c, d>>] = a[c][d]
  BY <1>1, FlatType, Zenon
<1> QED BY <1>2, Zenon DEF CoarseOf, Partition

\* The weighted degree of a node is the sum of its row in the coarse graph.
LEMMA CoarseRows ==
  ASSUME NEW g, NEW a, NEW orig, NEW w, CoarseOf(g, a, orig, w)
  PROVE  w = RowSums(a)
<1>0. Square(a) /\ Square(g)
  BY CoarseSquare, Zenon
<1>1. ASSUME NEW c \in DOMAIN a
      PROVE  Total(a[c], DOMAIN a[c]) = Total(Flat(g), orig[c] \X DOMAIN g)
  <2>1. PICK Q, U, F, f : Q = {c} \X DOMAIN a /\ U = orig[c] \X DOMAIN g
                          /\ F = Flat(a) /\ f = Flat(g)
    BY Zenon
  <2>2. Q \in SUBSET ((DOMAIN a) \X (DOMAIN a))
    BY <2>1
  <2>3. \A p \in (DOMAIN g) \X (DOMAIN g) : f[p] \in Nat
    BY <1>0, <2>1, FlatType, Zenon
  <2>4. BlockSums(F, f, Q, a, orig)
    BY <2>1, CoarseBlocks, Zenon
  <2>5. ASSUME NEW y
        PROVE  y \in U <=> \E d, e \in DOMAIN a : <<d, e>> \in Q /\ y \in orig[d] \X orig[e]
    <3>1. ASSUME y \in U
          PROVE  \E d, e \in DOMAIN a : <<d, e>> \in Q /\ y \in orig[d] \X orig[e]
      <4>1. PICK u \in orig[c], v \in DOMAIN g : y = <<u, v>>
        BY <2>1, <3>1
      <4>2. PICK e \in DOMAIN a : v \in orig[e]
        BY Zenon DEF CoarseOf, Partition
      <4>3. <<c, e>> \in Q /\ y \in orig[c] \X orig[e]
        BY <2>1, <4>1, <4>2
      <4> QED BY <4>3, Zenon
    <3>2. ASSUME NEW d \in DOMAIN a, NEW e \in DOMAIN a,
                 <<d, e>> \in Q, y \in orig[d] \X orig[e]
          PROVE  y \in U
      <4>1. d = c
        BY <2>1, <3>2
      <4>2. orig[e] \in SUBSET DOMAIN g
        BY Zenon DEF CoarseOf, Partition
      <4> QED BY <2>1, <3>2, <4>1, <4>2
    <3> QED BY <3>1, <3>2, Zenon
  <2>6. Total(F, Q) = Total(f, U)
    <3>1. Blocks(U, Q, a, orig)
      BY <2>2, <2>5, Zenon DEF Blocks
    <3> QED BY <2>3, <2>4, <3>1, BlockTotals
  <2>7. PICK V : V = DOMAIN a
    BY Zenon
  <2>8. V \in SUBSET DOMAIN a /\ DOMAIN a[c] = V
    BY <2>7, Zenon DEF CoarseOf, Partition
  <2>9. Total(a[c], V) = Total(Flat(a), {c} \X V)
    BY <1>0, <2>8, RowIsFlat
  <2> QED BY <2>1, <2>6, <2>7, <2>8, <2>9, Zenon
<1> QED BY <1>1, Zenon DEF CoarseOf, Partition, RowSums

\* A sum of one summand.
LEMMA TotalSingle ==
  ASSUME NEW f, NEW x, f[x] \in Nat
  PROVE  Total(f, {x}) = f[x]
<1>1. PICK T, n : T = {x} \X (1..n) /\ n = f[x]
  BY Zenon
<1>2. Marks(f, {x}) = T
  BY <1>1 DEF Marks
<1>3. Cardinality(T) = f[x]
  BY <1>1, UnitMarks, Zenon
<1> QED BY <1>2, <1>3, Zenon DEF Total, Marks

\* The graph of level 0 stands for itself.
LEMMA SingletonCoarse ==
  ASSUME NEW g, Weighted(g)
  PROVE  CoarseOf(g, g, [u \in DOMAIN g |-> {u}], RowSums(g))
<1>0. Square(g)
  BY Zenon DEF Weighted
<1>1. PICK orig : orig = [u \in DOMAIN g |-> {u}]
  BY Zenon
<1>2. \A u \in DOMAIN g : orig[u] = {u}
  BY <1>1, Zenon
<1>3. \E m \in Nat : DOMAIN g = 0..(m - 1)
  BY <1>0, Zenon DEF Square
<1>4. \A c \in DOMAIN g : DOMAIN g[c] = DOMAIN g
  BY <1>0, Zenon DEF Square
<1>5. ASSUME NEW c \in DOMAIN g, NEW d \in DOMAIN g
      PROVE  g[c][d] = Total(Flat(g), orig[c] \X orig[d])
  <2>1. PICK f, D : f = g[c] /\ D = {d}
    BY Zenon
  <2>2. D \in SUBSET DOMAIN g /\ f[d] \in Nat
    BY <1>0, <2>1, Zenon DEF Square
  <2>3. Total(g[c], D) = Total(Flat(g), {c} \X D)
    BY <1>0, <2>2, RowIsFlat
  <2>4. Total(f, {d}) = f[d]
    BY <2>2, TotalSingle, Zenon
  <2> QED BY <1>2, <2>1, <2>3, <2>4, Zenon
<1>6. ASSUME NEW c \in DOMAIN g
      PROVE  Total(g[c], DOMAIN g[c]) = Total(Flat(g), orig[c] \X DOMAIN g)
  <2>1. PICK V : V = DOMAIN g
    BY Zenon
  <2>2. V \in SUBSET DOMAIN g
    BY <2>1, Zenon
  <2>3. Total(g[c], V) = Total(Flat(g), {c} \X V)
    BY <1>0, <2>2, RowIsFlat
  <2> QED BY <1>2, <1>4, <2>1, <2>3, Zenon
<1>7. RowSums(g) = [c \in DOMAIN g |-> Total(Flat(g), orig[c] \X DOMAIN g)]
  BY <1>6, Zenon DEF RowSums
<1>8. /\ \A c \in DOMAIN g : orig[c] # {} /\ orig[c] \in SUBSET DOMAIN g
      /\ \A v \in DOMAIN g : \E c \in DOMAIN g : v \in orig[c]
      /\ \A c, d \in DOMAIN g : c # d => orig[c] \cap orig[d] = {}
  BY <1>2
<1>9. CoarseOf(g, g, orig, RowSums(g))
  BY <1>3, <1>4, <1>5, <1>7, <1>8, Zenon DEF CoarseOf, Partition
<1> QED BY <1>1, <1>9, Zenon

\* Every community 0..n-1 has one of the nodes V, and every node is in one.
Onto(part, V, n) ==
  /\ n \in Nat /\ part \in [V -> 0..(n - 1)]
  /\ \A c \in 0..(n - 1) : \E u \in V : part[u] = c

\* X is the union of the sets orig[u], u in C.
UnionOf(X, orig, C) == \A v : v \in X <=> \E u \in C : v \in orig[u]

\* The vertices and the weighted degrees of the nodes that become one node.
MergedSets(orig, part, n) ==
  [c \in 0..(n - 1) |-> UNION {orig[u] : u \in Members(c, part)}]

MergedSums(w, part, n) == [c \in 0..(n - 1) |-> Total(w, Members(c, part))]

\* The merged nodes partition the vertices as the nodes did.
LEMMA MergedVertices ==
  ASSUME NEW g, NEW a, NEW orig, NEW w, CoarseOf(g, a, orig, w),
         NEW n, NEW part, Onto(part, DOMAIN a, n),
         NEW big, big = MergedSets(orig, part, n)
  PROVE  /\ Partition(big, 0..(n - 1), DOMAIN g)
         /\ \A c \in 0..(n - 1) : /\ Members(c, part) \in SUBSET DOMAIN a
                                  /\ UnionOf(big[c], orig, Members(c, part))
<1>0. /\ part \in [DOMAIN a -> 0..(n - 1)]
      /\ \A c \in 0..(n - 1) : \E u \in DOMAIN a : part[u] = c
  BY Zenon DEF Onto
<1>1. \A c, u : u \in Members(c, part) <=> u \in DOMAIN a /\ part[u] = c
  BY <1>0 DEF Members
<1>2. ASSUME NEW c \in 0..(n - 1), NEW v
      PROVE  v \in big[c] <=> \E u \in DOMAIN a : part[u] = c /\ v \in orig[u]
  <2>1. v \in big[c] <=> \E u \in Members(c, part) : v \in orig[u]
    BY Zenon DEF MergedSets
  <2> QED BY <1>1, <2>1, Zenon
<1>3. /\ \A c \in DOMAIN a : orig[c] # {} /\ orig[c] \in SUBSET DOMAIN g
      /\ \A v \in DOMAIN g : \E c \in DOMAIN a : v \in orig[c]
      /\ \A c, d \in DOMAIN a : c # d => orig[c] \cap orig[d] = {}
  BY Zenon DEF CoarseOf, Partition
<1>4. ASSUME NEW c \in 0..(n - 1)
      PROVE  big[c] # {} /\ big[c] \in SUBSET DOMAIN g
  <2>1. PICK u \in DOMAIN a : part[u] = c
    BY <1>0, Zenon
  <2>2. PICK v : v \in orig[u]
    BY <1>3, Zenon
  <2>3. v \in big[c]
    BY <1>2, <2>1, <2>2, Zenon
  <2>4. \A y \in big[c] : y \in DOMAIN g
    BY <1>2, <1>3, Zenon
  <2> QED BY <2>3, <2>4, Zenon
<1>5. ASSUME NEW v \in DOMAIN g
      PROVE  \E c \in 0..(n - 1) : v \in big[c]
  <2>1. PICK u \in DOMAIN a : v \in orig[u]
    BY <1>3, Zenon
  <2>2. part[u] \in 0..(n - 1)
    BY <1>0, Zenon
  <2> QED BY <1>2, <2>1, <2>2, Zenon
<1>6. ASSUME NEW c \in 0..(n - 1), NEW d \in 0..(n - 1), NEW v, v \in big[c], v \in big[d]
      PROVE  c = d
  <2>1. PICK u \in DOMAIN a : part[u] = c /\ v \in orig[u]
    BY <1>2, <1>6, Zenon
  <2>0. v \in big[d]
    BY <1>6
  <2>2. PICK x \in DOMAIN a : part[x] = d /\ v \in orig[x]
    BY <1>2, <2>0, Zenon
  <2>3. u = x
    BY <1>3, <2>1, <2>2, Zenon
  <2> QED BY <2>1, <2>2, <2>3, Zenon
<1>7. \A c, d \in 0..(n - 1) : c # d => big[c] \cap big[d] = {}
  BY <1>6, Zenon
<1>8. Partition(big, 0..(n - 1), DOMAIN g)
  BY <1>4, <1>5, <1>7, Zenon DEF Partition
<1>9. \A c \in 0..(n - 1) : Members(c, part) \in SUBSET DOMAIN a
  BY <1>1, Zenon
<1>10. \A c \in 0..(n - 1) : UnionOf(big[c], orig, Members(c, part))
  BY <1>1, <1>2, Zenon DEF UnionOf
<1> QED BY <1>8, <1>9, <1>10, Zenon

\* The weight between two sets of nodes is the weight between their vertices.
LEMMA MergedWeight ==
  ASSUME NEW g, NEW a, NEW orig, NEW w, CoarseOf(g, a, orig, w),
         NEW C \in SUBSET DOMAIN a, NEW D \in SUBSET DOMAIN a,
         NEW X, UnionOf(X, orig, C), NEW Y, UnionOf(Y, orig, D)
  PROVE  /\ WeightBetween(a, C, D) = Total(Flat(g), X \X Y)
         /\ WeightBetween(a, D, C) = Total(Flat(g), X \X Y)
<1>0. Square(a) /\ Square(g) /\ Weighted(a)
  BY CoarseSquare, Zenon
<1>1. PICK Q, U, F, f : Q = C \X D /\ U = X \X Y /\ F = Flat(a) /\ f = Flat(g)
  BY Zenon
<1>2. Blocks(U, Q, a, orig)
  <2>1. Q \in SUBSET ((DOMAIN a) \X (DOMAIN a))
    BY <1>1
  <2>2. ASSUME NEW y \in U
        PROVE  \E c, d \in DOMAIN a : <<c, d>> \in Q /\ y \in orig[c] \X orig[d]
    <3>1. PICK s \in X, t \in Y : y = <<s, t>>
      BY <1>1
    <3>2. PICK c \in C : s \in orig[c]
      BY <3>1, Zenon DEF UnionOf
    <3>3. PICK d \in D : t \in orig[d]
      BY <3>1, Zenon DEF UnionOf
    <3>4. c \in DOMAIN a /\ d \in DOMAIN a
      BY Zenon
    <3>5. <<c, d>> \in Q /\ y \in orig[c] \X orig[d]
      BY <1>1, <3>1, <3>2, <3>3
    <3> QED BY <3>4, <3>5, Zenon
  <2>3. ASSUME NEW c \in DOMAIN a, NEW d \in DOMAIN a, <<c, d>> \in Q,
               NEW y \in orig[c] \X orig[d]
        PROVE  y \in U
    <3>1. PICK s \in orig[c], t \in orig[d] : y = <<s, t>>
      OBVIOUS
    <3>2. c \in C /\ d \in D
      BY <1>1, <2>3
    <3>3. s \in X /\ t \in Y
      BY <3>1, <3>2, Zenon DEF UnionOf
    <3> QED BY <1>1, <3>1, <3>3
  <2> QED BY <2>1, <2>2, <2>3, Zenon DEF Blocks
<1>3. BlockSums(F, f, Q, a, orig)
  BY <1>1, CoarseBlocks, Zenon
<1>4. \A p \in (DOMAIN g) \X (DOMAIN g) : f[p] \in Nat
  BY <1>0, <1>1, FlatType, Zenon
<1>5. Total(F, Q) = Total(f, U)
  BY <1>2, <1>3, <1>4, BlockTotals
<1>6. WeightBetween(a, C, D) = Total(Flat(a), C \X D)
  BY <1>0, BetweenIsFlat
<1>7. WeightBetween(a, C, D) = WeightBetween(a, D, C)
  BY <1>0, BetweenSymmetric, Zenon
<1> QED BY <1>1, <1>5, <1>6, <1>7, Zenon

\* The coarse graph of a coarse graph is a coarse graph of the same vertices.
LEMMA MergedCoarse ==
  ASSUME NEW g, NEW a, NEW orig, NEW w, CoarseOf(g, a, orig, w),
         NEW n, NEW part, Onto(part, DOMAIN a, n),
         NEW b, DOMAIN b = 0..(n - 1), \A c \in 0..(n - 1) : DOMAIN b[c] = 0..(n - 1),
         \A c, d \in 0..(n - 1) :
           \/ b[c][d] = WeightBetween(a, Members(c, part), Members(d, part))
           \/ b[c][d] = WeightBetween(a, Members(d, part), Members(c, part)),
         NEW big, big = MergedSets(orig, part, n), NEW z, z = MergedSums(w, part, n)
  PROVE  CoarseOf(g, b, big, z)
<1>0. Square(a) /\ Square(g) /\ Weighted(g)
  BY CoarseSquare, Zenon
<1>1. /\ Partition(big, 0..(n - 1), DOMAIN g)
      /\ \A c \in 0..(n - 1) : /\ Members(c, part) \in SUBSET DOMAIN a
                               /\ UnionOf(big[c], orig, Members(c, part))
  BY MergedVertices
<1>3. ASSUME NEW c \in 0..(n - 1), NEW d \in 0..(n - 1)
      PROVE  b[c][d] = Total(Flat(g), big[c] \X big[d])
  <2>1. PICK C, D, X, Y : /\ C = Members(c, part) /\ D = Members(d, part)
                          /\ X = big[c] /\ Y = big[d]
    BY Zenon
  <2>2. /\ C \in SUBSET DOMAIN a /\ D \in SUBSET DOMAIN a
        /\ UnionOf(X, orig, C) /\ UnionOf(Y, orig, D)
    BY <1>1, <2>1, Zenon
  <2>3. /\ WeightBetween(a, C, D) = Total(Flat(g), X \X Y)
        /\ WeightBetween(a, D, C) = Total(Flat(g), X \X Y)
    BY <2>2, MergedWeight
  <2>4. b[c][d] = WeightBetween(a, C, D) \/ b[c][d] = WeightBetween(a, D, C)
    BY <2>1, Zenon
  <2> QED BY <2>1, <2>3, <2>4, Zenon
<1>4. ASSUME NEW c \in 0..(n - 1)
      PROVE  Total(w, Members(c, part)) = Total(Flat(g), big[c] \X DOMAIN g)
  <2>1. PICK C, X, f : C = Members(c, part) /\ X = big[c] /\ f = Flat(g)
    BY Zenon
  <2>2. /\ C \in SUBSET DOMAIN a
        /\ \A v : v \in X <=> \E u \in C : v \in orig[u]
    BY <1>1, <2>1, Zenon DEF UnionOf
  <2>3. PICK P : P = [u \in C |-> orig[u] \X DOMAIN g]
    BY Zenon
  <2>4. \A u \in C : P[u] = orig[u] \X DOMAIN g
    BY <2>3, Zenon
  <2>5. \A u \in C : w[u] = Total(f, P[u])
    BY <2>1, <2>2, <2>4, Zenon DEF CoarseOf, Partition
  <2>6. \A u \in C : orig[u] \in SUBSET DOMAIN g
    BY <2>2, Zenon DEF CoarseOf, Partition
  <2>7. \A u, v \in C : u # v => orig[u] \cap orig[v] = {}
    BY <2>2, Zenon DEF CoarseOf, Partition
  <2>8. Tiled(X \X DOMAIN g, P, C)
    <3>1. IsFiniteSet(C)
      BY <1>0, <2>2, FlatType, Zenon
    <3>2. \A u \in C : IsFiniteSet(P[u])
      <4>1. PICK V : V = DOMAIN g
        BY Zenon
      <4>2. V \in SUBSET DOMAIN g
        BY <4>1, Zenon
      <4>3. \A u \in C : IsFiniteSet(orig[u] \X V)
        BY <1>0, <2>6, <4>2, FlatType, Zenon
      <4> QED BY <2>4, <4>1, <4>3, Zenon
    <3>3. \A u, v \in C : u # v => P[u] \cap P[v] = {}
      BY <2>4, <2>7
    <3>4. \A y : y \in X \X DOMAIN g <=> \E u \in C : y \in P[u]
      BY <2>2, <2>4
    <3> QED BY <3>1, <3>2, <3>3, <3>4, Zenon DEF Tiled
  <2>9. \A y \in X \X DOMAIN g : f[y] \in Nat
    <3>1. X \X DOMAIN g \subseteq (DOMAIN g) \X (DOMAIN g)
      BY <1>1, <2>1 DEF Partition
    <3> QED BY <1>0, <2>1, <3>1, FlatType, Zenon
  <2>10. Total(w, C) = Total(f, X \X DOMAIN g)
    BY <2>5, <2>8, <2>9, TotalOfParts
  <2> QED BY <2>1, <2>10, Zenon
<1>5. z = [c \in DOMAIN b |-> Total(Flat(g), big[c] \X DOMAIN g)]
  BY <1>4, Zenon DEF MergedSums
<1>6. \E m \in Nat : DOMAIN b = 0..(m - 1)
  BY Zenon DEF Onto
<1>7. Partition(big, DOMAIN b, DOMAIN g) /\ \A c \in DOMAIN b : DOMAIN b[c] = DOMAIN b
  BY <1>1, Zenon
<1>8. \A c, d \in DOMAIN b : b[c][d] = Total(Flat(g), big[c] \X big[d])
  BY <1>3, Zenon
<1> QED BY <1>0, <1>5, <1>6, <1>7, <1>8, Zenon DEF CoarseOf

-----------------------------------------------------------------------------
(* Contiguous numbers.                                                     *)

\* The size of 0..n-1.
LEMMA IntervalSize ==
  ASSUME NEW n \in Nat
  PROVE  IsFiniteSet(0..(n - 1)) /\ Cardinality(0..(n - 1)) = n
<1>1. 0 \in Int /\ n - 1 \in Int
  OBVIOUS
<1>2. /\ IsFiniteSet(0..(n - 1))
      /\ Cardinality(0..(n - 1)) = IF 0 > n - 1 THEN 0 ELSE (n - 1) - 0 + 1
  BY <1>1, FS_Interval, Zenon
<1>3. (IF 0 > n - 1 THEN 0 ELSE (n - 1) - 0 + 1) = n
  OBVIOUS
<1> QED BY <1>2

\* How many elements of F come before x.
RankIn(F, x) == Cardinality({y \in F : y < x})

\* The ranks of n numbers are 0..n-1.
LEMMA RanksOnto ==
  ASSUME NEW F \in SUBSET Nat, IsFiniteSet(F), NEW n, n = Cardinality(F)
  PROVE  /\ n \in Nat
         /\ \A x \in F : RankIn(F, x) \in 0..(n - 1)
         /\ \A k \in 0..(n - 1) : \E x \in F : RankIn(F, x) = k
<1>1. n \in Nat
  BY FS_CardinalityType, Zenon
<1>2. ASSUME NEW x \in F
      PROVE  /\ IsFiniteSet({y \in F : y < x}) /\ RankIn(F, x) \in Nat
             /\ RankIn(F, x) <= n - 1
  <2>1. PICK L : L = {y \in F : y < x}
    BY Zenon
  <2>0. PICK G : G = F \ {x}
    BY Zenon
  <2>2. L \in SUBSET G
    BY <2>0, <2>1
  <2>3. IsFiniteSet(G) /\ Cardinality(G) = n - 1
    BY <2>0, FS_RemoveElement, Zenon
  <2>4. IsFiniteSet(L) /\ Cardinality(L) <= n - 1
    BY <2>2, <2>3, FS_Subset, Zenon
  <2>5. Cardinality(L) \in Nat
    BY <2>4, FS_CardinalityType, Zenon
  <2> QED BY <2>1, <2>4, <2>5, Zenon DEF RankIn
<1>3. ASSUME NEW x \in F, NEW y \in F, x < y
      PROVE  RankIn(F, x) < RankIn(F, y)
  <2>1. PICK L, M : L = {z \in F : z < x} /\ M = {z \in F : z < y}
    BY Zenon
  <2>2. x \in Nat /\ y \in Nat /\ \A z \in F : z \in Nat
    OBVIOUS
  <2>3. L \in SUBSET (M \ {x}) /\ x \in M
    <3>1. \A z \in L : z \in F /\ z < x
      BY <2>1, Zenon
    <3>2. ASSUME NEW z \in L
          PROVE  z < y /\ z # x
      <4>1. z \in Nat /\ z < x
        BY <2>2, <3>1, Zenon
      <4> QED BY <1>3, <2>2, <4>1
    <3> QED BY <1>3, <2>1, <3>1, <3>2, Zenon
  <2>4. IsFiniteSet(M) /\ Cardinality(M) \in Nat
    BY <1>2, <2>1, FS_CardinalityType, Zenon
  <2>5. IsFiniteSet(M \ {x}) /\ Cardinality(M \ {x}) = Cardinality(M) - 1
    BY <2>3, <2>4, FS_RemoveElement, Zenon
  <2>6. Cardinality(L) <= Cardinality(M) - 1
    <3>1. PICK N : N = M \ {x}
      BY Zenon
    <3>2. IsFiniteSet(N) /\ L \in SUBSET N /\ Cardinality(N) = Cardinality(M) - 1
      BY <2>3, <2>5, <3>1, Zenon
    <3>3. Cardinality(L) <= Cardinality(N)
      BY <3>2, FS_Subset, Zenon
    <3> QED BY <3>2, <3>3, Zenon
  <2>7. Cardinality(L) \in Nat
    BY <1>2, <2>1, Zenon DEF RankIn
  <2>8. Cardinality(L) < Cardinality(M)
    BY <2>4, <2>6, <2>7
  <2> QED BY <2>1, <2>8, Zenon DEF RankIn
<1>4. ASSUME NEW x \in F
      PROVE  RankIn(F, x) \in 0..(n - 1)
  <2>1. PICK k : k = RankIn(F, x)
    BY Zenon
  <2>2. k \in Nat /\ k <= n - 1
    BY <1>2, <2>1, Zenon
  <2>3. k \in 0..(n - 1)
    BY <1>1, <2>2
  <2> QED BY <2>1, <2>3, Zenon
<1>5. PICK r : r = [x \in F |-> RankIn(F, x)]
  BY Zenon
<1>6. r \in [F -> 0..(n - 1)]
  BY <1>4, <1>5, Zenon
<1>7. ASSUME NEW x \in F, NEW y \in F, r[x] = r[y]
      PROVE  x = y
  <2>1. RankIn(F, x) = RankIn(F, y) /\ RankIn(F, x) \in Nat
    BY <1>2, <1>5, <1>7, Zenon
  <2>2. ~(x < y) /\ ~(y < x)
    BY <1>3, <2>1
  <2> QED BY <2>2
<1>8. r \in Injection(F, 0..(n - 1))
  BY <1>6, <1>7, Zenon DEF Injection, IsInjective
<1>9. IsFiniteSet(0..(n - 1)) /\ Cardinality(0..(n - 1)) = n
  BY <1>1, IntervalSize, Zenon
<1>10. r \in Surjection(F, 0..(n - 1))
  BY <1>8, <1>9, FS_Injection
<1>11. \A k \in 0..(n - 1) : \E x \in F : r[x] = k
  BY <1>10, Zenon DEF Surjection
<1> QED BY <1>1, <1>4, <1>5, <1>11, Zenon

\* A set of natural numbers that is not empty has a smallest element.
LEMMA SmallestNumber ==
  ASSUME NEW T, T \subseteq Nat, T # {}
  PROVE  \E x \in T : \A y \in T : x <= y
<1>1. PICK x \in T : \A y \in T : ~(<<y, x>> \in OpToRel(<, Nat))
  BY NatLessThanWellFounded, WFMin, Zenon
<1>2. ASSUME NEW y \in T
      PROVE  x <= y
  <2>1. x \in Nat /\ y \in Nat
    OBVIOUS
  <2>2. ~(y < x)
    BY <1>1, <2>1, Zenon DEF OpToRel
  <2> QED BY <2>1, <2>2
<1> QED BY <1>2

\* comm_remap numbers the communities 0..n-1.
LEMMA RenumberedOnto ==
  ASSUME NEW part, NEW m \in Nat, DOMAIN part = 0..(m - 1),
         NEW n, n = Cardinality({part[u] : u \in DOMAIN part})
  PROVE  Onto(Renumbered(part), DOMAIN part, n)
<1>1. PICK V : V = DOMAIN part
  BY Zenon
<1>2. IsFiniteSet(V) /\ \A u \in V : u \in Nat
  BY <1>1, FS_Interval
<1>3. PICK fst : fst = [u \in V |-> Min(Members(part[u], part))]
  BY Zenon
<1>4. ASSUME NEW u \in V
      PROVE  fst[u] \in V /\ part[fst[u]] = part[u]
  <2>1. PICK T : T = Members(part[u], part)
    BY Zenon
  <2>2. T \subseteq Nat /\ T # {}
    BY <1>1, <1>2, <2>1 DEF Members
  <2>3. \E x \in T : \A y \in T : x <= y
    BY <2>2, SmallestNumber, Zenon
  <2>4. Min(T) \in T
    BY <2>3, Zenon DEF Min
  <2>5. fst[u] \in Members(part[u], part)
    BY <1>3, <2>1, <2>4, Zenon
  <2> QED BY <1>1, <2>5, Zenon DEF Members
<1>5. \A u, v \in V : part[u] = part[v] => fst[u] = fst[v]
  BY <1>3, Zenon
<1>6. PICK F : F = {fst[u] : u \in V}
  BY Zenon
<1>7. F \in SUBSET Nat /\ IsFiniteSet(F)
  <2>1. \A x \in F : \E u \in V : x = fst[u]
    BY <1>6, Zenon
  <2>2. IsFiniteSet(F)
    BY <1>2, <2>1, FiniteRange, Zenon
  <2> QED BY <1>2, <1>4, <2>1, <2>2, Zenon
<1>8. n = Cardinality(F)
  <2>1. PICK R, h : R = {part[u] : u \in V} /\ h = [x \in F |-> part[x]]
    BY Zenon
  <2>2. IsFiniteSet(R)
    <3>1. \A y \in R : \E u \in V : y = part[u]
      BY <2>1, Zenon
    <3> QED BY <1>2, <3>1, FiniteRange, Zenon
  <2>3. h \in [F -> R]
    BY <1>4, <1>6, <2>1
  <2>4. ASSUME NEW x \in F, NEW y \in F, h[x] = h[y]
        PROVE  x = y
    <3>1. PICK u \in V : x = fst[u]
      BY <1>6, Zenon
    <3>2. PICK v \in V : y = fst[v]
      BY <1>6, Zenon
    <3>3. part[x] = part[u] /\ part[y] = part[v] /\ part[x] = part[y]
      BY <1>4, <2>1, <2>4, <3>1, <3>2
    <3> QED BY <1>5, <3>1, <3>2, <3>3
  <2>5. ASSUME NEW y \in R
        PROVE  \E x \in F : h[x] = y
    <3>1. PICK u \in V : y = part[u]
      BY <2>1, Zenon
    <3>2. fst[u] \in F /\ part[fst[u]] = y
      BY <1>4, <1>6, <3>1, Zenon
    <3> QED BY <2>1, <3>2, Zenon
  <2>6. h \in Injection(F, R) /\ h \in Surjection(F, R)
    BY <2>3, <2>4, <2>5, Zenon DEF Injection, Surjection, IsInjective
  <2>7. Cardinality(F) = Cardinality(R)
    BY <2>2, <2>6, FS_Injection, Zenon
  <2> QED BY <1>1, <2>1, <2>7, Zenon
<1>9. /\ n \in Nat
      /\ \A x \in F : RankIn(F, x) \in 0..(n - 1)
      /\ \A k \in 0..(n - 1) : \E x \in F : RankIn(F, x) = k
  BY <1>7, <1>8, RanksOnto
<1>10. Renumbered(part) = [u \in V |-> RankIn(F, fst[u])]
  <2>1. Renumbered(part) =
          [u \in V |-> Cardinality({fst[v] : v \in {x \in V : fst[x] < fst[u]}})]
    BY <1>1, <1>3, Zenon DEF Renumbered
  <2>2. \A u \in V : {fst[v] : v \in {x \in V : fst[x] < fst[u]}} = {y \in F : y < fst[u]}
    BY <1>6, Zenon
  <2> QED BY <2>1, <2>2, Zenon DEF RankIn
<1>11. \A u \in V : fst[u] \in F
  BY <1>6, Zenon
<1>12. Renumbered(part) \in [V -> 0..(n - 1)]
  BY <1>9, <1>10, <1>11, Zenon
<1>13. ASSUME NEW c \in 0..(n - 1)
       PROVE  \E u \in V : Renumbered(part)[u] = c
  <2>1. PICK x \in F : RankIn(F, x) = c
    BY <1>9, Zenon
  <2>2. PICK u \in V : x = fst[u]
    BY <1>6, Zenon
  <2> QED BY <1>10, <2>1, <2>2, Zenon
<1> QED BY <1>1, <1>9, <1>12, <1>13, Zenon DEF Onto

-----------------------------------------------------------------------------
(* Modularity.                                                             *)

\* The ordered pairs of one community.
Together(V, part) == {p \in V \X V : part[p[1]] = part[p[2]]}

\* The expected weight of a pair, times 2m.
Expected(k, V) == [p \in V \X V |-> k[p[1]] * k[p[2]]]

\* The definition of the modularity, in these terms.
LEMMA ModularityByPairs ==
  ASSUME NEW g, NEW part, NEW T, T = Together(DOMAIN g, part)
  PROVE  Modularity(g, part) =
           two_m * Total(Flat(g), T) - resolution * Total(Expected(RowSums(g), DOMAIN g), T)
<1>1. PICK k : k = RowSums(g)
  BY Zenon
<1>2. PICK f, e : /\ f = [p \in T |-> g[p[1]][p[2]]]
                  /\ e = [p \in T |-> k[p[1]] * k[p[2]]]
  BY Zenon
<1>3. Modularity(g, part) = two_m * Total(f, T) - resolution * Total(e, T)
  BY <1>1, <1>2, Zenon DEF Modularity, Together
<1>4. \A p \in T : p \in (DOMAIN g) \X (DOMAIN g)
  BY Zenon DEF Together
<1>5. \A p \in T : f[p] = Flat(g)[p]
  BY <1>2, <1>4, Zenon DEF Flat
<1>6. \A p \in T : e[p] = Expected(k, DOMAIN g)[p]
  BY <1>2, <1>4, Zenon DEF Expected
<1>7. Total(f, T) = Total(Flat(g), T)
  BY <1>5, TotalSame, Zenon
<1>8. Total(e, T) = Total(Expected(k, DOMAIN g), T)
  BY <1>6, TotalSame, Zenon
<1> QED BY <1>1, <1>3, <1>7, <1>8, Zenon

\* Members of one community, and the pairs of it.
LEMMA TogetherMember ==
  ASSUME NEW V, NEW part, NEW u, NEW v
  PROVE  <<u, v>> \in Together(V, part) <=> u \in V /\ v \in V /\ part[u] = part[v]
BY DEF Together

\* The weight inside the communities, summed by rows.
LEMMA InnerByPairs ==
  ASSUME NEW g, Square(g), NEW part, DOMAIN part = DOMAIN g,
         NEW f, f = [u \in DOMAIN g |-> Total(g[u], Members(part[u], part))]
  PROVE  Total(f, DOMAIN g) = Total(Flat(g), Together(DOMAIN g, part))
<1>1. PICK V, T : V = DOMAIN g /\ T = Together(V, part)
  BY Zenon
<1>2. PICK P : P = [u \in V |-> {u} \X Members(part[u], part)]
  BY Zenon
<1>3. \A u \in V : P[u] = {u} \X Members(part[u], part)
  BY <1>2, Zenon
<1>4. \A c, u : u \in Members(c, part) <=> u \in V /\ part[u] = c
  BY <1>1 DEF Members
<1>5. ASSUME NEW u \in V
      PROVE  IsFiniteSet(P[u]) /\ f[u] = Total(Flat(g), P[u])
  <2>1. PICK C, D : C = Members(part[u], part) /\ D = {u}
    BY Zenon
  <2>2. C \in SUBSET DOMAIN g /\ D \in SUBSET DOMAIN g /\ u \in DOMAIN g
    BY <1>1, <1>4, <2>1, Zenon
  <2>3. Total(g[u], C) = Total(Flat(g), {u} \X C)
    BY <2>2, RowIsFlat
  <2>4. IsFiniteSet(D \X C)
    BY <2>2, FlatType, Zenon
  <2>5. f[u] = Total(g[u], C)
    BY <2>1, <2>2, Zenon
  <2> QED BY <1>3, <2>1, <2>3, <2>4, <2>5, Zenon
<1>6. Tiled(T, P, V)
  <2>1. \A u, v \in V : u # v => P[u] \cap P[v] = {}
    BY <1>3
  <2>2. ASSUME NEW y \in T
        PROVE  \E u \in V : y \in P[u]
    <3>1. PICK u \in V, v \in V : y = <<u, v>>
      BY <1>1 DEF Together
    <3>2. v \in Members(part[u], part)
      BY <1>1, <1>4, <3>1, TogetherMember
    <3> QED BY <1>3, <3>1, <3>2
  <2>3. ASSUME NEW u \in V, NEW y \in P[u]
        PROVE  y \in T
    <3>1. PICK v \in Members(part[u], part) : y = <<u, v>>
      BY <1>3
    <3>2. v \in V /\ part[u] = part[v]
      BY <1>4, Zenon
    <3>3. <<u, v>> \in Together(V, part)
      BY <3>2, TogetherMember, Zenon
    <3> QED BY <1>1, <3>1, <3>3, Zenon
  <2>4. IsFiniteSet(V)
    BY <1>1, FlatType, Zenon
  <2> QED BY <1>5, <2>1, <2>2, <2>3, <2>4, Zenon DEF Tiled
<1>7. \A p \in T : Flat(g)[p] \in Nat
  <2>1. T \subseteq (DOMAIN g) \X (DOMAIN g)
    BY <1>1, Zenon DEF Together
  <2> QED BY <2>1, FlatType, Zenon
<1>8. Total(f, V) = Total(Flat(g), T)
  BY <1>5, <1>6, <1>7, TotalOfParts
<1> QED BY <1>1, <1>8, Zenon

\* The squares of the communities' weights, by pairs.
LEMMA PenaltyByPairs ==
  ASSUME NEW V, IsFiniteSet(V), NEW k, \A u \in V : k[u] \in Nat,
         NEW part \in [V -> V],
         NEW t, t = AccumulateByComm(part, k),
         NEW f, f = [c \in DOMAIN t |-> t[c] * t[c]]
  PROVE  Total(f, DOMAIN t) = Total(Expected(k, V), Together(V, part))
<1>1. PICK T, E : T = Together(V, part) /\ E = Expected(k, V)
  BY Zenon
<1>2. PICK P : P = [c \in V |-> Members(c, part) \X Members(c, part)]
  BY Zenon
<1>3. \A c \in V : P[c] = Members(c, part) \X Members(c, part)
  BY <1>2, Zenon
<1>4. \A c, u : u \in Members(c, part) <=> u \in V /\ part[u] = c
  BY DEF Members
<1>5. \A u, v \in V : E[<<u, v>>] = k[u] * k[v]
  BY <1>1 DEF Expected
<1>6. DOMAIN t = V /\ \A c \in V : t[c] = Total(k, Members(c, part))
  <2>1. DOMAIN part = V
    BY Zenon
  <2> QED BY <2>1, Zenon DEF AccumulateByComm
<1>7. ASSUME NEW c \in V
      PROVE  IsFiniteSet(P[c]) /\ f[c] = Total(E, P[c])
  <2>1. PICK C : C = Members(c, part)
    BY Zenon
  <2>2. C \in SUBSET V
    BY <1>4, <2>1, Zenon
  <2>3. IsFiniteSet(C)
    BY <2>2, FS_Subset, Zenon
  <2>4. /\ \A u \in C : k[u] \in Nat
        /\ \A u \in C, v \in C : E[<<u, v>>] = k[u] * k[v]
    BY <1>5, <2>2, Zenon
  <2>5. Total(E, C \X C) = Total(k, C) * Total(k, C)
    BY <2>3, <2>4, TotalProduct
  <2>6. IsFiniteSet(C \X C)
    BY <2>3, FS_Product, Zenon
  <2>7. f[c] = Total(k, C) * Total(k, C)
    BY <1>6, <2>1, Zenon
  <2> QED BY <1>3, <2>1, <2>5, <2>6, <2>7, Zenon
<1>8. Tiled(T, P, V)
  <2>1. \A c, d \in V : c # d => P[c] \cap P[d] = {}
    <3>1. \A c, d \in V : c # d => Members(c, part) \cap Members(d, part) = {}
      BY <1>4, Zenon
    <3> QED BY <1>3, <3>1
  <2>2. ASSUME NEW y \in T
        PROVE  \E c \in V : y \in P[c]
    <3>1. PICK u \in V, v \in V : y = <<u, v>>
      BY <1>1 DEF Together
    <3>2. part[u] \in V /\ part[u] = part[v]
      BY <1>1, <3>1, TogetherMember
    <3>3. u \in Members(part[u], part) /\ v \in Members(part[u], part)
      BY <1>4, <3>2, Zenon
    <3> QED BY <1>3, <3>1, <3>2, <3>3
  <2>3. ASSUME NEW c \in V, NEW y \in P[c]
        PROVE  y \in T
    <3>1. PICK u \in Members(c, part), v \in Members(c, part) : y = <<u, v>>
      BY <1>3
    <3>2. u \in V /\ v \in V /\ part[u] = part[v]
      BY <1>4, Zenon
    <3>3. <<u, v>> \in Together(V, part)
      BY <3>2, TogetherMember, Zenon
    <3> QED BY <1>1, <3>1, <3>3, Zenon
  <2> QED BY <1>7, <2>1, <2>2, <2>3, Zenon DEF Tiled
<1>9. \A p \in T : E[p] \in Nat
  <2> TAKE p \in T
  <2>1. PICK u \in V, v \in V : p = <<u, v>>
    BY <1>1 DEF Together
  <2>2. k[u] \in Nat /\ k[v] \in Nat
    BY Zenon
  <2>3. k[u] * k[v] \in Nat
    BY <2>2
  <2> QED BY <1>5, <2>1, <2>3
<1>10. Total(f, V) = Total(E, T)
  <2>1. \A c \in V : f[c] = Total(E, P[c])
    BY <1>7, Zenon
  <2> QED BY <1>8, <1>9, <2>1, TotalOfParts
<1> QED BY <1>1, <1>6, <1>10, Zenon

\* The weighted degrees, and their sum over a set of vertices.
LEMMA DegreeTotals ==
  ASSUME NEW g, Square(g), NEW k, k = RowSums(g)
  PROVE  /\ \A u \in DOMAIN g : k[u] \in Nat
         /\ \A A \in SUBSET DOMAIN g : Total(k, A) = Total(Flat(g), A \X DOMAIN g)
<1>1. PICK V : V = DOMAIN g
  BY Zenon
<1>2. \A u \in V : k[u] = Total(g[u], V)
  <2>1. \A u \in V : DOMAIN g[u] = V
    BY <1>1, Zenon DEF Square
  <2>2. \A u \in V : k[u] = Total(g[u], DOMAIN g[u])
    BY <1>1, Zenon DEF RowSums
  <2> QED BY <2>1, <2>2, Zenon
<1>3. ASSUME NEW u \in V
      PROVE  k[u] \in Nat
  <2>1. PICK f : f = g[u]
    BY Zenon
  <2>2. IsFiniteSet(V) /\ \A v \in V : f[v] \in Nat
    BY <1>1, <2>1, FlatType, Zenon DEF Square
  <2>3. Total(f, V) \in Nat
    BY <2>2, TotalType, Zenon
  <2> QED BY <1>2, <2>1, <2>3, Zenon
<1>4. ASSUME NEW A \in SUBSET V
      PROVE  Total(k, A) = Total(Flat(g), A \X V)
  <2>1. PICK F : F = [u \in A |-> Total(g[u], V)]
    BY Zenon
  <2>2. \A u \in A : k[u] = F[u]
    BY <1>2, <2>1, Zenon
  <2>3. Total(k, A) = Total(F, A)
    BY <2>2, TotalSame, Zenon
  <2>4. WeightBetween(g, A, V) = Total(F, A)
    BY <2>1, Zenon DEF WeightBetween
  <2>5. A \in SUBSET DOMAIN g /\ V \in SUBSET DOMAIN g
    BY <1>1, Zenon
  <2>6. WeightBetween(g, A, V) = Total(Flat(g), A \X V)
    BY <2>5, BetweenIsFlat
  <2> QED BY <2>3, <2>4, <2>6, Zenon
<1> QED BY <1>1, <1>3, <1>4, Zenon

\* Nodes that stand for vertices of one community each have the pairs of the
\* vertices in their blocks.
LEMMA TogetherBlocks ==
  ASSUME NEW g, NEW a, NEW orig, NEW w, CoarseOf(g, a, orig, w), NEW comm0, NEW part,
         \A c \in DOMAIN a : \A v \in orig[c] : part[v] = comm0[c]
  PROVE  Blocks(Together(DOMAIN g, part), Together(DOMAIN a, comm0), a, orig)
<1>1. PICK U, Q : U = Together(DOMAIN g, part) /\ Q = Together(DOMAIN a, comm0)
  BY Zenon
<1>2. \A c \in DOMAIN a : orig[c] \in SUBSET DOMAIN g
  BY Zenon DEF CoarseOf, Partition
<1>3. Q \in SUBSET ((DOMAIN a) \X (DOMAIN a))
  BY <1>1, Zenon DEF Together
<1>4. ASSUME NEW y \in U
      PROVE  \E c, d \in DOMAIN a : <<c, d>> \in Q /\ y \in orig[c] \X orig[d]
  <2>1. PICK u \in DOMAIN g, v \in DOMAIN g : y = <<u, v>>
    BY <1>1 DEF Together
  <2>2. part[u] = part[v]
    BY <1>1, <2>1, TogetherMember
  <2>3. PICK c \in DOMAIN a : u \in orig[c]
    BY Zenon DEF CoarseOf, Partition
  <2>4. PICK d \in DOMAIN a : v \in orig[d]
    BY Zenon DEF CoarseOf, Partition
  <2>5. comm0[c] = comm0[d]
    BY <2>2, <2>3, <2>4, Zenon
  <2>6. <<c, d>> \in Q
    BY <1>1, <2>5, TogetherMember, Zenon
  <2>7. y \in orig[c] \X orig[d]
    BY <2>1, <2>3, <2>4
  <2> QED BY <2>6, <2>7, Zenon
<1>5. ASSUME NEW c \in DOMAIN a, NEW d \in DOMAIN a, <<c, d>> \in Q,
             NEW y \in orig[c] \X orig[d]
      PROVE  y \in U
  <2>1. PICK u \in orig[c], v \in orig[d] : y = <<u, v>>
    OBVIOUS
  <2>2. comm0[c] = comm0[d]
    <3>1. <<c, d>> \in Together(DOMAIN a, comm0)
      BY <1>1, <1>5
    <3> QED BY <3>1, TogetherMember
  <2>3. part[u] = part[v]
    <3>1. part[u] = comm0[c] /\ part[v] = comm0[d]
      BY Zenon
    <3> QED BY <2>2, <3>1, Zenon
  <2>4. u \in DOMAIN g /\ v \in DOMAIN g
    BY <1>2, Zenon
  <2>5. <<u, v>> \in Together(DOMAIN g, part)
    BY <2>3, <2>4, TogetherMember, Zenon
  <2> QED BY <1>1, <2>1, <2>5, Zenon
<1>6. Blocks(U, Q, a, orig)
  BY <1>3, <1>4, <1>5, Zenon DEF Blocks
<1> QED BY <1>1, <1>6, Zenon

\* The expected weights of a coarse graph are sums over its blocks.
LEMMA ExpectedBlocks ==
  ASSUME NEW g, NEW a, NEW orig, NEW w, CoarseOf(g, a, orig, w), NEW Q,
         NEW E, E = Expected(RowSums(g), DOMAIN g)
  PROVE  /\ BlockSums(Expected(RowSums(a), DOMAIN a), E, Q, a, orig)
         /\ \A p \in (DOMAIN g) \X (DOMAIN g) : E[p] \in Nat
<1>0. Square(a) /\ Square(g)
  BY CoarseSquare, Zenon
<1>1. PICK k : k = RowSums(g)
  BY Zenon
<1>2. \A u \in DOMAIN g : k[u] \in Nat
  BY <1>0, <1>1, DegreeTotals, Zenon
<1>3. \A u, v \in DOMAIN g : E[<<u, v>>] = k[u] * k[v]
  BY <1>1 DEF Expected
<1>4. ASSUME NEW p \in (DOMAIN g) \X (DOMAIN g)
      PROVE  E[p] \in Nat
  <2>1. PICK u \in DOMAIN g, v \in DOMAIN g : p = <<u, v>>
    OBVIOUS
  <2>2. k[u] \in Nat /\ k[v] \in Nat
    BY <1>2, Zenon
  <2>3. k[u] * k[v] \in Nat
    BY <2>2
  <2> QED BY <1>3, <2>1, <2>3
<1>5. w = RowSums(a)
  BY CoarseRows, Zenon
<1>6. ASSUME NEW c \in DOMAIN a
      PROVE  w[c] = Total(k, orig[c])
  <2>1. orig[c] \in SUBSET DOMAIN g
    BY Zenon DEF CoarseOf, Partition
  <2>2. Total(k, orig[c]) = Total(Flat(g), orig[c] \X DOMAIN g)
    <3>1. \A A \in SUBSET DOMAIN g : Total(k, A) = Total(Flat(g), A \X DOMAIN g)
      BY <1>0, <1>1, DegreeTotals, Zenon
    <3> QED BY <2>1, <3>1, Zenon
  <2>3. w[c] = Total(Flat(g), orig[c] \X DOMAIN g)
    BY Zenon DEF CoarseOf
  <2> QED BY <2>2, <2>3, Zenon
<1>7. ASSUME NEW c \in DOMAIN a, NEW d \in DOMAIN a
      PROVE  Expected(w, DOMAIN a)[<<c, d>>] = Total(E, orig[c] \X orig[d])
  <2>1. PICK A, B : A = orig[c] /\ B = orig[d]
    BY Zenon
  <2>2. A \in SUBSET DOMAIN g /\ B \in SUBSET DOMAIN g
    BY <2>1, Zenon DEF CoarseOf, Partition
  <2>3. IsFiniteSet(A) /\ IsFiniteSet(B)
    BY <1>0, <2>2, FlatType, Zenon
  <2>4. /\ \A u \in A : k[u] \in Nat
        /\ \A v \in B : k[v] \in Nat
        /\ \A u \in A, v \in B : E[<<u, v>>] = k[u] * k[v]
    BY <1>2, <1>3, <2>2, Zenon
  <2>5. Total(E, A \X B) = Total(k, A) * Total(k, B)
    BY <2>3, <2>4, TotalProduct
  <2>6. Expected(w, DOMAIN a)[<<c, d>>] = w[c] * w[d]
    BY DEF Expected
  <2>7. w[c] = Total(k, A) /\ w[d] = Total(k, B)
    BY <1>6, <2>1, Zenon
  <2> QED BY <2>1, <2>5, <2>6, <2>7, Zenon
<1>8. BlockSums(Expected(w, DOMAIN a), E, Q, a, orig)
  BY <1>7, Zenon DEF BlockSums
<1> QED BY <1>4, <1>5, <1>8, Zenon

\* The modularity of a partition of the nodes of a coarse graph is that of
\* the partition of the vertices it stands for.
LEMMA CoarseModularity ==
  ASSUME NEW g, NEW a, NEW orig, NEW w, CoarseOf(g, a, orig, w), NEW comm0, NEW part,
         \A c \in DOMAIN a : \A v \in orig[c] : part[v] = comm0[c]
  PROVE  Modularity(a, comm0) = Modularity(g, part)
<1>1. PICK U, Q : U = Together(DOMAIN g, part) /\ Q = Together(DOMAIN a, comm0)
  BY Zenon
<1>2. Blocks(U, Q, a, orig)
  BY <1>1, TogetherBlocks
<1>3. PICK f, F, e, E : /\ f = Flat(g) /\ F = Flat(a)
                        /\ e = Expected(RowSums(g), DOMAIN g)
                        /\ E = Expected(RowSums(a), DOMAIN a)
  BY Zenon
<1>4. BlockSums(F, f, Q, a, orig) /\ \A p \in (DOMAIN g) \X (DOMAIN g) : f[p] \in Nat
  <2>1. Square(g)
    BY CoarseSquare, Zenon
  <2> QED BY <1>3, <2>1, CoarseBlocks, FlatType, Zenon
<1>5. BlockSums(E, e, Q, a, orig) /\ \A p \in (DOMAIN g) \X (DOMAIN g) : e[p] \in Nat
  BY <1>3, ExpectedBlocks, Zenon
<1>6. Total(F, Q) = Total(f, U)
  BY <1>2, <1>4, BlockTotals
<1>7. Total(E, Q) = Total(e, U)
  BY <1>2, <1>5, BlockTotals
<1>8. Modularity(a, comm0) = two_m * Total(F, Q) - resolution * Total(E, Q)
  BY <1>1, <1>3, ModularityByPairs, Zenon
<1>9. Modularity(g, part) = two_m * Total(f, U) - resolution * Total(e, U)
  BY <1>1, <1>3, ModularityByPairs, Zenon
<1> QED BY <1>6, <1>7, <1>8, <1>9, Zenon

\* ComputeModularity on the graph of level 0 computes the modularity.
LEMMA ComputedModularity ==
  ASSUME Square(graph), NEW part \in [Vertices -> Vertices]
  PROVE  ComputeModularity(part) = Modularity(graph, part)
<1>1. PICK g, V : g = graph /\ V = DOMAIN g
  BY Zenon
<1>2. Vertices = V /\ Square(g) /\ DOMAIN part = V
  BY <1>1, Zenon DEF Vertices
<1>3. PICK k : k = RowSums(g)
  BY Zenon
<1>4. PICK t : t = AccumulateByComm(part, k)
  BY Zenon
<1>5. PICK i, p : /\ i = [u \in V |-> Total(g[u], Members(part[u], part))]
                  /\ p = [c \in DOMAIN t |-> t[c] * t[c]]
  BY Zenon
<1>6. ComputeModularity(part) = two_m * Total(i, V) - resolution * Total(p, DOMAIN t)
  BY <1>1, <1>2, <1>3, <1>4, <1>5, Zenon DEF ComputeModularity
<1>7. PICK T : T = Together(V, part)
  BY Zenon
<1>8. Total(i, V) = Total(Flat(g), T)
  <2>1. DOMAIN part = DOMAIN g /\ i = [u \in DOMAIN g |-> Total(g[u], Members(part[u], part))]
    BY <1>1, <1>2, <1>5, Zenon
  <2>2. Total(i, DOMAIN g) = Total(Flat(g), Together(DOMAIN g, part))
    BY <1>2, <2>1, InnerByPairs
  <2> QED BY <1>1, <1>7, <2>2, Zenon
<1>9. Total(p, DOMAIN t) = Total(Expected(k, V), T)
  <2>1. IsFiniteSet(V) /\ \A u \in V : k[u] \in Nat
    BY <1>1, <1>2, <1>3, FlatType, DegreeTotals, Zenon
  <2>2. part \in [V -> V]
    BY <1>2, Zenon
  <2> QED BY <1>4, <1>5, <1>7, <2>1, <2>2, PenaltyByPairs
<1>10. Modularity(g, part) = two_m * Total(Flat(g), T) - resolution * Total(Expected(k, V), T)
  BY <1>1, <1>3, <1>7, ModularityByPairs, Zenon
<1> QED BY <1>1, <1>6, <1>8, <1>9, <1>10, Zenon

-----------------------------------------------------------------------------
(* A node that moves alone.                                                *)

\* The sum over two disjoint sets.
LEMMA TotalSplit ==
  ASSUME NEW X, IsFiniteSet(X), NEW Y, IsFiniteSet(Y), X \cap Y = {},
         NEW f, \A x \in X \cup Y : f[x] \in Nat,
         NEW U, U = X \cup Y
  PROVE  IsFiniteSet(U) /\ Total(f, U) = Total(f, X) + Total(f, Y)
<1>1. IsFiniteSet(U)
  BY FS_Union, Zenon
<1>2. /\ IsFiniteSet(Marks(f, X)) /\ Total(f, X) = Cardinality(Marks(f, X))
      /\ IsFiniteSet(Marks(f, Y)) /\ Total(f, Y) = Cardinality(Marks(f, Y))
      /\ Total(f, U) = Cardinality(Marks(f, U))
      /\ Total(f, X) \in Nat /\ Total(f, Y) \in Nat
  <2>1. IsFiniteSet(Marks(f, X)) /\ Total(f, X) = Cardinality(Marks(f, X)) /\ Total(f, X) \in Nat
    BY TotalType, Zenon
  <2>2. IsFiniteSet(Marks(f, Y)) /\ Total(f, Y) = Cardinality(Marks(f, Y)) /\ Total(f, Y) \in Nat
    BY TotalType, Zenon
  <2>3. \A x \in U : f[x] \in Nat
    OBVIOUS
  <2>4. Total(f, U) = Cardinality(Marks(f, U))
    BY <1>1, <2>3, TotalType, Zenon
  <2> QED BY <2>1, <2>2, <2>4, Zenon
<1>3. Marks(f, U) = Marks(f, X) \cup Marks(f, Y)
  <2>1. \A x : x \in U <=> x \in X \/ x \in Y
    BY Zenon
  <2> QED BY <2>1, MarkMember
<1>4. Marks(f, X) \cap Marks(f, Y) = {}
  <2> SUFFICES ASSUME NEW p, p \in Marks(f, X), p \in Marks(f, Y)
               PROVE  FALSE
    BY Zenon
  <2>1. PICK x \in X : \E k \in 1..f[x] : p = <<x, k>>
    BY MarkMember
  <2>2. PICK y \in Y : \E k \in 1..f[y] : p = <<y, k>>
    BY MarkMember
  <2>3. x = y
    BY <2>1, <2>2
  <2> QED BY <2>3, Zenon
<1>5. Cardinality(Marks(f, U)) = Cardinality(Marks(f, X)) + Cardinality(Marks(f, Y)) - Cardinality({})
  <2>1. PICK M, N : M = Marks(f, X) /\ N = Marks(f, Y)
    BY Zenon
  <2>2. IsFiniteSet(M) /\ IsFiniteSet(N) /\ M \cap N = {} /\ Marks(f, U) = M \cup N
    BY <1>2, <1>3, <1>4, <2>1, Zenon
  <2>3. Cardinality(M \cup N) = Cardinality(M) + Cardinality(N) - Cardinality(M \cap N)
    BY <2>2, FS_Union, Zenon
  <2> QED BY <2>1, <2>2, <2>3, Zenon
<1>6. Cardinality({}) = 0
  BY FS_EmptySet
<1> QED BY <1>1, <1>2, <1>5, <1>6

\* A symmetric function of the pairs of V, with values that can be summed.
PairWeights(F, V) ==
  /\ IsFiniteSet(V)
  /\ \A x, y \in V : F[<<x, y>>] \in Nat /\ F[<<x, y>>] = F[<<y, x>>]

\* The pairs of one community that leave u out, and the others of the
\* community z.
Apart(V, part, u) == {p \in V \X V : p[1] # u /\ p[2] # u /\ part[p[1]] = part[p[2]]}
Others(V, part, u, z) == {v \in V : v # u /\ part[v] = z}

\* The pairs of A and u, either way round.
RowOf(R, A, u) == \A p : p \in R <=> \E v \in A : p = <<u, v>>
ColumnOf(S, A, u) == \A p : p \in S <=> \E v \in A : p = <<v, u>>

\* A pair of the node and one of the others weighs the same either way round.
LEMMA ColumnIsRow ==
  ASSUME NEW V, NEW F, PairWeights(F, V), NEW u, u \in V, NEW A, A \in SUBSET V,
         NEW S, IsFiniteSet(S), ColumnOf(S, A, u), NEW R, RowOf(R, A, u)
  PROVE  Total(F, S) = Total(F, R)
<1>1. \A p : p \in S <=> \E v \in A : p = <<v, u>>
  BY Zenon DEF ColumnOf
<1>2. \A p : p \in R <=> \E v \in A : p = <<u, v>>
  BY Zenon DEF RowOf
<1>3. PICK h : h = [p \in S |-> <<p[2], p[1]>>]
  BY Zenon
<1>4. \A p \in S : \E v \in A : p = <<v, u>> /\ h[p] = <<u, v>>
  BY <1>1, <1>3
<1>5. \A p \in S : F[p] \in Nat /\ F[p] = F[h[p]]
  <2> SUFFICES ASSUME NEW p \in S
               PROVE  F[p] \in Nat /\ F[p] = F[h[p]]
    BY Zenon
  <2>1. PICK v \in A : p = <<v, u>> /\ h[p] = <<u, v>>
    BY <1>4, Zenon
  <2>2. v \in V
    BY Zenon
  <2> QED BY <2>1, <2>2, Zenon DEF PairWeights
<1>6. \A p, q \in S : h[p] = h[q] => p = q
  <2> SUFFICES ASSUME NEW p \in S, NEW q \in S, h[p] = h[q]
               PROVE  p = q
    BY Zenon
  <2>1. PICK v \in A : p = <<v, u>> /\ h[p] = <<u, v>>
    BY <1>4, Zenon
  <2>2. PICK w \in A : q = <<w, u>> /\ h[q] = <<u, w>>
    BY <1>4, Zenon
  <2> QED BY <2>1, <2>2
<1>7. \A y : y \in R <=> \E p \in S : y = h[p]
  <2>1. ASSUME NEW y \in R
        PROVE  \E p \in S : y = h[p]
    <3>1. PICK v \in A : y = <<u, v>>
      BY <1>2, Zenon
    <3>2. <<v, u>> \in S
      BY <1>1, Zenon
    <3> QED BY <1>3, <3>1, <3>2
  <2>2. ASSUME NEW p \in S
        PROVE  h[p] \in R
    BY <1>2, <1>4, Zenon
  <2> QED BY <2>1, <2>2, Zenon
<1>8. Total(F, S) = Total(F, R)
  BY <1>5, <1>6, <1>7, TotalMoved
<1> QED BY <1>8

\* The sum over the pairs of one community, with the part of u set apart.
LEMMA TogetherSplit ==
  ASSUME NEW V, NEW F, PairWeights(F, V), NEW u \in V, NEW part,
         NEW K, K = Apart(V, part, u), NEW A, A = Others(V, part, u, part[u])
  PROVE  /\ Total(F, K) \in Nat /\ Total(F, {u} \X A) \in Nat
         /\ Total(F, Together(V, part)) = Total(F, K) + F[<<u, u>>] + 2 * Total(F, {u} \X A)
<1>1. A \in SUBSET V /\ u \notin A /\ \A v : v \in A <=> v \in V /\ v # u /\ part[v] = part[u]
  BY DEF Others
<1>2. PICK R, C, D : R = {u} \X A /\ C = A \X {u} /\ D = {<<u, u>>}
  BY Zenon
<1>3. IsFiniteSet(R) /\ IsFiniteSet(C) /\ IsFiniteSet(D) /\ IsFiniteSet(K)
  <2>1. IsFiniteSet(A) /\ IsFiniteSet({u}) /\ IsFiniteSet(V)
    BY <1>1, FS_Subset, FS_Singleton, Zenon DEF PairWeights
  <2>2. K \in SUBSET (V \X V)
    BY DEF Apart
  <2>3. IsFiniteSet(V \X V)
    BY <2>1, FS_Product, Zenon
  <2>4. IsFiniteSet(K)
    BY <2>2, <2>3, FS_Subset, Zenon
  <2>5. IsFiniteSet(R) /\ IsFiniteSet(C)
    BY <1>2, <2>1, FS_Product, Zenon
  <2> QED BY <1>2, <2>4, <2>5, FS_Singleton, Zenon
<1>4. /\ \A p : p \in R <=> \E v \in A : p = <<u, v>>
      /\ \A p : p \in C <=> \E v \in A : p = <<v, u>>
      /\ \A p : p \in D <=> p = <<u, u>>
      /\ \A p : p \in K <=> \E v, w \in V : p = <<v, w>> /\ v # u /\ w # u /\ part[v] = part[w]
  <2>1. \A p : p \in R <=> \E v \in A : p = <<u, v>>
    BY <1>2
  <2>2. \A p : p \in C <=> \E v \in A : p = <<v, u>>
    BY <1>2
  <2>3. \A p : p \in K <=> \E v, w \in V : p = <<v, w>> /\ v # u /\ w # u /\ part[v] = part[w]
    BY DEF Apart
  <2> QED BY <1>2, <2>1, <2>2, <2>3, Zenon
<1>5. \A p \in V \X V : F[p] \in Nat
  <2> SUFFICES ASSUME NEW p \in V \X V
               PROVE  F[p] \in Nat
    BY Zenon
  <2>1. PICK v, w : v \in V /\ w \in V /\ p = <<v, w>>
    OBVIOUS
  <2> QED BY <2>1, Zenon DEF PairWeights
<1>6. R \subseteq V \X V /\ C \subseteq V \X V /\ D \subseteq V \X V /\ K \subseteq V \X V
  BY <1>1, <1>2 DEF Apart
<1>7. PICK U1, U2, T : U1 = K \cup D /\ U2 = R \cup C /\ T = U1 \cup U2
  BY Zenon
<1>8. IsFiniteSet(U1) /\ Total(F, U1) = Total(F, K) + Total(F, D)
  <2>1. K \cap D = {}
    BY <1>4
  <2>2. \A p \in K \cup D : F[p] \in Nat
    BY <1>5, <1>6, Zenon
  <2> QED BY <1>3, <1>7, <2>1, <2>2, TotalSplit, Zenon
<1>9. IsFiniteSet(U2) /\ Total(F, U2) = Total(F, R) + Total(F, C)
  <2>1. R \cap C = {}
    BY <1>1, <1>4
  <2>2. \A p \in R \cup C : F[p] \in Nat
    BY <1>5, <1>6, Zenon
  <2> QED BY <1>3, <1>7, <2>1, <2>2, TotalSplit
<1>10. Total(F, T) = Total(F, U1) + Total(F, U2)
  <2>1. U1 \cap U2 = {}
    BY <1>1, <1>4, <1>7
  <2>2. \A p \in U1 \cup U2 : F[p] \in Nat
    BY <1>5, <1>6, <1>7, Zenon
  <2> QED BY <1>7, <1>8, <1>9, <2>1, <2>2, TotalSplit
<1>11. Together(V, part) = T
  <2>1. ASSUME NEW p \in Together(V, part)
        PROVE  p \in T
    <3>1. PICK v, w : v \in V /\ w \in V /\ p = <<v, w>> /\ part[v] = part[w]
      BY DEF Together
    <3>2. CASE v # u /\ w # u
      BY <1>4, <1>7, <3>1, <3>2, Zenon
    <3>3. CASE v = u /\ w = u
      BY <1>4, <1>7, <3>1, <3>3, Zenon
    <3>4. CASE v = u /\ w # u
      <4>1. w \in A
        BY <1>1, <3>1, <3>4
      <4> QED BY <1>4, <1>7, <3>1, <3>4, <4>1, Zenon
    <3>5. CASE v # u /\ w = u
      <4>1. v \in A
        BY <1>1, <3>1, <3>5
      <4> QED BY <1>4, <1>7, <3>1, <3>5, <4>1, Zenon
    <3> QED BY <3>2, <3>3, <3>4, <3>5, Zenon
  <2>2. ASSUME NEW p \in T
        PROVE  \E v, w \in V : p = <<v, w>> /\ part[v] = part[w]
    <3>1. CASE p \in K
      BY <1>4, <3>1
    <3>2. CASE p \in D
      BY <1>4, <3>2, Zenon
    <3>3. CASE p \in R
      BY <1>1, <1>4, <3>3
    <3>4. CASE p \in C
      BY <1>1, <1>4, <3>4
    <3> QED BY <1>7, <3>1, <3>2, <3>3, <3>4, Zenon
  <2>3. ASSUME NEW v \in V, NEW w \in V, part[v] = part[w]
        PROVE  <<v, w>> \in Together(V, part)
    BY <2>3, TogetherMember, Zenon
  <2>4. ASSUME NEW p \in T
        PROVE  p \in Together(V, part)
    BY <2>2, <2>3, Zenon
  <2> QED BY <2>1, <2>4, Zenon
<1>12. Total(F, D) = F[<<u, u>>]
  <2>1. F[<<u, u>>] \in Nat
    BY Zenon DEF PairWeights
  <2> QED BY <1>2, <2>1, TotalSingle, Zenon
<1>13. Total(F, C) = Total(F, R)
  <2>1. RowOf(R, A, u) /\ ColumnOf(C, A, u)
    BY <1>4, Zenon DEF RowOf, ColumnOf
  <2> QED BY <1>1, <1>3, <2>1, ColumnIsRow
<1>14. Total(F, K) \in Nat /\ Total(F, R) \in Nat /\ F[<<u, u>>] \in Nat
  <2>1. \A p \in K : F[p] \in Nat
    BY <1>5, <1>6, Zenon
  <2>2. \A p \in R : F[p] \in Nat
    BY <1>5, <1>6, Zenon
  <2> QED BY <1>3, <2>1, <2>2, TotalType, Zenon DEF PairWeights
<1>15. Total(F, Together(V, part)) = Total(F, K) + F[<<u, u>>] + 2 * Total(F, R)
  <2>1. Total(F, Together(V, part)) = (Total(F, K) + F[<<u, u>>]) + (Total(F, R) + Total(F, R))
    BY <1>8, <1>9, <1>10, <1>11, <1>12, <1>13, Zenon
  <2> QED BY <1>14, <2>1
<1> QED BY <1>2, <1>14, <1>15, Zenon

\* What is left of the products once the common parts are taken off.
LEMMA GainArithmetic ==
  ASSUME NEW m \in Nat, NEW r \in Nat, NEW i \in Nat, NEW s \in Nat, NEW e \in Nat, NEW t \in Nat,
         NEW x \in Nat, NEW y \in Nat, NEW z \in Nat, NEW w \in Nat,
         m * z - r * w > m * (x + s) - r * y
  PROVE  m * (i + s + 2 * z) - r * (e + t + 2 * w) > m * (i + s + 2 * x) - r * (e + t + 2 * y)
<1>1. PICK mi, ms, mx, mz, re, rt, ry, rw :
        /\ mi = m * i /\ ms = m * s /\ mx = m * x /\ mz = m * z
        /\ re = r * e /\ rt = r * t /\ ry = r * y /\ rw = r * w
  BY Zenon
<1>2. /\ mi \in Int /\ ms \in Int /\ mx \in Int /\ mz \in Int
      /\ re \in Int /\ rt \in Int /\ ry \in Int /\ rw \in Int
  BY <1>1
<1>3. ms >= 0
  BY <1>1
<1>4. m * (x + s) = mx + ms
  BY <1>1
<1>5. m * (i + s + 2 * z) = mi + ms + 2 * mz
  BY <1>1
<1>6. m * (i + s + 2 * x) = mi + ms + 2 * mx
  BY <1>1
<1>7. r * (e + t + 2 * w) = re + rt + 2 * rw
  BY <1>1
<1>8. r * (e + t + 2 * y) = re + rt + 2 * ry
  BY <1>1
<1>9. mz - rw > mx + ms - ry
  BY <1>1, <1>4
<1>10. mi + ms + 2 * mz - (re + rt + 2 * rw) > mi + ms + 2 * mx - (re + rt + 2 * ry)
  BY <1>2, <1>3, <1>9
<1> QED BY <1>5, <1>6, <1>7, <1>8, <1>10

\* The modularity of a partition, with the part of the node u set apart: i, s
\* and t do not depend on the community of u, which has the others A.
LEMMA ModularitySplit ==
  ASSUME NEW a, Weighted(a), NEW k, k = RowSums(a), NEW u \in DOMAIN a, NEW part,
         NEW K, K = Apart(DOMAIN a, part, u), NEW A, A = Others(DOMAIN a, part, u, part[u]),
         NEW E, E = Expected(k, DOMAIN a)
  PROVE  /\ Modularity(a, part) =
              two_m * (Total(Flat(a), K) + a[u][u] + 2 * Total(a[u], A))
                - resolution * (Total(E, K) + k[u] * k[u] + 2 * (k[u] * Total(k, A)))
         /\ Total(Flat(a), K) \in Nat /\ Total(E, K) \in Nat
         /\ Total(a[u], A) \in Nat /\ Total(k, A) \in Nat
         /\ k[u] \in Nat /\ a[u][u] \in Nat
<1>1. Square(a)
  BY Zenon DEF Weighted
<1>2. PICK V : V = DOMAIN a
  BY Zenon
<1>3. /\ IsFiniteSet(V) /\ \A x \in V : k[x] \in Nat
      /\ \A x, y \in V : a[x][y] \in Nat /\ a[x][y] = a[y][x] /\ Flat(a)[<<x, y>>] = a[x][y]
  <2>1. IsFiniteSet(V) /\ \A x, y \in V : Flat(a)[<<x, y>>] = a[x][y]
    <3>1. IsFiniteSet(DOMAIN a) /\ \A x, y \in DOMAIN a : Flat(a)[<<x, y>>] = a[x][y]
      BY <1>1, FlatType
    <3> QED BY <1>2, <3>1, Zenon
  <2>2. \A x \in V : k[x] \in Nat
    BY <1>1, <1>2, DegreeTotals, Zenon
  <2>3. \A x, y \in V : a[x][y] \in Nat /\ a[x][y] = a[y][x]
    BY <1>2, Zenon DEF Weighted, Square
  <2> QED BY <2>1, <2>2, <2>3, Zenon
<1>4. \A x, y \in V : E[<<x, y>>] = k[x] * k[y]
  BY <1>2 DEF Expected
<1>5. PairWeights(Flat(a), V)
  BY <1>3, Zenon DEF PairWeights
<1>6. PairWeights(E, V)
  <2>1. \A x, y \in V : E[<<x, y>>] \in Nat /\ E[<<x, y>>] = E[<<y, x>>]
    <3> SUFFICES ASSUME NEW x \in V, NEW y \in V
                 PROVE  E[<<x, y>>] \in Nat /\ E[<<x, y>>] = E[<<y, x>>]
      BY Zenon
    <3>1. E[<<x, y>>] = k[x] * k[y] /\ E[<<y, x>>] = k[y] * k[x] /\ k[x] \in Nat /\ k[y] \in Nat
      BY <1>3, <1>4, Zenon
    <3>2. PICK p, q : p = k[x] /\ q = k[y]
      BY Zenon
    <3>3. p \in Nat /\ q \in Nat
      BY <3>1, <3>2, Zenon
    <3>4. p * q \in Nat /\ p * q = q * p
      BY <3>3
    <3> QED BY <3>1, <3>2, <3>4, Zenon
  <2> QED BY <1>3, <2>1, Zenon DEF PairWeights
<1>7. /\ Total(Flat(a), K) \in Nat /\ Total(Flat(a), {u} \X A) \in Nat
      /\ Total(Flat(a), Together(V, part)) =
           Total(Flat(a), K) + Flat(a)[<<u, u>>] + 2 * Total(Flat(a), {u} \X A)
  BY <1>2, <1>5, TogetherSplit
<1>8. /\ Total(E, K) \in Nat /\ Total(E, {u} \X A) \in Nat
      /\ Total(E, Together(V, part)) = Total(E, K) + E[<<u, u>>] + 2 * Total(E, {u} \X A)
  BY <1>2, <1>6, TogetherSplit
<1>9. A \in SUBSET V
  BY <1>2 DEF Others
<1>10. Total(Flat(a), {u} \X A) = Total(a[u], A)
  BY <1>1, <1>2, <1>9, RowIsFlat
<1>11. IsFiniteSet(A) /\ \A x \in A : k[x] \in Nat
  BY <1>3, <1>9, FS_Subset, Zenon
<1>12. Total(k, A) \in Nat
  BY <1>11, TotalType, Zenon
<1>13. u \in V /\ k[u] \in Nat /\ a[u][u] \in Nat
  BY <1>2, <1>3, Zenon
<1>14. Total(E, {u} \X A) = k[u] * Total(k, A)
  <2>1. IsFiniteSet({u}) /\ \A x \in {u} : k[x] \in Nat
    BY <1>13, FS_Singleton, Zenon
  <2>2. \A x \in {u}, y \in A : E[<<x, y>>] = k[x] * k[y]
    BY <1>4, <1>9, <1>13, Zenon
  <2>3. Total(E, {u} \X A) = Total(k, {u}) * Total(k, A)
    BY <1>11, <2>1, <2>2, TotalProduct
  <2>4. Total(k, {u}) = k[u]
    BY <1>13, TotalSingle, Zenon
  <2> QED BY <2>3, <2>4, Zenon
<1>15. PICK T : T = Together(V, part)
  BY Zenon
<1>16. Modularity(a, part) = two_m * Total(Flat(a), T) - resolution * Total(E, T)
  BY <1>2, <1>15, ModularityByPairs, Zenon
<1>17. Flat(a)[<<u, u>>] = a[u][u] /\ E[<<u, u>>] = k[u] * k[u]
  BY <1>3, <1>4, <1>13, Zenon
<1>18. Total(Flat(a), T) = Total(Flat(a), K) + a[u][u] + 2 * Total(a[u], A)
  BY <1>7, <1>10, <1>15, <1>17, Zenon
<1>19. Total(E, T) = Total(E, K) + k[u] * k[u] + 2 * (k[u] * Total(k, A))
  BY <1>8, <1>14, <1>15, <1>17, Zenon
<1>20. Total(a[u], A) \in Nat
  BY <1>7, <1>10, Zenon
<1> QED BY <1>7, <1>8, <1>12, <1>13, <1>16, <1>18, <1>19, <1>20, Zenon

\* A node u that gains by going from its community to the community c raises
\* the modularity: its self-loop counts for the community it leaves.
LEMMA MoveGains ==
  ASSUME NEW a, Weighted(a), NEW k, k = RowSums(a), two_m \in Nat,
         NEW V, V = DOMAIN a, NEW part \in [V -> V], NEW u \in V, NEW c \in V, c # part[u],
         NEW A, A = Others(V, part, u, part[u]), NEW C, C = Others(V, part, u, c),
         two_m * Total(a[u], C) - resolution * (k[u] * Total(k, C))
           > two_m * (Total(a[u], A) + a[u][u]) - resolution * (k[u] * Total(k, A))
  PROVE  Modularity(a, [part EXCEPT ![u] = c]) > Modularity(a, part)
<1>1. PICK new : new = [part EXCEPT ![u] = c]
  BY Zenon
<1>2. new[u] = c /\ \A v \in V : v # u => new[v] = part[v]
  BY <1>1
<1>3. PICK K, E : K = Apart(V, part, u) /\ E = Expected(k, V)
  BY Zenon
<1>4. K = Apart(V, new, u)
  BY <1>2, <1>3 DEF Apart
<1>5. C = Others(V, new, u, new[u])
  BY <1>2 DEF Others
<1>6. /\ Modularity(a, part) =
           two_m * (Total(Flat(a), K) + a[u][u] + 2 * Total(a[u], A))
             - resolution * (Total(E, K) + k[u] * k[u] + 2 * (k[u] * Total(k, A)))
      /\ Total(Flat(a), K) \in Nat /\ Total(E, K) \in Nat
      /\ Total(a[u], A) \in Nat /\ Total(k, A) \in Nat /\ k[u] \in Nat /\ a[u][u] \in Nat
  BY <1>3, ModularitySplit
<1>7. /\ Modularity(a, new) =
           two_m * (Total(Flat(a), K) + a[u][u] + 2 * Total(a[u], C))
             - resolution * (Total(E, K) + k[u] * k[u] + 2 * (k[u] * Total(k, C)))
      /\ Total(a[u], C) \in Nat /\ Total(k, C) \in Nat
  BY <1>3, <1>4, <1>5, ModularitySplit
<1>8. PICK t, y, w : t = k[u] * k[u] /\ y = k[u] * Total(k, A) /\ w = k[u] * Total(k, C)
  BY Zenon
<1>9. t \in Nat /\ y \in Nat /\ w \in Nat
  BY <1>6, <1>7, <1>8
<1>10. resolution \in Nat
  BY LouvainParameters
<1>11. two_m * Total(a[u], C) - resolution * w > two_m * (Total(a[u], A) + a[u][u]) - resolution * y
  BY <1>8, Zenon
<1>12. two_m * (Total(Flat(a), K) + a[u][u] + 2 * Total(a[u], C)) - resolution * (Total(E, K) + t + 2 * w)
         > two_m * (Total(Flat(a), K) + a[u][u] + 2 * Total(a[u], A)) - resolution * (Total(E, K) + t + 2 * y)
  <2>1. PICK i, s, e, x, z : /\ i = Total(Flat(a), K) /\ s = a[u][u] /\ e = Total(E, K)
                             /\ x = Total(a[u], A) /\ z = Total(a[u], C)
    BY Zenon
  <2>2. i \in Nat /\ s \in Nat /\ e \in Nat /\ x \in Nat /\ z \in Nat
    BY <1>6, <1>7, <2>1, Zenon
  <2>3. two_m * z - resolution * w > two_m * (x + s) - resolution * y
    BY <1>11, <2>1, Zenon
  <2>4. two_m * (i + s + 2 * z) - resolution * (e + t + 2 * w)
          > two_m * (i + s + 2 * x) - resolution * (e + t + 2 * y)
    BY <1>9, <1>10, <2>2, <2>3, GainArithmetic
  <2> QED BY <2>1, <2>4, Zenon
<1> QED BY <1>1, <1>6, <1>7, <1>8, <1>12, Zenon

-----------------------------------------------------------------------------
(* The steps of Compute.                                                   *)

\* The current level is a coarse graph of level 0.
LevelOK ==
  /\ CoarseOf(graph, adj, node_to_orig, node_weight)
  /\ DOMAIN comm = Nodes

LInv ==
  /\ lstage \in {"idle", "move", "level", "map", "done"}
  /\ lstage \in {"move", "level", "map"} => LevelOK
  /\ lstage \in {"move", "level"} => any_moved \/ comm = [u \in Nodes |-> u]
  /\ lstage = "map" => \E n : Onto(comm, Nodes, n)
  /\ lstage = "done" => ResultExact

\* Every node in a community of its own.
LEMMA IdentityOnto ==
  ASSUME NEW a, NEW m \in Nat, DOMAIN a = 0..(m - 1)
  PROVE  Onto([u \in DOMAIN a |-> u], DOMAIN a, m)
BY DEF Onto

\* The stage in which a level is entered.
LEMMA EnterLevelStage ==
  ASSUME NEW l
  PROVE  EnterLevel(l) \in {"move", "level", "map"}
BY DEF EnterLevel

\* A level that is entered: any stage it can be entered in.
LEMMA LevelEntered ==
  ASSUME NEW g, NEW a, NEW orig, NEW w, CoarseOf(g, a, orig, w),
         graph' = g, adj' = a, node_to_orig' = orig, node_weight' = w,
         comm' = [u \in DOMAIN a |-> u], lstage' \in {"move", "level", "map"}
  PROVE  LInv'
<1>1. Nodes' = DOMAIN a
  BY Zenon DEF Nodes
<1>2. LevelOK'
  <2>1. DOMAIN comm' = DOMAIN a
    BY Zenon
  <2> QED BY <1>1, <2>1, Zenon DEF LevelOK
<1>3. PICK m \in Nat : DOMAIN a = 0..(m - 1)
  BY Zenon DEF CoarseOf
<1>4. Onto(comm', Nodes', m)
  BY <1>1, <1>3, IdentityOnto, Zenon
<1>5. (lstage = "map" => \E n : Onto(comm, Nodes, n))'
  BY <1>4, Zenon
<1>6. comm' = [u \in Nodes' |-> u]
  BY <1>1, Zenon
<1>7. lstage' # "done" /\ lstage' \in {"idle", "move", "level", "map", "done"}
  OBVIOUS
<1> QED BY <1>2, <1>5, <1>6, <1>7, Zenon DEF LInv

\* Compute up to the first level.
LEMMA StartLouvainKeeps ==
  ASSUME NEW g, Weighted(g), StartLouvain(g)
  PROVE  LInv'
<1>1. /\ graph' = g /\ adj' = g /\ comm' = [u \in DOMAIN g |-> u]
      /\ node_weight' = RowSums(g) /\ node_to_orig' = [u \in DOMAIN g |-> {u}]
      /\ lstage' = IF DOMAIN g = {} THEN "done" ELSE EnterLevel(0)
  BY Zenon DEF StartLouvain, Singletons
<1>2. CASE DOMAIN g = {}
  <2>1. lstage' = "done" /\ Vertices' = {}
    BY <1>1, <1>2, Zenon DEF Vertices
  <2>2. ResultExact'
    BY <2>1, Zenon DEF ResultExact
  <2> QED BY <2>1, <2>2 DEF LInv
<1>3. CASE DOMAIN g # {}
  <2>1. lstage' \in {"move", "level", "map"}
    BY <1>1, <1>3, EnterLevelStage, Zenon
  <2>2. CoarseOf(g, g, [u \in DOMAIN g |-> {u}], RowSums(g))
    BY SingletonCoarse, Zenon
  <2>3. PICK orig, w : orig = [u \in DOMAIN g |-> {u}] /\ w = RowSums(g)
    BY Zenon
  <2>4. CoarseOf(g, g, orig, w) /\ node_to_orig' = orig /\ node_weight' = w
    BY <1>1, <2>2, <2>3, Zenon
  <2> QED BY <1>1, <2>1, <2>4, LevelEntered, Zenon
<1> QED BY <1>2, <1>3, Zenon

\* ChooseComm and ApplyMoves leave the level as it is.
LEMMA MovesKeep ==
  ASSUME LInv, ChooseComm \/ ApplyMoves
  PROVE  LInv'
<1>1. /\ lstage = "move" /\ lstage' \in {"move", "level"}
      /\ graph' = graph /\ adj' = adj /\ node_to_orig' = node_to_orig
      /\ node_weight' = node_weight
  BY Zenon DEF ChooseComm, ApplyMoves
<1>2. Nodes' = Nodes
  BY <1>1, Zenon DEF Nodes
<1>3. LevelOK /\ (any_moved \/ comm = [u \in Nodes |-> u])
  BY <1>1, Zenon DEF LInv
<1>4. DOMAIN comm' = Nodes /\ (any_moved' \/ comm' = [u \in Nodes |-> u])
  <2>1. CASE ChooseComm
    <3>1. comm' = comm /\ any_moved' = any_moved
      BY <2>1, Zenon DEF ChooseComm
    <3> QED BY <1>3, <3>1, Zenon DEF LevelOK
  <2>2. CASE ApplyMoves
    <3>1. /\ DOMAIN new_comm = Nodes /\ comm' = new_comm
          /\ any_moved' = (any_moved \/ new_comm # comm)
      BY <2>2, Zenon DEF ApplyMoves
    <3>2. CASE new_comm = comm
      BY <1>3, <3>1, <3>2, Zenon
    <3>3. CASE new_comm # comm
      BY <3>1, <3>3, Zenon
    <3> QED BY <3>2, <3>3, Zenon
  <2> QED BY <2>1, <2>2, Zenon
<1>5. LevelOK'
  BY <1>1, <1>2, <1>3, <1>4, Zenon DEF LevelOK
<1>6. lstage' # "map" /\ lstage' # "done" /\ lstage' \in {"idle", "move", "level", "map", "done"}
  BY <1>1
<1> QED BY <1>2, <1>4, <1>5, <1>6, Zenon DEF LInv

\* CoarsenLevel: the communities become the nodes of the next level, or the
\* levels end with communities numbered 0..n-1.
LEMMA CoarsenKeeps ==
  ASSUME LInv, CoarsenLevel
  PROVE  LInv'
<1>1. /\ lstage = "level" /\ LevelOK /\ (any_moved \/ comm = [u \in Nodes |-> u])
      /\ graph' = graph
  BY Zenon DEF LInv, CoarsenLevel
<1>2. PICK m \in Nat : Nodes = 0..(m - 1)
  BY <1>1, Zenon DEF LevelOK, CoarseOf, Nodes
<1>3. PICK part, n : part = Renumbered(comm) /\ n = Cardinality({comm[u] : u \in Nodes})
  BY Zenon
<1>4. Onto(part, Nodes, n)
  <2>1. DOMAIN comm = Nodes
    BY <1>1, Zenon DEF LevelOK
  <2> QED BY <1>2, <1>3, <2>1, RenumberedOnto, Zenon
<1>5. ASSUME NEW k, Onto(comm', Nodes, k), lstage' = "map",
             adj' = adj, node_weight' = node_weight, node_to_orig' = node_to_orig
      PROVE  LInv'
  <2>1. Nodes' = Nodes
    BY <1>5, Zenon DEF Nodes
  <2>2. DOMAIN comm' = Nodes
    BY <1>5, Zenon DEF Onto
  <2>3. LevelOK'
    BY <1>1, <1>5, <2>1, <2>2, Zenon DEF LevelOK
  <2>4. (\E j : Onto(comm, Nodes, j))'
    BY <1>5, <2>1, Zenon
  <2> QED BY <1>5, <2>3, <2>4 DEF LInv
<1>6. CASE ~any_moved /\ lstage' = "map"
           /\ UNCHANGED <<adj, node_weight, comm, node_to_orig>>
  <2>1. comm' = [u \in Nodes |-> u]
    BY <1>1, <1>6, Zenon
  <2>2. Onto(comm', Nodes, m)
    BY <1>2, <2>1, IdentityOnto, Zenon DEF Nodes
  <2> QED BY <1>5, <1>6, <2>2, Zenon
<1>7. CASE comm' = part /\ lstage' = "map" /\ UNCHANGED <<adj, node_weight, node_to_orig>>
  BY <1>4, <1>5, <1>7, Zenon
<1>8. CASE /\ Singletons(Coarse(part, n))
           /\ node_weight' = [c \in 0..(n - 1) |-> Total(node_weight, Members(c, part))]
           /\ node_to_orig' = [c \in 0..(n - 1) |->
                                 UNION {node_to_orig[u] : u \in Members(c, part)}]
           /\ lstage' = EnterLevel(level + 1)
  <2>1. PICK g, a, orig, w : g = graph /\ a = adj /\ orig = node_to_orig /\ w = node_weight
    BY Zenon
  <2>2. CoarseOf(g, a, orig, w) /\ Onto(part, DOMAIN a, n)
    BY <1>1, <1>4, <2>1, Zenon DEF LevelOK, Nodes
  <2>3. PICK b, big, z : b = Coarse(part, n) /\ big = MergedSets(orig, part, n)
                         /\ z = MergedSums(w, part, n)
    BY Zenon
  <2>4. b = [c \in 0..(n - 1) |-> [d \in 0..(n - 1) |-> CoarseWeight(c, d, part)]]
    BY <2>3, Zenon DEF Coarse
  <2>5. DOMAIN b = 0..(n - 1) /\ \A c \in 0..(n - 1) : DOMAIN b[c] = 0..(n - 1)
    BY <2>4, Zenon
  <2>6. ASSUME NEW c \in 0..(n - 1), NEW d \in 0..(n - 1)
        PROVE  \/ b[c][d] = WeightBetween(a, Members(c, part), Members(d, part))
               \/ b[c][d] = WeightBetween(a, Members(d, part), Members(c, part))
    <3>1. b[c][d] = CoarseWeight(c, d, part)
      BY <2>4, Zenon
    <3>2. CASE c <= d
      BY <2>1, <3>1, <3>2, Zenon DEF CoarseWeight
    <3>3. CASE ~(c <= d)
      BY <2>1, <3>1, <3>3, Zenon DEF CoarseWeight
    <3> QED BY <3>2, <3>3, Zenon
  <2>7. CoarseOf(g, b, big, z)
    <3>1. \A c, d \in 0..(n - 1) :
            \/ b[c][d] = WeightBetween(a, Members(c, part), Members(d, part))
            \/ b[c][d] = WeightBetween(a, Members(d, part), Members(c, part))
      BY <2>6, Zenon
    <3> QED BY <2>2, <2>3, <2>5, <3>1, MergedCoarse, Zenon
  <2>8. /\ graph' = g /\ adj' = b /\ node_to_orig' = big /\ node_weight' = z
        /\ comm' = [u \in DOMAIN b |-> u]
    <3>1. graph' = g /\ adj' = b /\ comm' = [u \in DOMAIN b |-> u]
      BY <1>1, <1>8, <2>1, <2>3, Zenon DEF Singletons
    <3>2. big = [c \in 0..(n - 1) |-> UNION {node_to_orig[u] : u \in Members(c, part)}]
      BY <2>1, <2>3, Zenon DEF MergedSets
    <3>3. z = [c \in 0..(n - 1) |-> Total(node_weight, Members(c, part))]
      BY <2>1, <2>3, Zenon DEF MergedSums
    <3> QED BY <1>8, <3>1, <3>2, <3>3, Zenon
  <2>9. lstage' \in {"move", "level", "map"}
    BY <1>8, EnterLevelStage, Zenon
  <2> QED BY <2>7, <2>8, <2>9, LevelEntered, Zenon
<1> QED BY <1>3, <1>6, <1>7, <1>8, Zenon DEF CoarsenLevel

\* The community of a vertex is that of its node.
LEMMA MappedBack ==
  ASSUME LevelOK, NEW n, Onto(comm, Nodes, n),
         NEW part, part = [v \in Vertices |-> comm[CHOOSE c \in Nodes : v \in node_to_orig[c]]]
  PROVE  /\ part \in [Vertices -> Vertices]
         /\ {part[v] : v \in Vertices} = 0..(Cardinality({part[v] : v \in Vertices}) - 1)
         /\ \A c \in Nodes : \A v \in node_to_orig[c] : part[v] = comm[c]
<1>1. /\ \A c \in Nodes : node_to_orig[c] # {} /\ node_to_orig[c] \in SUBSET Vertices
      /\ \A v \in Vertices : \E c \in Nodes : v \in node_to_orig[c]
      /\ \A c, d \in Nodes : c # d => node_to_orig[c] \cap node_to_orig[d] = {}
  BY Zenon DEF LevelOK, CoarseOf, Partition, Nodes, Vertices
<1>2. n \in Nat /\ comm \in [Nodes -> 0..(n - 1)]
      /\ \A k \in 0..(n - 1) : \E c \in Nodes : comm[c] = k
  BY Zenon DEF Onto
<1>3. ASSUME NEW c \in Nodes, NEW v \in node_to_orig[c]
      PROVE  part[v] = comm[c]
  <2>1. v \in Vertices
    BY <1>1, Zenon
  <2>2. PICK d : d = CHOOSE x \in Nodes : v \in node_to_orig[x]
    BY Zenon
  <2>3. d \in Nodes /\ v \in node_to_orig[d]
    BY <2>2, Zenon
  <2>4. d = c
    BY <1>1, <2>3, Zenon
  <2> QED BY <2>1, <2>2, <2>4, Zenon
<1>4. part \in [Vertices -> 0..(n - 1)]
  <2>1. ASSUME NEW v \in Vertices
        PROVE  part[v] \in 0..(n - 1)
    <3>1. PICK c \in Nodes : v \in node_to_orig[c]
      BY <1>1, Zenon
    <3> QED BY <1>2, <1>3, <3>1, Zenon
  <2> QED BY <2>1, Zenon
<1>5. ASSUME NEW k \in 0..(n - 1)
      PROVE  \E v \in Vertices : part[v] = k
  <2>1. PICK c \in Nodes : comm[c] = k
    BY <1>2, Zenon
  <2>2. PICK v : v \in node_to_orig[c]
    BY <1>1, Zenon
  <2> QED BY <1>1, <1>3, <2>1, <2>2, Zenon
<1>6. {part[v] : v \in Vertices} = 0..(n - 1)
  <2>1. \A v \in Vertices : part[v] \in 0..(n - 1)
    BY <1>4, Zenon
  <2>2. \A k \in 0..(n - 1) : \E v \in Vertices : k = part[v]
    BY <1>5, Zenon
  <2>3. PICK f : f = part
    BY Zenon
  <2>4. {f[v] : v \in Vertices} = 0..(n - 1)
    BY <2>1, <2>2, <2>3
  <2> QED BY <2>3, <2>4, Zenon
<1>7. PICK m \in Nat : Vertices = 0..(m - 1)
  <2>1. \E m \in Nat : DOMAIN graph = 0..(m - 1)
    BY Zenon DEF LevelOK, CoarseOf, Weighted, Square
  <2> QED BY <2>1, Zenon DEF Vertices
<1>8. Cardinality(0..(n - 1)) = n
  BY <1>2, IntervalSize
<1>9. IsFiniteSet(0..(m - 1)) /\ Cardinality(0..(m - 1)) = m
  BY <1>7, IntervalSize, Zenon
<1>10. n <= m
  <2>1. part \in Surjection(Vertices, 0..(n - 1))
    BY <1>4, <1>5, Zenon DEF Surjection
  <2>2. IsFiniteSet(Vertices) /\ Cardinality(Vertices) = m
    BY <1>7, <1>9, Zenon
  <2>3. Cardinality(0..(n - 1)) <= Cardinality(Vertices)
    BY <2>1, <2>2, FS_Surjection, Zenon
  <2> QED BY <1>8, <2>2, <2>3
<1>11. \A k \in 0..(n - 1) : k \in Vertices
  BY <1>2, <1>7, <1>10
<1>12. part \in [Vertices -> Vertices]
  BY <1>4, <1>11, Zenon
<1> QED BY <1>3, <1>6, <1>8, <1>12, Zenon

\* MapBack: what is returned.
LEMMA MapBackKeeps ==
  ASSUME LInv, MapBack
  PROVE  LInv'
<1>1. lstage = "map" /\ lstage' = "done" /\ graph' = graph /\ adj' = adj /\ comm' = comm
      /\ two_m' = two_m
  BY Zenon DEF MapBack
<1>2. LevelOK /\ \E n : Onto(comm, Nodes, n)
  BY <1>1, Zenon DEF LInv
<1>3. PICK part : part = [v \in Vertices |-> comm[CHOOSE c \in Nodes : v \in node_to_orig[c]]]
  BY Zenon
<1>4. /\ part \in [Vertices -> Vertices]
      /\ {part[v] : v \in Vertices} = 0..(Cardinality({part[v] : v \in Vertices}) - 1)
      /\ \A c \in Nodes : \A v \in node_to_orig[c] : part[v] = comm[c]
  BY <1>2, <1>3, MappedBack
<1>5. /\ result'.community = part
      /\ result'.num_communities = Cardinality({part[v] : v \in Vertices})
      /\ result'.modularity = ComputeModularity(part)
  BY <1>3 DEF MapBack
<1>6. ComputeModularity(part) = Modularity(graph, part)
  <2>1. Square(graph)
    BY <1>2, CoarseSquare, Zenon DEF LevelOK
  <2> QED BY <1>4, <2>1, ComputedModularity, Zenon
<1>7. Modularity(adj, comm) = Modularity(graph, part)
  <2>1. PICK g, a, orig, w, k : /\ g = graph /\ a = adj /\ orig = node_to_orig
                                /\ w = node_weight /\ k = comm
    BY Zenon
  <2>2. /\ CoarseOf(g, a, orig, w)
        /\ \A c \in DOMAIN a : \A v \in orig[c] : part[v] = k[c]
    BY <1>2, <1>4, <2>1, Zenon DEF LevelOK, Nodes
  <2>3. Modularity(a, k) = Modularity(g, part)
    BY <2>2, CoarseModularity
  <2> QED BY <2>1, <2>3, Zenon
<1>8. Modularity(adj, comm)' = Modularity(adj, comm)
  BY <1>1, Zenon DEF Modularity
<1>9. Modularity(graph, result.community)' = Modularity(graph, part)
  BY <1>1, <1>5, Zenon DEF Modularity
<1>10. Vertices' = Vertices
  BY <1>1, Zenon DEF Vertices
<1>11. {result.community[v] : v \in Vertices}' = (0..(result.num_communities - 1))'
  BY <1>4, <1>5, <1>10, Zenon
<1>12. ResultExact'
  BY <1>5, <1>6, <1>7, <1>8, <1>9, <1>11, Zenon DEF ResultExact
<1> QED BY <1>1, <1>12 DEF LInv

\* A step that is not one of Compute.
LEMMA LInvStutters ==
  ASSUME LInv, UNCHANGED lvars
  PROVE  LInv'
<1>1. /\ lstage' = lstage /\ two_m' = two_m /\ graph' = graph /\ adj' = adj
      /\ node_weight' = node_weight /\ comm' = comm /\ node_to_orig' = node_to_orig
      /\ any_moved' = any_moved /\ result' = result
  BY Zenon DEF lvars
<1>2. Nodes' = Nodes /\ Vertices' = Vertices
  BY <1>1, Zenon DEF Nodes, Vertices
<1>3. LevelOK => LevelOK'
  BY <1>1, <1>2, Zenon DEF LevelOK
<1>4. ResultExact => ResultExact'
  BY <1>1, <1>2, Zenon DEF ResultExact, Modularity
<1>5. (\E n : Onto(comm, Nodes, n)) => (\E n : Onto(comm', Nodes', n))
  BY <1>1, <1>2, Zenon
<1>6. comm = [u \in Nodes |-> u] => comm' = [u \in Nodes' |-> u]
  BY <1>1, <1>2, Zenon
<1> QED BY <1>1, <1>3, <1>4, <1>5, <1>6, Zenon DEF LInv

-----------------------------------------------------------------------------
(* What LocalMove chooses by.                                              *)

\* The sums LocalMove compares are those of the partition it moves, and the
\* communities chosen are nodes.
MoveOK ==
  /\ two_m \in Nat
  /\ comm \in [Nodes -> Nodes]
  /\ \A c \in Nodes : comm_total[c] = Total(node_weight, Members(c, comm))
  /\ \E k \in Nat : new_comm \in [0..(k - 1) -> Nodes]
  /\ lstage = "level" => new_comm = <<>>

MInv == lstage \in {"move", "level"} => MoveOK

\* A level is entered with every node in a community of its own.
LEMMA MoveEntered ==
  ASSUME NEW a, adj' = a, NEW w, \A c \in DOMAIN a : w[c] \in Nat, node_weight' = w,
         comm_total' = w, comm' = [u \in DOMAIN a |-> u], two_m' \in Nat, new_comm' = <<>>
  PROVE  MoveOK'
<1>1. Nodes' = DOMAIN a
  BY Zenon DEF Nodes
<1>2. comm' \in [DOMAIN a -> DOMAIN a]
  BY Zenon
<1>3. ASSUME NEW c \in DOMAIN a
      PROVE  w[c] = Total(w, Members(c, comm'))
  <2>1. Members(c, comm') = {c}
    <3>1. \A u : u \in Members(c, comm') <=> u \in DOMAIN a /\ u = c
      BY Zenon DEF Members
    <3> QED BY <3>1, Zenon
  <2>2. Total(w, {c}) = w[c]
    BY TotalSingle, Zenon
  <2> QED BY <2>1, <2>2, Zenon
<1>4. \A c \in Nodes' : comm_total'[c] = Total(node_weight', Members(c, comm'))
  BY <1>1, <1>3, Zenon
<1>5. (\E k \in Nat : new_comm \in [0..(k - 1) -> Nodes])'
  <2>1. <<>> \in [0..(0 - 1) -> Nodes']
    OBVIOUS
  <2> QED BY <2>1
<1> QED BY <1>1, <1>2, <1>4, <1>5, Zenon DEF MoveOK

\* The weighted degrees of a level can be summed.
LEMMA LevelWeights ==
  ASSUME LevelOK
  PROVE  /\ Weighted(adj) /\ Square(adj) /\ node_weight = RowSums(adj)
         /\ IsFiniteSet(Nodes) /\ \A u \in Nodes : node_weight[u] \in Nat
<1>1. Weighted(adj) /\ Square(adj) /\ node_weight = RowSums(adj)
  BY CoarseSquare, CoarseRows, Zenon DEF LevelOK
<1>2. \A u \in Nodes : node_weight[u] \in Nat
  BY <1>1, DegreeTotals, Zenon DEF Nodes
<1>3. IsFiniteSet(Nodes)
  BY <1>1, FlatType, Zenon DEF Nodes
<1> QED BY <1>1, <1>2, <1>3, Zenon

\* Compute up to the first level.
LEMMA StartLouvainMoves ==
  ASSUME NEW g, Weighted(g), StartLouvain(g)
  PROVE  MInv'
<1>1. /\ adj' = g /\ comm' = [u \in DOMAIN g |-> u] /\ new_comm' = <<>>
      /\ node_weight' = RowSums(g) /\ comm_total' = RowSums(g)
      /\ two_m' = Total(RowSums(g), DOMAIN g)
  BY Zenon DEF StartLouvain, Singletons
<1>2. PICK w : w = RowSums(g)
  BY Zenon
<1>3. Square(g)
  BY Zenon DEF Weighted
<1>4. \A c \in DOMAIN g : w[c] \in Nat
  BY <1>2, <1>3, DegreeTotals, Zenon
<1>5. IsFiniteSet(DOMAIN g)
  BY <1>3, FlatType, Zenon
<1>6. two_m' \in Nat
  BY <1>1, <1>2, <1>4, <1>5, TotalType, Zenon
<1>7. node_weight' = w /\ comm_total' = w
  BY <1>1, <1>2, Zenon
<1>8. MoveOK'
  BY <1>1, <1>4, <1>6, <1>7, MoveEntered, Zenon
<1> QED BY <1>8, Zenon DEF MInv

\* The communities a node may go to are nodes.
LEMMA BestAreNodes ==
  ASSUME comm \in [Nodes -> Nodes], NEW u \in Nodes, NEW c \in BestComms(u)
  PROVE  c \in Nodes /\ (c # comm[u] => Gain(u, c) > Gain(u, comm[u]))
<1>1. c = comm[u] \/ (c \in NeighborComms(u) /\ Gain(u, c) > Gain(u, comm[u]))
  BY Zenon DEF BestComms
<1>2. c \in NeighborComms(u) => c \in Nodes
  BY Zenon DEF NeighborComms
<1>3. comm[u] \in Nodes
  BY Zenon
<1> QED BY <1>1, <1>2, <1>3, Zenon

\* ChooseComm: the next node.
LEMMA ChooseMoves ==
  ASSUME MoveOK, ChooseComm
  PROVE  MoveOK'
<1>1. /\ lstage' = lstage /\ lstage = "move" /\ two_m' = two_m /\ adj' = adj
      /\ node_weight' = node_weight /\ comm' = comm /\ comm_total' = comm_total
  BY Zenon DEF ChooseComm
<1>2. Nodes' = Nodes
  BY <1>1, Zenon DEF Nodes
<1>3. PICK k \in Nat : new_comm \in [0..(k - 1) -> Nodes]
  BY Zenon DEF MoveOK
<1>4. Cardinality(DOMAIN new_comm) = k
  <2>1. DOMAIN new_comm = 0..(k - 1)
    BY <1>3, Zenon
  <2> QED BY <2>1, IntervalSize, Zenon
<1>5. PICK c : /\ k \in Nodes /\ c \in BestComms(k)
               /\ new_comm' = [v \in 0..k |-> IF v = k THEN c ELSE new_comm[v]]
  BY <1>4, Zenon DEF ChooseComm
<1>6. c \in Nodes
  BY <1>5, BestAreNodes, Zenon DEF MoveOK
<1>7. new_comm' \in [0..k -> Nodes]
  <2>1. \A v \in 0..k : v # k => v \in 0..(k - 1)
    BY <1>3
  <2>2. \A v \in 0..k : (IF v = k THEN c ELSE new_comm[v]) \in Nodes
    BY <1>3, <1>6, <2>1, Zenon
  <2> QED BY <1>5, <2>2, Zenon
<1>8. k + 1 \in Nat /\ 0..k = 0..((k + 1) - 1)
  BY <1>3
<1>9. (\E j \in Nat : new_comm \in [0..(j - 1) -> Nodes])'
  BY <1>2, <1>7, <1>8
<1>10. lstage' # "level"
  BY <1>1
<1> QED BY <1>1, <1>2, <1>9, <1>10, Zenon DEF MoveOK

\* ApplyMoves: the weights of the communities are summed anew.
LEMMA ApplyMovesMoves ==
  ASSUME MoveOK, ApplyMoves
  PROVE  MoveOK'
<1>1. /\ DOMAIN new_comm = Nodes /\ comm' = new_comm /\ two_m' = two_m /\ adj' = adj
      /\ node_weight' = node_weight /\ new_comm' = <<>>
      /\ comm_total' = AccumulateByComm(new_comm, node_weight)
  BY Zenon DEF ApplyMoves
<1>2. Nodes' = Nodes
  BY <1>1, Zenon DEF Nodes
<1>3. PICK k \in Nat : new_comm \in [0..(k - 1) -> Nodes]
  BY Zenon DEF MoveOK
<1>4. new_comm \in [Nodes -> Nodes]
  BY <1>1, <1>3
<1>5. \A c \in Nodes : comm_total'[c] = Total(node_weight, Members(c, new_comm))
  BY <1>1, Zenon DEF AccumulateByComm
<1>6. (\E j \in Nat : new_comm \in [0..(j - 1) -> Nodes])'
  <2>1. <<>> \in [0..(0 - 1) -> Nodes']
    OBVIOUS
  <2> QED BY <1>1, <2>1
<1>7. two_m' \in Nat
  BY <1>1, Zenon DEF MoveOK
<1> QED BY <1>1, <1>2, <1>4, <1>5, <1>6, <1>7, Zenon DEF MoveOK

\* Every step of Compute keeps what LocalMove compares true to the partition.
LEMMA ComputeMoves ==
  ASSUME LInv, MInv, LouvainStep, LInv'
  PROVE  MInv'
<1>1. CASE ChooseComm
  <2>1. lstage = "move"
    BY <1>1, Zenon DEF ChooseComm
  <2> QED BY <1>1, <2>1, ChooseMoves, Zenon DEF MInv
<1>2. CASE ApplyMoves
  <2>1. lstage = "move"
    BY <1>2, Zenon DEF ApplyMoves
  <2> QED BY <1>2, <2>1, ApplyMovesMoves, Zenon DEF MInv
<1>3. CASE CoarsenLevel
  <2>1. lstage = "level" /\ two_m' = two_m /\ new_comm' = new_comm
    BY <1>3, Zenon DEF CoarsenLevel
  <2>2. two_m \in Nat /\ new_comm = <<>>
    BY <2>1 DEF MInv, MoveOK
  <2>3. CASE lstage' \in {"move", "level"}
    <3>1. LevelOK'
      BY <2>3 DEF LInv
    <3>2. PICK g, a, orig, w : /\ g = graph' /\ a = adj' /\ orig = node_to_orig'
                               /\ w = node_weight'
      BY Zenon
    <3>3. CoarseOf(g, a, orig, w)
      BY <3>1, <3>2, Zenon DEF LevelOK
    <3>4. Square(a) /\ w = RowSums(a)
      BY <3>3, CoarseSquare, CoarseRows
    <3>5. \A u \in DOMAIN a : w[u] \in Nat
      BY <3>4, DegreeTotals, Zenon
    <3>6. comm_total' = w /\ comm' = [u \in DOMAIN a |-> u]
      <4>1. comm_total' = node_weight' /\ comm' = [u \in DOMAIN adj' |-> u]
        BY <1>3, <2>3 DEF CoarsenLevel, Singletons
      <4> QED BY <3>2, <4>1, Zenon
    <3>7. MoveOK'
      BY <2>1, <2>2, <3>2, <3>5, <3>6, MoveEntered, Zenon
    <3> QED BY <3>7, Zenon DEF MInv
  <2> QED BY <2>3, Zenon DEF MInv
<1>4. CASE MapBack
  <2>1. lstage' = "done"
    BY <1>4, Zenon DEF MapBack
  <2> QED BY <2>1 DEF MInv
<1> QED BY <1>1, <1>2, <1>3, <1>4, Zenon DEF LouvainStep

\* A step that is not one of Compute.
LEMMA MInvStutters ==
  ASSUME MInv, UNCHANGED lvars
  PROVE  MInv'
<1>1. /\ lstage' = lstage /\ two_m' = two_m /\ adj' = adj /\ node_weight' = node_weight
      /\ comm' = comm /\ comm_total' = comm_total /\ new_comm' = new_comm
  BY Zenon DEF lvars
<1>2. Nodes' = Nodes
  BY <1>1, Zenon DEF Nodes
<1> QED BY <1>1, <1>2, Zenon DEF MInv, MoveOK

\* The others of a community weigh what LocalMove takes for them.
LEMMA OthersWeigh ==
  ASSUME LevelOK, MoveOK, NEW u \in Nodes, NEW c \in Nodes,
         NEW O, O = Others(Nodes, comm, u, c)
  PROVE  /\ Total(adj[u], O) \in Nat /\ Total(node_weight, O) \in Nat
         /\ c # comm[u] => /\ comm_edge_weight(u, c) = Total(adj[u], O)
                           /\ comm_total[c] = Total(node_weight, O)
         /\ c = comm[u] => /\ comm_edge_weight(u, c) = Total(adj[u], O) + adj[u][u]
                           /\ comm_total[c] = Total(node_weight, O) + node_weight[u]
<1>1. /\ IsFiniteSet(Nodes) /\ \A v \in Nodes : node_weight[v] \in Nat
      /\ \A v \in Nodes : adj[u][v] \in Nat
  <2>1. Square(adj)
    BY LevelWeights, Zenon
  <2> QED BY <2>1, LevelWeights, Zenon DEF Square, Nodes
<1>2. \A v : v \in O <=> v \in Nodes /\ v # u /\ comm[v] = c
  BY DEF Others
<1>3. \A v : v \in Members(c, comm) <=> v \in Nodes /\ comm[v] = c
  BY Zenon DEF Members, MoveOK
<1>4. O \in SUBSET Nodes /\ IsFiniteSet(O) /\ u \notin O
  <2>1. O \in SUBSET Nodes
    BY <1>2, Zenon
  <2> QED BY <1>1, <1>2, <2>1, FS_Subset, Zenon
<1>5. \A v \in O \cup {u} : adj[u][v] \in Nat /\ node_weight[v] \in Nat
  BY <1>1, <1>4, Zenon
<1>6. Total(adj[u], O) \in Nat /\ Total(node_weight, O) \in Nat
  BY <1>4, <1>5, TotalType
<1>7. comm_total[c] = Total(node_weight, Members(c, comm))
  BY Zenon DEF MoveOK
<1>8. CASE c # comm[u]
  <2>1. Members(c, comm) = O
    BY <1>2, <1>3, <1>8, Zenon
  <2> QED BY <1>6, <1>7, <1>8, <2>1, Zenon DEF comm_edge_weight
<1>9. CASE c = comm[u]
  <2>1. PICK M : M = Members(c, comm)
    BY Zenon
  <2>2. M = O \cup {u}
    BY <1>2, <1>3, <1>9, <2>1
  <2>3. IsFiniteSet({u}) /\ O \cap {u} = {}
    BY <1>4, FS_Singleton, Zenon
  <2>4. PICK X : X = O
    BY Zenon
  <2>5. /\ IsFiniteSet(X) /\ X \cap {u} = {} /\ M = X \cup {u}
        /\ \A v \in X \cup {u} : adj[u][v] \in Nat
        /\ \A v \in X \cup {u} : node_weight[v] \in Nat
    BY <1>4, <1>5, <2>2, <2>3, <2>4, Zenon
  <2>6. Total(adj[u], M) = Total(adj[u], X) + Total(adj[u], {u})
    BY <2>3, <2>5, TotalSplit
  <2>7. Total(node_weight, M) = Total(node_weight, X) + Total(node_weight, {u})
    BY <2>3, <2>5, TotalSplit
  <2>8. Total(adj[u], {u}) = adj[u][u] /\ Total(node_weight, {u}) = node_weight[u]
    BY <1>5, TotalSingle, Zenon
  <2> QED BY <1>6, <1>7, <1>9, <2>1, <2>4, <2>6, <2>7, <2>8, Zenon DEF comm_edge_weight
<1> QED BY <1>8, <1>9, Zenon

\* A gain in the sums that LocalMove compares is a gain in modularity.
LEMMA GainPays ==
  ASSUME LevelOK, MoveOK, NEW u \in Nodes, NEW c \in Nodes, c # comm[u],
         Gain(u, c) > Gain(u, comm[u])
  PROVE  Modularity(adj, [comm EXCEPT ![u] = c]) > Modularity(adj, comm)
<1>1. comm \in [Nodes -> Nodes] /\ two_m \in Nat /\ comm[u] \in Nodes
  BY Zenon DEF MoveOK
<1>2. PICK A, C : A = Others(Nodes, comm, u, comm[u]) /\ C = Others(Nodes, comm, u, c)
  BY Zenon
<1>3. /\ Total(adj[u], A) \in Nat /\ Total(node_weight, A) \in Nat
      /\ comm_edge_weight(u, comm[u]) = Total(adj[u], A) + adj[u][u]
      /\ comm_total[comm[u]] = Total(node_weight, A) + node_weight[u]
  <2>1. PICK z : z = comm[u]
    BY Zenon
  <2>2. z \in Nodes /\ A = Others(Nodes, comm, u, z)
    BY <1>1, <1>2, <2>1, Zenon
  <2>3. /\ Total(adj[u], A) \in Nat /\ Total(node_weight, A) \in Nat
        /\ z = comm[u] => /\ comm_edge_weight(u, z) = Total(adj[u], A) + adj[u][u]
                          /\ comm_total[z] = Total(node_weight, A) + node_weight[u]
    BY <2>2, OthersWeigh, Zenon
  <2> QED BY <2>1, <2>3
<1>4. /\ Total(adj[u], C) \in Nat /\ Total(node_weight, C) \in Nat
       /\ comm_edge_weight(u, c) = Total(adj[u], C)
       /\ comm_total[c] = Total(node_weight, C)
  <2>1. C = Others(Nodes, comm, u, c)
    BY <1>2, Zenon
  <2>2. /\ Total(adj[u], C) \in Nat /\ Total(node_weight, C) \in Nat
        /\ c # comm[u] => /\ comm_edge_weight(u, c) = Total(adj[u], C)
                          /\ comm_total[c] = Total(node_weight, C)
    BY <2>1, OthersWeigh, Zenon
  <2> QED BY <2>2, Zenon
<1>5. /\ Weighted(adj) /\ node_weight = RowSums(adj)
       /\ node_weight[u] \in Nat /\ resolution \in Nat
  BY <1>1, LevelWeights, LouvainParameters, Zenon
<1>6. Gain(u, c) = two_m * Total(adj[u], C) - resolution * (node_weight[u] * Total(node_weight, C))
  <2>1. Gain(u, c) = two_m * Total(adj[u], C) - resolution * node_weight[u] * Total(node_weight, C)
    BY <1>4, Zenon DEF Gain
  <2> QED BY <1>4, <1>5, <2>1
<1>7. Gain(u, comm[u]) =
         two_m * (Total(adj[u], A) + adj[u][u]) - resolution * (node_weight[u] * Total(node_weight, A))
  <2>1. comm_total[comm[u]] - node_weight[u] = Total(node_weight, A)
    BY <1>3, <1>5
  <2>2. Gain(u, comm[u]) =
          two_m * (Total(adj[u], A) + adj[u][u]) - resolution * node_weight[u] * Total(node_weight, A)
    BY <1>3, <2>1, Zenon DEF Gain
  <2> QED BY <1>3, <1>5, <2>2
<1>8. two_m * Total(adj[u], C) - resolution * (node_weight[u] * Total(node_weight, C))
         > two_m * (Total(adj[u], A) + adj[u][u]) - resolution * (node_weight[u] * Total(node_weight, A))
  BY <1>1, <1>6, <1>7, Zenon
<1>9. PICK a, w, V, part : a = adj /\ w = node_weight /\ V = Nodes /\ part = comm
  BY Zenon
<1>10. /\ Weighted(a) /\ w = RowSums(a) /\ V = DOMAIN a /\ part \in [V -> V] /\ u \in V /\ c \in V
       /\ A = Others(V, part, u, part[u]) /\ C = Others(V, part, u, c) /\ c # part[u]
       /\ two_m * Total(a[u], C) - resolution * (w[u] * Total(w, C))
            > two_m * (Total(a[u], A) + a[u][u]) - resolution * (w[u] * Total(w, A))
  BY <1>1, <1>2, <1>5, <1>8, <1>9, Zenon DEF Nodes
<1>11. Modularity(a, [part EXCEPT ![u] = c]) > Modularity(a, part)
  BY <1>1, <1>10, MoveGains
<1> QED BY <1>9, <1>11, Zenon

\* ChooseComm: a node that changes its community raises the modularity.
LEMMA ChoicePays ==
  ASSUME LInv, MInv, ChooseComm,
         NEW u, u = Cardinality(DOMAIN new_comm), NEW c, c = new_comm'[u], c # comm[u]
  PROVE  Modularity(adj, [comm EXCEPT ![u] = c]) > Modularity(adj, comm)
<1>1. lstage = "move"
  BY Zenon DEF ChooseComm
<1>2. LevelOK /\ MoveOK
  BY <1>1 DEF LInv, MInv
<1>3. PICK k \in Nat : new_comm \in [0..(k - 1) -> Nodes]
  BY <1>2, Zenon DEF MoveOK
<1>4. Cardinality(DOMAIN new_comm) = k
  <2>1. DOMAIN new_comm = 0..(k - 1)
    BY <1>3, Zenon
  <2> QED BY <2>1, IntervalSize, Zenon
<1>5. PICK d : /\ k \in Nodes /\ d \in BestComms(k)
               /\ new_comm' = [v \in 0..k |-> IF v = k THEN d ELSE new_comm[v]]
  BY <1>4, Zenon DEF ChooseComm
<1>6. u = k /\ c = d
  <2>1. k \in 0..k
    BY <1>3
  <2> QED BY <1>4, <1>5, <2>1, Zenon
<1>7. /\ u \in Nodes /\ comm \in [Nodes -> Nodes] /\ two_m \in Nat /\ comm[u] \in Nodes
      /\ c \in Nodes /\ Gain(u, c) > Gain(u, comm[u])
  <2>1. u \in Nodes /\ c \in BestComms(u) /\ comm \in [Nodes -> Nodes] /\ two_m \in Nat
    BY <1>2, <1>5, <1>6, Zenon DEF MoveOK
  <2> QED BY <2>1, BestAreNodes, Zenon
<1> QED BY <1>2, <1>7, GainPays
==============================================================================
