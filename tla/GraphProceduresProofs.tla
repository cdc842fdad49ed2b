------------------------ MODULE GraphProceduresProofs ------------------------
(***************************************************************************)
(* Every sequence of procedure calls, on every stored graph and every      *)
(* projection: BuildGraph is exact for every number of threads and every   *)
(* interleaving, RunKCore gives the coreness, and Louvain's coarse graphs, *)
(* its result and the gain of every move are those of the definitions.     *)
(* ComputerProofs and LouvainProofs have the steps of the computations;    *)
(* here is what the procedures hand to them: the graphs that CALL KCORE,   *)
(* CALL LOUVAIN and the projections build are undirected.                  *)
(***************************************************************************)
EXTENDS GraphProcedures, ComputerProofs, LouvainProofs

-----------------------------------------------------------------------------
(* The global ids of step 1.                                               *)

\* The labels of a stored graph are finitely many numbers.
LEMMA LabelTypes ==
  ASSUME NEW s \in Stored
  PROVE  /\ IsFiniteSet(DOMAIN s.labels) /\ DOMAIN s.labels \subseteq Nat
         /\ Mapped(s) \subseteq Valid(s) /\ Valid(s) \subseteq DOMAIN s.labels
         /\ \A l \in DOMAIN s.labels : s.labels[l].size \in Nat
<1>1. IsFiniteSet(DOMAIN s.labels) /\ \A l \in DOMAIN s.labels : s.labels[l].size \in Nat
  BY StoredAssumption, Zenon
<1>2. PICK n : n = Cardinality(DOMAIN s.labels) /\ DOMAIN s.labels = 0..(n - 1)
  BY StoredAssumption, Zenon
<1>3. n \in Nat
  BY <1>1, <1>2, FS_CardinalityType, Zenon
<1>4. DOMAIN s.labels \subseteq Nat
  BY <1>2, <1>3
<1> QED BY <1>1, <1>4, Zenon DEF Mapped, Valid

\* A numbered vertex is a label with an offset and a vid below its size.
LEMMA NumberedTypes ==
  ASSUME NEW s \in Stored, NEW p
  PROVE  p \in Numbered(s) <=>
           \E l \in Mapped(s), v \in Nat : p = <<l, v>> /\ v < s.labels[l].size
<1>1. ASSUME NEW l \in Mapped(s), NEW v
      PROVE  v \in 0..(s.labels[l].size - 1) <=> v \in Nat /\ v < s.labels[l].size
  <2>1. PICK n \in Nat : n = s.labels[l].size
    BY LabelTypes, Zenon
  <2>2. v \in 0..(n - 1) <=> v \in Nat /\ v < n
    OBVIOUS
  <2> QED BY <2>1, <2>2, Zenon
<1>2. p \in Numbered(s) <=> \E l \in Mapped(s) : p \in {l} \X (0..(s.labels[l].size - 1))
  BY Zenon DEF Numbered, VerticesOf
<1>3. ASSUME NEW l, NEW S
      PROVE  p \in {l} \X S <=> \E v \in S : p = <<l, v>>
  OBVIOUS
<1> QED BY <1>1, <1>2, <1>3

\* There are finitely many of them.
LEMMA NumberedFinite ==
  ASSUME NEW s \in Stored
  PROVE  IsFiniteSet(Numbered(s)) /\ NumVertex(s) \in Nat
<1>1. IsFiniteSet(Mapped(s))
  <2>1. Mapped(s) \in SUBSET DOMAIN s.labels
    BY LabelTypes, Zenon
  <2> QED BY <2>1, LabelTypes, FS_Subset, Zenon
<1>2. PICK f : f = [l \in Mapped(s) |-> {l} \X (0..(s.labels[l].size - 1))]
  BY Zenon
<1>3. PICK S : S = {{l} \X (0..(s.labels[l].size - 1)) : l \in Mapped(s)}
  BY Zenon
<1>4. IsFiniteSet(S)
  <2>1. f \in Surjection(Mapped(s), S)
    BY <1>2, <1>3, Zenon DEF Surjection
  <2> QED BY <1>1, <2>1, FS_Surjection, Zenon
<1>5. ASSUME NEW l \in Mapped(s)
      PROVE  IsFiniteSet({l} \X (0..(s.labels[l].size - 1)))
  <2>1. PICK n, I : n \in Nat /\ n = s.labels[l].size /\ I = 0..(n - 1)
    BY LabelTypes, Zenon
  <2>2. IsFiniteSet(I)
    BY <2>1, FS_Interval
  <2>3. IsFiniteSet({l})
    BY FS_Singleton, Zenon
  <2> QED BY <2>1, <2>2, <2>3, FS_Product, Zenon
<1>6. IsFiniteSet(UNION S)
  BY <1>3, <1>4, <1>5, FS_UNION, Zenon
<1>7. Numbered(s) = UNION S
  BY <1>3, Zenon DEF Numbered, VerticesOf
<1> QED BY <1>6, <1>7, FS_CardinalityType, Zenon DEF NumVertex

\* A set that has all vertices up to p has more of them than the id of p.
LEMMA IdBelow ==
  ASSUME NEW s \in Stored, NEW p \in Numbered(s), NEW S \in SUBSET Numbered(s),
         \A q \in Numbered(s) : q[1] < p[1] \/ (q[1] = p[1] /\ q[2] <= p[2]) => q \in S
  PROVE  GlobalId(s, p) \in Nat /\ GlobalId(s, p) < Cardinality(S)
<1>1. PICK l \in Mapped(s), v \in Nat : p = <<l, v>> /\ v < s.labels[l].size
  BY NumberedTypes, Zenon
<1>2. l \in Nat /\ s.labels[l].size \in Nat
  BY <1>1, LabelTypes, Zenon
<1>3. p[1] = l /\ p[2] = v
  BY <1>1
<1>4. PICK B, C : B = {q \in Numbered(s) : q[1] < l} /\ C = {l} \X (0..v)
  BY Zenon
<1>5. B \cup C \in SUBSET S
  <2>1. ASSUME NEW q \in B
        PROVE  q \in S
    BY <1>3, <1>4, <2>1
  <2>2. ASSUME NEW q \in C
        PROVE  q \in S
    <3>1. PICK w \in 0..v : q = <<l, w>>
      BY <1>4, <2>2
    <3>2. w \in Nat /\ w <= v /\ w < s.labels[l].size
      BY <1>1, <1>2, <3>1
    <3>3. q \in Numbered(s)
      BY <3>1, <3>2, NumberedTypes, Zenon
    <3>4. q[1] = p[1] /\ q[2] <= p[2]
      BY <1>3, <3>1, <3>2
    <3> QED BY <3>3, <3>4, Zenon
  <2> QED BY <2>1, <2>2, Zenon
<1>6. IsFiniteSet(S) /\ IsFiniteSet(B) /\ Cardinality(B) \in Nat /\ Cardinality(S) \in Nat
  <2>1. B \in SUBSET Numbered(s)
    BY <1>4, Zenon
  <2> QED BY <2>1, NumberedFinite, FS_Subset, FS_CardinalityType, Zenon
<1>7. IsFiniteSet(C) /\ Cardinality(C) = v + 1
  <2>1. PICK X, I : X = {l} /\ I = 0..v
    BY Zenon
  <2>2. IsFiniteSet(I) /\ Cardinality(I) = v + 1
    BY <2>1, FS_Interval
  <2>3. IsFiniteSet(X) /\ Cardinality(X) = 1
    BY <2>1, FS_Singleton, Zenon
  <2>4. IsFiniteSet(X \X I) /\ Cardinality(X \X I) = Cardinality(X) * Cardinality(I)
    BY <2>2, <2>3, FS_Product, Zenon
  <2>5. IsFiniteSet(C) /\ Cardinality(C) = 1 * (v + 1)
    BY <1>4, <2>1, <2>2, <2>3, <2>4, Zenon
  <2> QED BY <2>5
<1>8. B \cap C = {}
  BY <1>2, <1>4
<1>9. Cardinality(B \cup C) = Cardinality(B) + Cardinality(C)
  BY <1>6, <1>7, <1>8, DisjointSize, Zenon
<1>10. Cardinality(B \cup C) <= Cardinality(S)
  BY <1>5, <1>6, FS_Subset, Zenon
<1>11. GlobalId(s, p) = Cardinality(B) + v
  BY <1>3, <1>4, Zenon DEF GlobalId, label_offset
<1> QED BY <1>6, <1>7, <1>9, <1>10, <1>11

\* The global ids are below num_vertex_.
LEMMA IdsInRange ==
  ASSUME NEW s \in Stored, NEW p \in Numbered(s)
  PROVE  GlobalId(s, p) \in 0..(NumVertex(s) - 1)
<1>1. Numbered(s) \in SUBSET Numbered(s)
  BY Zenon
<1>2. PICK n \in Nat, u \in Nat : n = NumVertex(s) /\ u = GlobalId(s, p) /\ u < n
  BY <1>1, NumberedFinite, IdBelow, Zenon DEF NumVertex
<1>3. u \in 0..(n - 1)
  BY <1>2
<1> QED BY <1>2, <1>3, Zenon

\* Vertices of different labels, or two of one, have different ids.
LEMMA IdsOrdered ==
  ASSUME NEW s \in Stored, NEW p \in Numbered(s), NEW q \in Numbered(s), p[1] < q[1]
  PROVE  GlobalId(s, p) < GlobalId(s, q)
<1>1. PICK l, m \in Nat, v, w \in Nat : p = <<l, v>> /\ q = <<m, w>>
  BY NumberedTypes, LabelTypes
<1>2. PICK S : S = {r \in Numbered(s) : r[1] < q[1]}
  BY Zenon
<1>3. ASSUME NEW r \in Numbered(s), r[1] < p[1] \/ (r[1] = p[1] /\ r[2] <= p[2])
      PROVE  r \in S
  <2>1. r[1] \in Nat
    <3>1. PICK k \in Mapped(s), x \in Nat : r = <<k, x>>
      BY NumberedTypes
    <3>2. k \in Nat
      BY <3>1, LabelTypes, Zenon
    <3> QED BY <3>1, <3>2
  <2>2. p[1] \in Nat /\ q[1] \in Nat
    BY <1>1
  <2>3. r[1] < q[1]
    BY <1>3, <2>1, <2>2
  <2> QED BY <1>2, <2>3, Zenon
<1>4. S \in SUBSET Numbered(s)
  BY <1>2, Zenon
<1>5. GlobalId(s, p) \in Nat /\ GlobalId(s, p) < Cardinality(S)
  BY <1>3, <1>4, IdBelow, Zenon
<1>6. Cardinality(S) \in Nat
  BY <1>4, NumberedFinite, FS_Subset, FS_CardinalityType, Zenon
<1>7. q[2] \in Nat
  BY <1>1
<1>8. GlobalId(s, q) = Cardinality(S) + q[2]
  BY <1>2, Zenon DEF GlobalId, label_offset
<1> QED BY <1>5, <1>6, <1>7, <1>8

\* No two vertices share a global id.
LEMMA IdsDiffer ==
  ASSUME NEW s \in Stored, NEW p \in Numbered(s), NEW q \in Numbered(s),
         GlobalId(s, p) = GlobalId(s, q)
  PROVE  p = q
<1>1. PICK l, m \in Nat, v, w \in Nat : p = <<l, v>> /\ q = <<m, w>>
  BY NumberedTypes, LabelTypes
<1>2. p[1] = l /\ p[2] = v /\ q[1] = m /\ q[2] = w
  BY <1>1
<1>3. GlobalId(s, p) \in Nat
  <2>1. NumVertex(s) \in Nat /\ GlobalId(s, p) \in 0..(NumVertex(s) - 1)
    BY NumberedFinite, IdsInRange, Zenon
  <2> QED BY <2>1
<1>4. ~(l < m)
  <2>1. ASSUME l < m
        PROVE  GlobalId(s, p) < GlobalId(s, q)
    BY <1>2, <2>1, IdsOrdered, Zenon
  <2> QED BY <1>3, <2>1
<1>5. ~(m < l)
  <2>1. ASSUME m < l
        PROVE  GlobalId(s, q) < GlobalId(s, p)
    BY <1>2, <2>1, IdsOrdered, Zenon
  <2> QED BY <1>3, <2>1
<1>6. l = m
  BY <1>4, <1>5
<1>7. PICK c : c = label_offset(s, l)
  BY Zenon
<1>8. c + v = c + w /\ c \in Nat
  <2>1. c + v = c + w
    BY <1>2, <1>6, <1>7, Zenon DEF GlobalId
  <2>2. {r \in Numbered(s) : r[1] < l} \in SUBSET Numbered(s)
    BY Zenon
  <2>3. c \in Nat
    BY <1>7, <2>2, NumberedFinite, FS_Subset, FS_CardinalityType, Zenon DEF label_offset
  <2> QED BY <2>1, <2>3
<1>9. v = w
  BY <1>8
<1> QED BY <1>1, <1>6, <1>9, Zenon

\* Every id below num_vertex_ is that of a vertex.
LEMMA IdsOnto ==
  ASSUME NEW s \in Stored, NEW u \in 0..(NumVertex(s) - 1)
  PROVE  \E p \in Numbered(s) : GlobalId(s, p) = u
<1>1. PICK n, I : n \in Nat /\ n = NumVertex(s) /\ I = 0..(n - 1)
  BY NumberedFinite, Zenon
<1>2. IsFiniteSet(I) /\ Cardinality(I) = n
  BY <1>1, FS_Interval
<1>3. PICK f : f = [p \in Numbered(s) |-> GlobalId(s, p)]
  BY Zenon
<1>4. f \in [Numbered(s) -> I] /\ \A p \in Numbered(s) : f[p] = GlobalId(s, p)
  BY <1>1, <1>3, IdsInRange, Zenon
<1>5. f \in Injection(Numbered(s), I)
  BY <1>4, IdsDiffer, Zenon DEF Injection, IsInjective
<1>6. f \in Surjection(Numbered(s), I)
  BY <1>1, <1>2, <1>5, FS_Injection, Zenon DEF NumVertex
<1> QED BY <1>1, <1>4, <1>6, Zenon DEF Surjection

\* The ends of a visited edge are numbered.
LEMMA VisibleEnds ==
  ASSUME NEW s \in Stored, NEW e \in Visible(s)
  PROVE  /\ e \in s.edges /\ e.label \in Labels /\ ~Skipped(s, e.label)
         /\ <<s.types[e.label][1], e.src>> \in Numbered(s)
         /\ <<s.types[e.label][2], e.dst>> \in Numbered(s)
<1>1. /\ e \in s.edges /\ ~Skipped(s, e.label)
      /\ e.dst < s.labels[s.types[e.label][2]].size
  BY Zenon DEF Visible
<1>2. PICK k, l, m : k = e.label /\ l = s.types[k][1] /\ m = s.types[k][2]
  BY Zenon
<1>3. k \in Labels /\ e.dst \in Nat /\ e.src \in 0..(s.labels[l].size - 1)
  BY <1>1, <1>2, StoredAssumption, Zenon
<1>4. l \in Mapped(s) /\ m \in Mapped(s)
  BY <1>1, <1>2, Zenon DEF Skipped
<1>5. s.labels[l].size \in Nat
  BY <1>4, LabelTypes, Zenon
<1>6. e.src \in Nat /\ e.src < s.labels[l].size
  BY <1>3, <1>5
<1>7. e.dst < s.labels[m].size
  BY <1>1, <1>2, Zenon
<1>8. <<l, e.src>> \in Numbered(s) /\ <<m, e.dst>> \in Numbered(s)
  BY <1>3, <1>4, <1>6, <1>7, NumberedTypes, Zenon
<1> QED BY <1>1, <1>2, <1>3, <1>8, Zenon

\* The fields of a visited edge.
LEMMA IdFields ==
  ASSUME NEW s, NEW e, NEW h, h = ByGlobalId(s, e)
  PROVE  /\ h.id = e.id /\ h.label = e.label
         /\ h.src = GlobalId(s, <<s.types[e.label][1], e.src>>)
         /\ h.dst = GlobalId(s, <<s.types[e.label][2], e.dst>>)
<1>1. PICK i, k, u, v : /\ i = e.id /\ k = e.label
                        /\ u = GlobalId(s, <<s.types[e.label][1], e.src>>)
                        /\ v = GlobalId(s, <<s.types[e.label][2], e.dst>>)
  BY Zenon
<1>2. h = [id |-> i, label |-> k, src |-> u, dst |-> v]
  BY <1>1, Zenon DEF ByGlobalId
<1>3. h.id = i /\ h.label = k /\ h.src = u /\ h.dst = v
  BY <1>2
<1> QED BY <1>1, <1>3, Zenon

\* The visited edges, by the ids of the edges they stand for.
LEMMA VisitedTypes ==
  ASSUME NEW s \in Stored
  PROVE  /\ IsFiniteSet(Visited(s))
         /\ \A h \in Visited(s) : /\ h.src \in 0..(NumVertex(s) - 1)
                                  /\ h.dst \in 0..(NumVertex(s) - 1)
                                  /\ h.label \in Labels /\ h.src \in SourceIds(s, h.label)
         /\ \A k : SourceIds(s, k) \subseteq 0..(NumVertex(s) - 1)
<1>1. IsFiniteSet(Visited(s))
  <2>1. IsFiniteSet(s.edges) /\ Visible(s) \in SUBSET s.edges
    BY StoredAssumption, Zenon DEF Visible
  <2>2. IsFiniteSet(Visible(s))
    BY <2>1, FS_Subset, Zenon
  <2>3. PICK f : f = [e \in Visible(s) |-> ByGlobalId(s, e)]
    BY Zenon
  <2>4. f \in Surjection(Visible(s), Visited(s))
    BY <2>3, Zenon DEF Surjection, Visited
  <2> QED BY <2>2, <2>4, FS_Surjection, Zenon
<1>2. ASSUME NEW h \in Visited(s)
      PROVE  /\ h.src \in 0..(NumVertex(s) - 1) /\ h.dst \in 0..(NumVertex(s) - 1)
             /\ h.label \in Labels /\ h.src \in SourceIds(s, h.label)
  <2>1. PICK e \in Visible(s) : h = ByGlobalId(s, e)
    BY <1>2, Zenon DEF Visited
  <2>2. PICK p, q : /\ p = <<s.types[e.label][1], e.src>>
                    /\ q = <<s.types[e.label][2], e.dst>>
    BY Zenon
  <2>3. /\ p \in Numbered(s) /\ q \in Numbered(s)
        /\ e.label \in Labels /\ ~Skipped(s, e.label)
    BY <2>1, <2>2, VisibleEnds, Zenon
  <2>4. h.label = e.label /\ h.src = GlobalId(s, p) /\ h.dst = GlobalId(s, q)
    BY <2>1, <2>2, IdFields
  <2>5. p[1] = s.types[e.label][1]
    BY <2>2
  <2>6. h.src \in SourceIds(s, h.label)
    BY <2>3, <2>4, <2>5, Zenon DEF SourceIds
  <2> QED BY <2>3, <2>4, <2>6, IdsInRange, Zenon
<1>3. ASSUME NEW k
      PROVE  SourceIds(s, k) \subseteq 0..(NumVertex(s) - 1)
  BY IdsInRange, Zenon DEF SourceIds
<1> QED BY <1>1, <1>2, <1>3, Zenon

\* Where the labels are dense, the visited edges between two vertices are as
\* many as the edges that join them.
LEMMA JoiningVisited ==
  ASSUME NEW s \in Stored, LabelsDense(s), NEW p \in Numbered(s), NEW q \in Numbered(s)
  PROVE  Cardinality({h \in Visited(s) : h.src = GlobalId(s, p) /\ h.dst = GlobalId(s, q)})
           = Cardinality(Joining(s, p, q))
<1>1. PICK H : H = {h \in Visited(s) : h.src = GlobalId(s, p) /\ h.dst = GlobalId(s, q)}
  BY Zenon
<1>2. PICK J : J = Joining(s, p, q)
  BY Zenon
<1>3. PICK f : f = [e \in J |-> ByGlobalId(s, e)]
  BY Zenon
<1>4. ASSUME NEW e \in J
      PROVE  /\ e \in Visible(s)
             /\ <<s.types[e.label][1], e.src>> = p /\ <<s.types[e.label][2], e.dst>> = q
  <2>1. /\ e \in s.edges /\ ~e.deleted /\ e.src \notin s.labels[p[1]].removed
        /\ <<s.types[e.label][1], e.src>> = p /\ <<s.types[e.label][2], e.dst>> = q
    BY <1>2, <1>4, Zenon DEF Joining
  <2>2. PICK l, m, v, w : p = <<l, v>> /\ l \in Mapped(s)
                          /\ q = <<m, w>> /\ m \in Mapped(s) /\ w < s.labels[m].size
    BY NumberedTypes
  <2>3. p[1] = l /\ s.types[e.label][1] = l /\ s.types[e.label][2] = m /\ e.dst = w
    BY <2>1, <2>2
  <2>4. e \in Visible(s)
    BY <2>1, <2>2, <2>3, Zenon DEF Visible, Skipped
  <2> QED BY <2>1, <2>4, Zenon
<1>5. \A e \in J : f[e] = ByGlobalId(s, e)
  BY <1>3, Zenon
<1>6. f \in [J -> H]
  <2>1. ASSUME NEW e \in J
        PROVE  ByGlobalId(s, e) \in H
    <3>1. PICK h : h = ByGlobalId(s, e)
      BY Zenon
    <3>2. h.src = GlobalId(s, p) /\ h.dst = GlobalId(s, q)
      BY <1>4, <3>1, IdFields
    <3>3. h \in Visited(s)
      BY <1>4, <3>1, Zenon DEF Visited
    <3> QED BY <1>1, <3>1, <3>2, <3>3, Zenon
  <2> QED BY <1>3, <2>1, Zenon
<1>7. ASSUME NEW e \in J, NEW g \in J, f[e] = f[g]
      PROVE  e = g
  <2>1. ByGlobalId(s, e) = ByGlobalId(s, g)
    BY <1>5, <1>7, Zenon
  <2>2. ASSUME NEW x
        PROVE  ByGlobalId(s, x).id = x.id
    BY DEF ByGlobalId
  <2>3. ByGlobalId(s, e).id = e.id /\ ByGlobalId(s, g).id = g.id
    BY <2>2, Zenon
  <2>4. e.id = g.id
    BY <2>1, <2>3, Zenon
  <2>5. e.id = g.id /\ e \in s.edges /\ g \in s.edges
    BY <1>4, <2>4, Zenon DEF Visible
  <2> QED BY <2>5, StoredAssumption, Zenon
<1>8. ASSUME NEW h \in H
      PROVE  \E e \in J : f[e] = h
  <2>1. h \in Visited(s) /\ h.src = GlobalId(s, p) /\ h.dst = GlobalId(s, q)
    BY <1>1, <1>8, Zenon
  <2>2. PICK e \in Visible(s) : h = ByGlobalId(s, e)
    BY <2>1, Zenon DEF Visited
  <2>3. PICK a, b : /\ a = <<s.types[e.label][1], e.src>>
                    /\ b = <<s.types[e.label][2], e.dst>>
    BY Zenon
  <2>4. a \in Numbered(s) /\ b \in Numbered(s)
    BY <2>2, <2>3, VisibleEnds, Zenon
  <2>5. GlobalId(s, a) = GlobalId(s, p) /\ GlobalId(s, b) = GlobalId(s, q)
    BY <2>1, <2>2, <2>3, IdFields, Zenon
  <2>6. a = p /\ b = q
    BY <2>4, <2>5, IdsDiffer, Zenon
  <2>7. s.types[e.label][1] = p[1]
    BY <2>3, <2>6
  <2>8. /\ e \in s.edges /\ ~e.deleted
        /\ e.src \notin s.labels[s.types[e.label][1]].removed
    BY <2>2, Zenon DEF Visible
  <2>9. e.src \notin s.labels[p[1]].removed
    BY <2>7, <2>8, Zenon
  <2>10. e \in J
    BY <1>2, <2>3, <2>6, <2>8, <2>9, Zenon DEF Joining
  <2> QED BY <1>5, <2>2, <2>10, Zenon
<1>9. f \in Bijection(J, H)
  BY <1>6, <1>7, <1>8, Zenon DEF Bijection, Injection, IsInjective, Surjection
<1>10. IsFiniteSet(J)
  <2>1. J \in SUBSET s.edges
    BY <1>2, Zenon DEF Joining
  <2> QED BY <2>1, StoredAssumption, FS_Subset, Zenon
<1>11. Cardinality(H) = Cardinality(J)
  BY <1>9, <1>10, FS_Bijection, Zenon DEF ExistsBijection
<1> QED BY <1>1, <1>2, <1>11, Zenon

\* Where the labels are dense, the sequential build has the weights of the
\* stored graph.
LEMMA SequentialExact ==
  ASSUME NEW s \in Stored, LabelsDense(s)
  PROVE  WeightsOf(s, SequentialWeights(s))
<1> DEFINE From(u, v) == Cardinality({h \in Visited(s) : h.src = u /\ h.dst = v})
<1>1. PICK V : V = 0..(NumVertex(s) - 1)
  BY Zenon
<1>2. PICK w : w = SequentialWeights(s)
  BY Zenon
<1>3. w = [u \in V |-> [v \in V |-> From(u, v) + From(v, u)]]
  BY <1>1, <1>2, Zenon DEF SequentialWeights
<1>4. ASSUME NEW p \in Numbered(s), NEW q \in Numbered(s)
      PROVE  From(GlobalId(s, p), GlobalId(s, q)) = Cardinality(Joining(s, p, q))
  BY <1>4, JoiningVisited, Zenon
<1> HIDE DEF From
<1>5. DOMAIN w = V /\ \A u, v \in V : w[u][v] = From(u, v) + From(v, u)
  BY <1>3
<1>6. ValidVertices(s) = Numbered(s)
  BY Zenon DEF ValidVertices, Numbered, LabelsDense
<1>7. \A p \in Numbered(s) : GlobalId(s, p) \in V
  BY <1>1, IdsInRange, Zenon
<1>8. \A u \in V : \E p \in Numbered(s) : GlobalId(s, p) = u
  BY <1>1, IdsOnto, Zenon
<1>9. \A p, q \in Numbered(s) : GlobalId(s, p) = GlobalId(s, q) => p = q
  BY IdsDiffer, Zenon
<1>10. ASSUME NEW p \in Numbered(s), NEW q \in Numbered(s)
       PROVE  w[GlobalId(s, p)][GlobalId(s, q)]
                = Cardinality(Joining(s, p, q)) + Cardinality(Joining(s, q, p))
  BY <1>4, <1>5, <1>7, Zenon
<1>11. WeightsOf(s, w)
  BY <1>5, <1>6, <1>7, <1>8, <1>9, <1>10, Zenon DEF WeightsOf
<1> QED BY <1>2, <1>11, Zenon

-----------------------------------------------------------------------------
(* BuildGraph.                                                             *)

\* A build runs only inside its call, before the computation.
CallOK ==
  /\ proc = "none" => bstage = "idle" /\ lstage = "idle" /\ kstage = "idle"
  /\ bstage \in {"count", "fill"} => lstage = "idle" /\ kstage = "idle"

\* A call starts with an empty loop; an empty graph is complete at once.
LEMMA StartBuildKeeps ==
  ASSUME BInv, NEW s \in Stored, StartBuild(s)
  PROVE  BInv'
<1>1. PICK n, V, first : /\ n \in Nat /\ n = NumVertex(s) /\ V = 0..(n - 1) /\ first = SourceIds(s, 1)
  BY NumberedFinite, Zenon
<1>2. /\ bstage = "idle" /\ stored' = s /\ num_vertex' = n /\ live' = Visited(s)
      /\ bstage' = IF n = 0 THEN "built" ELSE "count"
      /\ label' = 1 /\ sources' = first /\ AllVertices' = V
      /\ cursor' = [u \in V |-> 0] /\ lists' = [u \in V |-> <<>>]
      /\ left' = left /\ held' = held
  BY <1>1, Zenon DEF StartBuild, AllVertices
<1>3. NoneHeld' /\ left' = [t \in Threads |-> {}]
  BY <1>2, Zenon DEF BInv, NoneHeld, Idle
<1>4. GraphOK'
  <2>1. /\ IsFiniteSet(Visited(s))
        /\ \A h \in Visited(s) : /\ h.src \in V /\ h.dst \in V
                                 /\ h.label \in Labels /\ h.src \in SourceIds(s, h.label)
        /\ \A k : SourceIds(s, k) \subseteq V
    BY <1>1, VisitedTypes, Zenon
  <2>2. LabelsDense(s) => WeightsOf(s, SequentialWeights(s))
    BY SequentialExact, Zenon
  <2> QED BY <1>1, <1>2, <2>1, <2>2, Zenon DEF GraphOK
<1>5. CASE n = 0
  <2>1. AllVertices' = {} /\ V = {}
    BY <1>1, <1>2, <1>5
  <2>2. ListWeights' = [u \in {} |-> 0]
    BY <2>1, Zenon DEF ListWeights
  <2>3. SequentialWeights(s) = [u \in {} |-> 0]
    BY <1>1, <2>1, Zenon DEF SequentialWeights
  <2>4. ListWeights' = SequentialWeights(stored)'
    BY <1>2, <2>2, <2>3, Zenon
  <2>5. LabelsDense(stored)' => WeightsOf(stored, ListWeights)'
    BY <1>4, <2>4, Zenon DEF GraphOK
  <2>6. Complete'
    BY <2>1, <2>4, <2>5, Zenon DEF Complete
  <2> QED BY <1>2, <1>3, <1>5, <2>6 DEF BInv
<1>6. CASE n # 0
  <2>1. Cardinality(Labels) \in Nat /\ Labels = 1..Cardinality(Labels)
    BY LabelsAssumption, FS_CardinalityType
  <2>2. LoopOK'
    <3>1. label' \in Nat /\ (label' \in Labels \/ Labels = {})
      BY <1>2, <2>1
    <3>2. cursor' \in [AllVertices' -> Nat]
      BY <1>2
    <3>3. sources' \subseteq AllVertices'
      BY <1>1, <1>2, VisitedTypes, Zenon
    <3>4. /\ left' \in [Threads -> SUBSET Edges']
          /\ \A t \in Threads : left'[t] = {}
      BY <1>3, Zenon
    <3> QED BY <3>1, <3>2, <3>3, <3>4, Zenon DEF LoopOK
  <2>3. ASSUME NEW e \in Edges'
        PROVE  ~Handled(e)'
    <3>1. e \in live'
      BY DEF Edges
    <3>2. e.label \in Labels /\ e.src \in SourceIds(s, e.label)
      BY <1>2, <1>4, <3>1, Zenon DEF GraphOK
    <3>3. e.label \in Nat /\ e.label >= 1 /\ (e.label = 1 => e.src \in sources')
      BY <1>1, <1>2, <2>1, <3>2
    <3> QED BY <1>2, <3>3 DEF Handled
  <2>4. ASSUME NEW u \in AllVertices'
        PROVE  cursor'[u] = Cardinality({k \in EndsAt(u)' : Handled(k[1])'})
    <3>1. \A k \in EndsAt(u)' : k[1] \in Edges'
      BY DEF EndsAt, Ends
    <3>2. {k \in EndsAt(u)' : Handled(k[1])'} = {}
      BY <2>3, <3>1, Zenon
    <3> QED BY <1>2, <3>2, FS_EmptySet, Zenon
  <2> QED BY <1>2, <1>3, <1>4, <1>6, <2>2, <2>4, Zenon DEF BInv, CountOK
<1> QED BY <1>5, <1>6

\* The computations run only after they were started.
LEMMA ComputeBusy ==
  /\ LouvainStep => lstage # "idle"
  /\ KcoreStep => kstage # "idle"
BY Zenon DEF LouvainStep, ChooseComm, ApplyMoves, CoarsenLevel, MapBack, KcoreStep, Peel,
       Visit, NextSlot

\* Every step of the procedures keeps the invariant.
LEMMA BInvNext ==
  ASSUME BInv, CallOK, [PNext]_allvars
  PROVE  BInv' /\ CallOK'
<1>1. CASE Build
  <2>1. bstage \in {"count", "fill"} /\ BInv'
    BY <1>1, BuildStepKeeps DEF Build
  <2>2. proc' = proc /\ lstage' = lstage /\ kstage' = kstage
    BY <1>1 DEF Build, pvars, lvars, kvars
  <2> QED BY <2>1, <2>2 DEF CallOK
<1>2. CASE ComputeBuilt
  <2>1. BInv'
    BY <1>2, BInvStutters DEF ComputeBuilt
  <2>2. bstage' = "built" /\ proc' = "LOUVAIN"
    BY <1>2, Zenon DEF ComputeBuilt, bvars, pvars
  <2> QED BY <2>1, <2>2 DEF CallOK
<1>3. CASE Compute
  <2>1. BInv' /\ bstage' = bstage /\ proc' = proc
    BY <1>3, BInvStutters, Zenon DEF Compute, bvars, pvars
  <2>2. lstage # "idle" \/ kstage # "idle"
    BY <1>3, ComputeBusy DEF Compute
  <2> QED BY <2>1, <2>2 DEF CallOK
<1>4. ASSUME NEW ms \in clock..MaxClock, Leave(ms)
      PROVE  BInv' /\ CallOK'
  <2>1. /\ bstage' = "idle" /\ lstage' = "idle" /\ kstage' = "idle"
        /\ left' = left /\ held' = held /\ "done" \in {lstage, kstage}
    BY <1>4 DEF Leave
  <2>2. bstage \notin {"count", "fill"}
    BY <2>1, Zenon DEF CallOK
  <2>3. NoneHeld' /\ left' = [t \in Threads |-> {}]
    BY <2>1, <2>2 DEF BInv, NoneHeld, Idle
  <2> QED BY <2>1, <2>3, Zenon DEF BInv, CallOK
<1>5. ASSUME NEW s \in Stored, CallLouvain(s)
      PROVE  BInv' /\ CallOK'
  <2>1. BInv'
    BY <1>5, StartBuildKeeps DEF CallLouvain
  <2>2. /\ proc = "none" /\ proc' = "LOUVAIN" /\ lstage' = lstage /\ kstage' = kstage
    BY <1>5 DEF CallLouvain, Called, lvars, kvars
  <2> QED BY <2>1, <2>2, Zenon DEF CallOK
<1>6. ASSUME NEW p, p # "none", Called(p), UNCHANGED bvars
      PROVE  BInv' /\ CallOK'
  <2>1. BInv' /\ bstage' = bstage /\ proc = "none" /\ proc' # "none"
    BY <1>6, BInvStutters DEF Called, bvars
  <2> QED BY <2>1 DEF CallOK
<1>7. ASSUME NEW s \in Stored, CallKcore(s)
      PROVE  BInv' /\ CallOK'
  BY <1>6, <1>7 DEF CallKcore
<1>8. ASSUME NEW b \in Bibliographies, NEW cfg \in Configs, CallProjected(b, cfg)
      PROVE  BInv' /\ CallOK'
  <2>1. \E p \in Louvains \cup {"KCORE_COAUTHOR", "KCORE_PROJECT"} : Called(p) /\ UNCHANGED bvars
    BY <1>8, Zenon DEF CallProjected
  <2>2. \A p \in Louvains \cup {"KCORE_COAUTHOR", "KCORE_PROJECT"} : p # "none"
    BY Zenon DEF Louvains
  <2> QED BY <1>6, <2>1, <2>2, Zenon
<1>9. CASE UNCHANGED allvars
  <2>1. UNCHANGED bvars /\ proc' = proc /\ bstage' = bstage /\ lstage' = lstage /\ kstage' = kstage
    BY <1>9, Zenon DEF allvars, pvars, bvars, lvars, kvars
  <2> QED BY <2>1, BInvStutters, Zenon DEF CallOK
<1> QED BY <1>1, <1>2, <1>3, <1>4, <1>5, <1>7, <1>8, <1>9, Zenon DEF PNext, Return, ReturnUnwritten

\* The invariant holds in every state of every sequence of calls.
THEOREM BInvHolds == PSpec => [](BInv /\ CallOK)
<1>1. PInit => BInv /\ CallOK
  BY DEF PInit, BInit, LInit, KInit, BInv, CallOK, NoneHeld
<1>2. BInv /\ CallOK /\ [PNext]_allvars => (BInv /\ CallOK)'
  BY BInvNext
<1> QED BY <1>1, <1>2, PTL DEF PSpec

\* The threads of BuildGraph write to slots of their own inside the lists, the
\* lists they leave are those of the sequential build, and where no label id is
\* at or above vertex_label_num they are those of the stored graph, vertex by
\* vertex and edge by edge: for every stored graph, every number of labels and
\* threads and every interleaving.
THEOREM BuildIsExact == PSpec => []BuiltExact
<1>1. BInv /\ CallOK => BuiltExact
  BY BInvExact
<1> QED BY <1>1, BInvHolds, PTL

-----------------------------------------------------------------------------
(* RunKCore.                                                               *)

\* KcoreComputer::BuildGraph enters every edge from both ends.
LEMMA SequentialUndirected ==
  ASSUME NEW s \in Stored
  PROVE  Undirected(SequentialWeights(s))
<1> DEFINE seen == Visited(s)
           From(u, v) == Cardinality({e \in seen : e.src = u /\ e.dst = v})
           V == 0..(NumVertex(s) - 1)
<1>1. NumVertex(s) \in Nat /\ IsFiniteSet(seen)
  BY NumberedFinite, VisitedTypes, Zenon
<1>2. SequentialWeights(s) = [u \in V |-> [v \in V |-> From(u, v) + From(v, u)]]
  BY Zenon DEF SequentialWeights
<1>3. ASSUME NEW u, NEW v
      PROVE  From(u, v) \in Nat
  <2>1. {e \in seen : e.src = u /\ e.dst = v} \in SUBSET seen
    BY Zenon
  <2> QED BY <1>1, <2>1, FS_Subset, FS_CardinalityType
<1>4. PICK w : w = SequentialWeights(s)
  OBVIOUS
<1>5. \A u, v \in V : w[u][v] = From(u, v) + From(v, u)
  BY <1>2, <1>4
<1>6. \A u, v \in V : w[u][v] = w[v][u]
  <2> HIDE DEF From
  <2> QED BY <1>3, <1>5
<1>7. DOMAIN w = V
  BY <1>2, <1>4, Zenon
<1> QED BY <1>1, <1>4, <1>6, <1>7 DEF Undirected

\* BuildCountryCoauthorProjection writes every entry both ways.
LEMMA CoauthorUndirected ==
  ASSUME NEW b \in Bibliographies, NEW cfg, NEW threshold
  PROVE  Undirected(CoauthorProjection(b, cfg, threshold))
<1>1. NumCountries(b) \in Nat
  <2> DEFINE S == {b.country[o] : o \in DOMAIN b.country}
             f == [o \in DOMAIN b.country |-> b.country[o]]
  <2>1. IsFiniteSet(DOMAIN b.country)
    BY BibliographyAssumption
  <2>2. f \in Surjection(DOMAIN b.country, S)
    BY DEF Surjection
  <2>3. IsFiniteSet(S)
    <3> HIDE DEF f, S
    <3> QED BY <2>1, <2>2, FS_Surjection
  <2>4. S \ {NoCountry} \in SUBSET S
    OBVIOUS
  <2>5. IsFiniteSet(S \ {NoCountry})
    BY <2>3, <2>4, FS_Subset
  <2> QED BY <2>5, FS_CardinalityType DEF NumCountries
<1>2. PICK n, w : n = NumCountries(b) /\ w = CoauthorProjection(b, cfg, threshold)
  OBVIOUS
<1> DEFINE A(i, j) == Cardinality({p \in DOMAIN b.year :
                                     {i, j} \subseteq cvec(b, p, cfg, cfg.max_coauthors)})
           W(i, j) == IF A(i, j) >= threshold THEN A(i, j) ELSE 0
<1>3. w = [i \in 0..(n - 1) |-> [j \in 0..(n - 1) |->
             IF i = j THEN 0 ELSE IF i < j THEN W(i, j) ELSE W(j, i)]]
  BY <1>2, Zenon DEF CoauthorProjection, Symmetric
<1> HIDE DEF W
<1>4. \A i, j \in 0..(n - 1) : w[i][j] = w[j][i]
  BY <1>1, <1>2, <1>3
<1>5. DOMAIN w = 0..(n - 1)
  BY <1>3, Zenon
<1> QED BY <1>1, <1>2, <1>4, <1>5, Zenon DEF Undirected

\* So does BuildOrgProjectProjection.
LEMMA OrgProjectUndirected ==
  ASSUME NEW b \in Bibliographies, NEW cfg
  PROVE  Undirected(OrgProjectProjection(b, cfg))
<1> DEFINE window == {p \in DOMAIN b.year : InWindow(b, p, cfg)}
           of(o) == {p \in window : o \in b.orgs[p]}
           keep == {o \in DOMAIN b.country :
                      of(o) # {} /\ Cardinality(of(o)) >= cfg.min_org_projects}
           small(p) == cfg.max_project_size > 0 =>
                         Cardinality(b.orgs[p]) <= cfg.max_project_size
           A(i, j) == Cardinality({p \in of(Kept(keep, i)) \cap of(Kept(keep, j)) : small(p)})
           W(i, j) == IF A(i, j) >= cfg.min_edge_weight THEN A(i, j) ELSE 0
<1>1. Cardinality(keep) \in Nat
  <2>1. IsFiniteSet(DOMAIN b.country)
    BY BibliographyAssumption
  <2>2. keep \in SUBSET DOMAIN b.country
    BY Zenon
  <2> HIDE DEF keep
  <2> QED BY <2>1, <2>2, FS_Subset, FS_CardinalityType, Zenon
<1>2. PICK n, w : n = Cardinality(keep) /\ w = OrgProjectProjection(b, cfg)
  BY Zenon
<1>3. w = [i \in 0..(n - 1) |-> [j \in 0..(n - 1) |->
             IF i = j THEN 0 ELSE IF i < j THEN W(i, j) ELSE W(j, i)]]
  BY <1>2, Zenon DEF OrgProjectProjection, Symmetric
<1>4. n \in Nat
  BY <1>1, <1>2
<1> HIDE DEF W, keep
<1>5. \A i, j \in 0..(n - 1) : w[i][j] = w[j][i]
  BY <1>3, <1>4
<1>6. DOMAIN w = 0..(n - 1)
  BY <1>3
<1> QED BY <1>2, <1>4, <1>5, <1>6 DEF Undirected

\* Every step of the procedures keeps the invariant.
LEMMA KInvNext ==
  ASSUME KInv, [PNext]_allvars
  PROVE  KInv'
<1>1. CASE Build \/ ComputeBuilt
  BY <1>1, KInvStutters DEF Build, ComputeBuilt
<1>2. CASE Compute
  BY <1>2, KInvStutters, KcoreStepKeeps, Zenon DEF Compute
<1>3. ASSUME NEW ms \in clock..MaxClock, Leave(ms)
      PROVE  KInv'
  BY <1>3 DEF Leave, KInv
<1>4. ASSUME NEW s \in Stored, CallLouvain(s) \/ CallKcore(s)
      PROVE  KInv'
  BY <1>4, KInvStutters, StartKeeps, SequentialUndirected DEF CallLouvain, CallKcore
<1>5. ASSUME NEW b \in Bibliographies, NEW cfg \in Configs, CallProjected(b, cfg)
      PROVE  KInv'
  <2>1. CASE UNCHANGED kvars
    BY <2>1, KInvStutters
  <2>2. CASE StartKCore(Projected("KCORE_COAUTHOR", b, cfg))
    <3>1. Projected("KCORE_COAUTHOR", b, cfg) = CoauthorProjection(b, cfg, cfg.min_edge_weight)
      BY DEF Projected
    <3> QED BY <2>2, <3>1, StartKeeps, CoauthorUndirected
  <2>3. CASE StartKCore(Projected("KCORE_PROJECT", b, cfg))
    <3>1. Projected("KCORE_PROJECT", b, cfg) = OrgProjectProjection(b, cfg)
      BY DEF Projected
    <3> QED BY <2>3, <3>1, StartKeeps, OrgProjectUndirected
  <2>4. \/ UNCHANGED kvars
        \/ \E p \in {"KCORE_COAUTHOR", "KCORE_PROJECT"} : StartKCore(Projected(p, b, cfg))
    BY <1>5 DEF CallProjected
  <2> QED BY <2>1, <2>2, <2>3, <2>4
<1>6. CASE UNCHANGED allvars
  <2>1. UNCHANGED kvars
    BY <1>6 DEF allvars
  <2> QED BY <2>1, KInvStutters
<1> QED BY <1>1, <1>2, <1>3, <1>4, <1>5, <1>6, Zenon DEF PNext, Return, ReturnUnwritten

\* The invariant holds in every state of every sequence of calls.
THEOREM KInvHolds == PSpec => []KInv
<1>1. PInit => KInv
  BY DEF PInit, KInit, KInv
<1>2. KInv /\ [PNext]_allvars => KInv'
  BY KInvNext
<1> QED BY <1>1, <1>2, PTL DEF PSpec

\* A peeled vertex has the coreness of the definition, on every stored graph
\* and every projection, in whatever order its neighbours were visited.
THEOREM CorenessIsExact == PSpec => []CorenessExact
<1>1. KInv => CorenessExact
  <2>1. kstage = "idle" => CorenessExact
    BY DEF CorenessExact
  <2> QED BY <2>1, PeelingExact DEF KInv
<1> QED BY <1>1, KInvHolds, PTL

\* Through every swap the arrays of RunKCore stay sorted and inverse to each
\* other, and a bin starts at the first vertex of its degree.
THEOREM BinsAreExact == PSpec => []BinsExact
<1>1. KInv => BinsExact
  <2>1. kstage \in {"idle", "done"} => BinsExact
    BY DEF BinsExact
  <2> QED BY <2>1, PeelingBins DEF KInv
<1> QED BY <1>1, KInvHolds, PTL

-----------------------------------------------------------------------------
(* The graphs that Compute is given.                                       *)

\* The sequential build enters every edge from both ends.
LEMMA SequentialWeighted ==
  ASSUME NEW s, NumVertex(s) \in Nat, IsFiniteSet(Visited(s))
  PROVE  Weighted(SequentialWeights(s))
<1> DEFINE seen == Visited(s)
           From(u, v) == Cardinality({e \in seen : e.src = u /\ e.dst = v})
           V == 0..(NumVertex(s) - 1)
<1>1. SequentialWeights(s) = [u \in V |-> [v \in V |-> From(u, v) + From(v, u)]]
  BY Zenon DEF SequentialWeights
<1>2. ASSUME NEW u, NEW v
      PROVE  From(u, v) \in Nat
  <2>1. {e \in seen : e.src = u /\ e.dst = v} \in SUBSET seen
    BY Zenon
  <2> QED BY <2>1, FS_Subset, FS_CardinalityType
<1> HIDE DEF From, seen
<1>3. PICK w : w = SequentialWeights(s)
  BY Zenon
<1>4. DOMAIN w = V /\ \A u \in V : DOMAIN w[u] = V
  BY <1>1, <1>3, Zenon
<1>5. ASSUME NEW u \in V, NEW v \in V
      PROVE  w[u][v] \in Nat /\ w[u][v] = w[v][u]
  <2>1. w[u][v] = From(u, v) + From(v, u) /\ w[v][u] = From(v, u) + From(u, v)
    BY <1>1, <1>3
  <2>2. From(u, v) \in Nat /\ From(v, u) \in Nat
    BY <1>2, Zenon
  <2> QED BY <2>1, <2>2
<1> QED BY <1>3, <1>4, <1>5, Zenon DEF Weighted, Square

\* The lists of the parallel build add up to the same weights.
LEMMA ListsWeighted ==
  ASSUME BuiltExact, bstage = "built", NumVertex(stored) \in Nat,
         IsFiniteSet(Visited(stored))
  PROVE  Weighted(ListWeights)
<1>1. ListWeights = SequentialWeights(stored)
  BY Zenon DEF BuiltExact
<1> QED BY <1>1, SequentialWeighted, Zenon

\* The entries of a projection, written both ways.
BothWays(A, n) ==
  [i \in 0..(n - 1) |-> [j \in 0..(n - 1) |->
     IF i = j THEN 0 ELSE IF i < j THEN A[i][j] ELSE A[j][i]]]

\* A projection is an undirected graph.
LEMMA SymmetricWeighted ==
  ASSUME NEW n \in Nat, NEW A, \A i, j \in 0..(n - 1) : A[i][j] \in Nat,
         NEW w, w = BothWays(A, n)
  PROVE  Weighted(w)
<1>1. DOMAIN w = 0..(n - 1) /\ \A u \in 0..(n - 1) : DOMAIN w[u] = 0..(n - 1)
  BY Zenon DEF BothWays
<1>2. \A i, j \in 0..(n - 1) :
        w[i][j] = IF i = j THEN 0 ELSE IF i < j THEN A[i][j] ELSE A[j][i]
  BY Zenon DEF BothWays
<1>3. \A u \in DOMAIN w : DOMAIN w[u] = DOMAIN w
  BY <1>1
<1>4. ASSUME NEW i \in DOMAIN w, NEW j \in DOMAIN w
      PROVE  w[i][j] \in Nat /\ w[i][j] = w[j][i]
  <2>0. i \in 0..(n - 1) /\ j \in 0..(n - 1)
    BY <1>1
  <2>1. /\ w[i][j] = IF i = j THEN 0 ELSE IF i < j THEN A[i][j] ELSE A[j][i]
        /\ w[j][i] = IF j = i THEN 0 ELSE IF j < i THEN A[j][i] ELSE A[i][j]
    BY <1>2, <2>0, Zenon
  <2>2. A[i][j] \in Nat /\ A[j][i] \in Nat
    BY <2>0, Zenon
  <2>3. i = j \/ (i < j /\ ~(j < i)) \/ (j < i /\ ~(i < j))
    BY <2>0
  <2> QED BY <2>1, <2>2, <2>3
<1>5. \E k \in Nat : DOMAIN w = 0..(k - 1)
  BY <1>1, Zenon
<1>6. Square(w)
  BY <1>3, <1>4, <1>5, Zenon DEF Square
<1> QED BY <1>4, <1>6, Zenon DEF Weighted

\* The countries are finitely many.
LEMMA CountriesNat ==
  ASSUME NEW b \in Bibliographies
  PROVE  NumCountries(b) \in Nat
<1>1. PICK R, f : R = {b.country[o] : o \in DOMAIN b.country} \ {NoCountry} /\ f = b.country
  BY Zenon
<1>2. \A y \in R : \E o \in DOMAIN f : y = f[o]
  BY <1>1, Zenon
<1>3. IsFiniteSet(DOMAIN f)
  BY <1>1, BibliographyAssumption, Zenon
<1>4. IsFiniteSet(R)
  BY <1>2, <1>3, FiniteRange, Zenon
<1> QED BY <1>1, <1>4, FS_CardinalityType, Zenon DEF NumCountries

\* LOUVAIN_COAUTHOR.
LEMMA CoauthorWeighted ==
  ASSUME NEW b \in Bibliographies, NEW cfg
  PROVE  Weighted(CoauthorProjection(b, cfg, 1))
<1> DEFINE Count(i, j) == Cardinality({p \in DOMAIN b.year :
                                         {i, j} \subseteq cvec(b, p, cfg, cfg.max_coauthors)})
           W(i, j) == IF Count(i, j) >= 1 THEN Count(i, j) ELSE 0
<1>1. ASSUME NEW i, NEW j
      PROVE  Count(i, j) \in Nat
  <2>1. PICK S : S = {p \in DOMAIN b.year : {i, j} \subseteq cvec(b, p, cfg, cfg.max_coauthors)}
    BY Zenon
  <2>2. S \in SUBSET DOMAIN b.year /\ IsFiniteSet(DOMAIN b.year)
    BY <2>1, BibliographyAssumption, Zenon
  <2>3. Cardinality(S) \in Nat
    BY <2>2, FS_Subset, FS_CardinalityType, Zenon
  <2> QED BY <2>1, <2>3, Zenon
<1>2. PICK n, w : n = NumCountries(b) /\ w = CoauthorProjection(b, cfg, 1)
  BY Zenon
<1>3. w = [i \in 0..(n - 1) |-> [j \in 0..(n - 1) |->
             IF i = j THEN 0 ELSE IF i < j THEN W(i, j) ELSE W(j, i)]]
  BY <1>2, Zenon DEF CoauthorProjection, Symmetric
<1> HIDE DEF Count
<1>4. \A i, j : W(i, j) \in Nat
  BY <1>1
<1> HIDE DEF W
<1>5. PICK A : A = [i \in 0..(n - 1) |-> [j \in 0..(n - 1) |-> W(i, j)]]
  BY Zenon
<1>6. \A i, j \in 0..(n - 1) : A[i][j] = W(i, j)
  BY <1>5, Zenon
<1>7. w = BothWays(A, n)
  BY <1>3, <1>6 DEF BothWays
<1>8. n \in Nat /\ \A i, j \in 0..(n - 1) : A[i][j] \in Nat
  BY <1>2, <1>4, <1>6, CountriesNat
<1>9. Weighted(w)
  BY <1>7, <1>8, SymmetricWeighted, Zenon
<1> QED BY <1>2, <1>9, Zenon

\* The smaller of two numbers.
LEMMA MinOfTwo ==
  ASSUME NEW x \in Nat, NEW y \in Nat
  PROVE  Min({x, y}) \in Nat
<1>1. PICK T : T = {x, y}
  BY Zenon
<1>2. T \subseteq Nat /\ T # {}
  BY <1>1
<1>3. \E u \in T : \A v \in T : u <= v
  BY <1>2, LeastElement, Zenon
<1>4. Min(T) \in T
  BY <1>3, Zenon DEF Min
<1> QED BY <1>1, <1>2, <1>4, Zenon

\* LOUVAIN_INFRA_COUNTRY.
LEMMA InfraWeighted ==
  ASSUME NEW b \in Bibliographies, NEW cfg
  PROVE  Weighted(InfraCountryProjection(b, cfg))
<1> DEFINE accepted(d) == {p \in b.hosts[d] : cvec(b, p, cfg, cfg.max_author_orgs) # {}}
           kept == {d \in DOMAIN b.hosts :
                      cfg.min_hosts > 0 => Cardinality(accepted(d)) >= cfg.min_hosts}
           coupling(d, i, j) == Min({HostCount(b, d, i, cfg), HostCount(b, d, j, cfg)})
           W(i, j) == Cardinality(UNION {{d} \X (1..coupling(d, i, j)) : d \in kept})
<1>1. PICK n, w : n = NumCountries(b) /\ w = InfraCountryProjection(b, cfg)
  BY Zenon
<1>2. w = [i \in 0..(n - 1) |-> [j \in 0..(n - 1) |->
             IF i = j THEN 0 ELSE IF i < j THEN W(i, j) ELSE W(j, i)]]
  BY <1>1, Zenon DEF InfraCountryProjection, Symmetric
<1>3. ASSUME NEW d \in DOMAIN b.hosts, NEW c
      PROVE  HostCount(b, d, c, cfg) \in Nat
  <2>1. PICK S : S = {p \in b.hosts[d] : c \in cvec(b, p, cfg, cfg.max_author_orgs)}
    BY Zenon
  <2>2. S \in SUBSET b.hosts[d] /\ IsFiniteSet(b.hosts[d])
    BY <2>1, BibliographyAssumption, Zenon
  <2>3. Cardinality(S) \in Nat
    BY <2>2, FS_Subset, FS_CardinalityType, Zenon
  <2> QED BY <2>1, <2>3, Zenon DEF HostCount
<1>4. kept \in SUBSET DOMAIN b.hosts /\ IsFiniteSet(DOMAIN b.hosts)
  BY BibliographyAssumption, Zenon
<1>5. IsFiniteSet(kept)
  BY <1>4, FS_Subset, Zenon
<1> HIDE DEF kept
<1>6. ASSUME NEW i, NEW j
      PROVE  W(i, j) \in Nat
  <2>1. PICK f : f = [d \in kept |-> coupling(d, i, j)]
    BY Zenon
  <2>2. ASSUME NEW d \in kept
        PROVE  f[d] = coupling(d, i, j) /\ f[d] \in Nat
    <3>1. HostCount(b, d, i, cfg) \in Nat /\ HostCount(b, d, j, cfg) \in Nat
      BY <1>3, <1>4, Zenon
    <3>2. coupling(d, i, j) \in Nat
      BY <3>1, MinOfTwo, Zenon
    <3> QED BY <2>1, <3>2, Zenon
  <2> HIDE DEF coupling
  <2>3. UNION {{d} \X (1..f[d]) : d \in kept} = UNION {{d} \X (1..coupling(d, i, j)) : d \in kept}
    BY <2>2
  <2>4. Total(f, kept) \in Nat
    BY <1>5, <2>2, TotalType, Zenon
  <2> QED BY <2>3, <2>4, Zenon DEF Total
<1> HIDE DEF W
<1>7. PICK A : A = [i \in 0..(n - 1) |-> [j \in 0..(n - 1) |-> W(i, j)]]
  BY Zenon
<1>8. \A i, j \in 0..(n - 1) : A[i][j] = W(i, j)
  BY <1>7, Zenon
<1>9. w = BothWays(A, n)
  BY <1>2, <1>8 DEF BothWays
<1>10. n \in Nat /\ \A i, j \in 0..(n - 1) : A[i][j] \in Nat
  BY <1>1, <1>6, <1>8, CountriesNat
<1>11. Weighted(w)
  BY <1>9, <1>10, SymmetricWeighted, Zenon
<1> QED BY <1>1, <1>11, Zenon

\* LOUVAIN_DATASOURCE.
LEMMA DatasourceWeighted ==
  ASSUME NEW b \in Bibliographies, NEW cfg, NEW cap
  PROVE  Weighted(DatasourceProjection(b, cfg, cap))
<1> DEFINE pubs(d) == {p \in b.hosts[d] : InWindow(b, p, cfg)}
           keep    == {d \in DOMAIN b.hosts :
                         pubs(d) # {} /\ Cardinality(pubs(d)) >= cfg.min_pubs}
           hosting(p) == {d \in keep : p \in pubs(d)}
           W(i, j) == Cardinality({p \in pubs(Kept(keep, i)) \cap pubs(Kept(keep, j)) :
                                     Cardinality(hosting(p)) <= cap})
<1>1. PICK n, w : n = Cardinality(keep) /\ w = DatasourceProjection(b, cfg, cap)
  BY Zenon
<1>2. w = [i \in 0..(n - 1) |-> [j \in 0..(n - 1) |->
             IF i = j THEN 0 ELSE IF i < j THEN W(i, j) ELSE W(j, i)]]
  BY <1>1, Zenon DEF DatasourceProjection, Symmetric
<1>3. \A d \in DOMAIN b.hosts : pubs(d) \in SUBSET b.hosts[d] /\ IsFiniteSet(b.hosts[d])
  BY BibliographyAssumption, Zenon
<1>4. \A d \in DOMAIN b.hosts : IsFiniteSet(pubs(d))
  BY <1>3, FS_Subset, Zenon
<1> HIDE DEF pubs
<1>5. /\ keep \in SUBSET DOMAIN b.hosts /\ IsFiniteSet(DOMAIN b.hosts)
      /\ DOMAIN b.hosts \subseteq Nat
  BY BibliographyAssumption, Zenon
<1>6. IsFiniteSet(keep) /\ keep \subseteq Nat
  BY <1>5, FS_Subset, Zenon
<1> HIDE DEF keep, hosting
<1>7. n \in Nat
  BY <1>1, <1>6, FS_CardinalityType, Zenon
<1>8. ASSUME NEW i \in 0..(n - 1), NEW j
      PROVE  W(i, j) \in Nat
  <2>1. Kept(keep, i) \in keep
    <3>1. \E v \in keep : Cardinality({x \in keep : x < v}) = i
      <4>1. \E v \in keep : RankIn(keep, v) = i
        BY <1>1, <1>6, RanksOnto
      <4> QED BY <4>1, Zenon DEF RankIn
    <3> QED BY <3>1, Zenon DEF Kept
  <2>2. IsFiniteSet(pubs(Kept(keep, i)))
    BY <1>4, <1>5, <2>1, Zenon
  <2>3. PICK S : S = {p \in pubs(Kept(keep, i)) \cap pubs(Kept(keep, j)) :
                        Cardinality(hosting(p)) <= cap}
    BY Zenon
  <2>4. S \in SUBSET pubs(Kept(keep, i))
    BY <2>3, Zenon
  <2>5. Cardinality(S) \in Nat
    BY <2>2, <2>4, FS_Subset, FS_CardinalityType, Zenon
  <2> QED BY <2>3, <2>5, Zenon
<1> HIDE DEF W
<1>9. PICK A : A = [i \in 0..(n - 1) |-> [j \in 0..(n - 1) |-> W(i, j)]]
  BY Zenon
<1>10. \A i, j \in 0..(n - 1) : A[i][j] = W(i, j)
  BY <1>9, Zenon
<1>11. w = BothWays(A, n)
  BY <1>2, <1>10 DEF BothWays
<1>12. \A i, j \in 0..(n - 1) : A[i][j] \in Nat
  BY <1>8, <1>10
<1>13. Weighted(w)
  BY <1>7, <1>11, <1>12, SymmetricWeighted, Zenon
<1> QED BY <1>1, <1>13, Zenon

-----------------------------------------------------------------------------
(* Compute.                                                                *)

\* The stored graph under a build is one of Stored.
StoredOK == bstage # "idle" => NumVertex(stored) \in Nat /\ IsFiniteSet(Visited(stored))

\* The steps of the build, which leave the stored graph as it is.
LEMMA BuildKeeps ==
  ASSUME StoredOK, BuildStep
  PROVE  StoredOK'
<1>1. (bstage # "idle" \/ bstage' = bstage) /\ stored' = stored
  BY DEF BuildStep, NextLabel, Allocate, FinishBuild, Claim, CountEdge, TakeSrcSlot,
         TakeDstSlot, WriteEntries
<1> QED BY <1>1, Zenon DEF StoredOK

\* What holds of Compute between any two steps.
ComputeInv == StoredOK /\ LInv /\ MInv

\* A step that is not one of Compute.
LEMMA ComputeStutters ==
  ASSUME ComputeInv, UNCHANGED lvars, StoredOK'
  PROVE  ComputeInv'
BY LInvStutters, MInvStutters, Zenon DEF ComputeInv

\* The start of Compute.
LEMMA ComputeStarts ==
  ASSUME NEW g, Weighted(g), StartLouvain(g), StoredOK'
  PROVE  ComputeInv'
BY StartLouvainKeeps, StartLouvainMoves, Zenon DEF ComputeInv

\* Every step of the procedures keeps the invariant.
LEMMA ComputeNext ==
  ASSUME ComputeInv, BuiltExact, [PNext]_allvars
  PROVE  ComputeInv'
<1>0. StoredOK /\ (UNCHANGED bvars => StoredOK')
  <2>1. UNCHANGED bvars => bstage' = bstage /\ stored' = stored
    BY Zenon DEF bvars
  <2> QED BY <2>1, Zenon DEF ComputeInv, StoredOK
<1>1. CASE Build
  BY <1>0, <1>1, BuildKeeps, ComputeStutters, Zenon DEF Build
<1>2. CASE ComputeBuilt
  <2>1. bstage = "built" /\ StartLouvain(ListWeights) /\ UNCHANGED bvars
    BY <1>2, Zenon DEF ComputeBuilt
  <2>2. NumVertex(stored) \in Nat /\ IsFiniteSet(Visited(stored))
    BY <1>0, <2>1 DEF StoredOK
  <2>3. Weighted(ListWeights)
    BY <2>1, <2>2, ListsWeighted, Zenon
  <2> QED BY <1>0, <2>1, <2>3, ComputeStarts, Zenon
<1>3. CASE Compute
  <2>1. CASE LouvainStep /\ UNCHANGED bvars
    <3>1. LInv'
      BY <2>1, MovesKeep, CoarsenKeeps, MapBackKeeps, Zenon DEF ComputeInv, LouvainStep
    <3>2. MInv'
      BY <2>1, <3>1, ComputeMoves, Zenon DEF ComputeInv
    <3> QED BY <1>0, <2>1, <3>1, <3>2, Zenon DEF ComputeInv
  <2>2. CASE UNCHANGED <<bvars, lvars>>
    BY <1>0, <2>2, ComputeStutters
  <2>3. (LouvainStep /\ UNCHANGED bvars) \/ UNCHANGED <<bvars, lvars>>
    BY <1>3 DEF Compute
  <2> QED BY <2>1, <2>2, <2>3, Zenon
<1>4. ASSUME NEW ms \in clock..MaxClock, Leave(ms)
      PROVE  ComputeInv'
  <2>1. lstage' = "idle" /\ bstage' = "idle"
    BY <1>4, Zenon DEF Leave
  <2> QED BY <2>1 DEF ComputeInv, StoredOK, LInv, MInv
<1>5. ASSUME NEW s \in Stored, CallLouvain(s)
      PROVE  ComputeInv'
  <2>1. stored' = s /\ UNCHANGED lvars
    BY <1>5, Zenon DEF CallLouvain, StartBuild
  <2>2. NumVertex(s) \in Nat /\ IsFiniteSet(Visited(s))
    BY NumberedFinite, VisitedTypes, Zenon
  <2>3. StoredOK'
    BY <2>1, <2>2, Zenon DEF StoredOK
  <2> QED BY <2>1, <2>3, ComputeStutters, Zenon
<1>6. ASSUME NEW s \in Stored, CallKcore(s)
      PROVE  ComputeInv'
  <2>1. UNCHANGED bvars /\ UNCHANGED lvars
    BY <1>6 DEF CallKcore
  <2> QED BY <1>0, <2>1, ComputeStutters, Zenon
<1>7. ASSUME NEW b \in Bibliographies, NEW cfg \in Configs, CallProjected(b, cfg)
      PROVE  ComputeInv'
  <2>1. CASE UNCHANGED bvars /\ UNCHANGED lvars
    BY <1>0, <2>1, ComputeStutters, Zenon
  <2>2. ASSUME NEW p \in Louvains \ {"LOUVAIN"}, StartLouvain(Projected(p, b, cfg)),
               UNCHANGED bvars
        PROVE  ComputeInv'
    <3>1. \/ Projected(p, b, cfg) = CoauthorProjection(b, cfg, 1)
          \/ Projected(p, b, cfg) = InfraCountryProjection(b, cfg)
          \/ Projected(p, b, cfg) = DatasourceProjection(b, cfg, PubDsCap)
      BY DEF Projected, Louvains
    <3>2. Weighted(Projected(p, b, cfg))
      BY <3>1, CoauthorWeighted, InfraWeighted, DatasourceWeighted
    <3> QED BY <1>0, <2>2, <3>2, ComputeStarts, Zenon
  <2>3. \/ UNCHANGED bvars /\ UNCHANGED lvars
        \/ \E p \in Louvains \ {"LOUVAIN"} :
             StartLouvain(Projected(p, b, cfg)) /\ UNCHANGED bvars
    BY <1>7 DEF CallProjected
  <2> QED BY <2>1, <2>2, <2>3, Zenon
<1>8. CASE UNCHANGED allvars
  <2>1. UNCHANGED bvars /\ UNCHANGED lvars
    BY <1>8 DEF allvars
  <2> QED BY <1>0, <2>1, ComputeStutters, Zenon
<1> QED BY <1>1, <1>2, <1>3, <1>4, <1>5, <1>6, <1>7, <1>8, Zenon
        DEF PNext, Return, ReturnUnwritten

\* On every stored graph and every projection, the level under work is a
\* coarse graph of level 0, the partition of the last level is numbered
\* without gaps, and the sums LocalMove compares are those of its partition.
THEOREM ComputeInvHolds == PSpec => []ComputeInv
<1>1. PInit => ComputeInv
  BY DEF PInit, BInit, LInit, LInv, MInv, StoredOK, ComputeInv
<1>2. ComputeInv /\ BuiltExact /\ [PNext]_allvars => ComputeInv'
  BY ComputeNext
<1> QED BY <1>1, <1>2, BuildIsExact, PTL DEF PSpec

\* However often Compute has coarsened the graph, the super-nodes partition
\* the vertices, and the weights between them and their degrees are those of
\* level 0.
THEOREM CoarseIsExact == PSpec => []CoarseExact
<1>1. LInv => CoarseExact
  <2> SUFFICES ASSUME LevelOK
               PROVE  CoarseExact
    BY DEF LInv, CoarseExact
  <2>1. CoarseOf(graph, adj, node_to_orig, node_weight) /\ Nodes = DOMAIN adj
        /\ Vertices = DOMAIN graph
    BY Zenon DEF LevelOK, Nodes, Vertices
  <2>2. Square(graph) /\ node_weight = RowSums(adj)
    BY <2>1, CoarseSquare, CoarseRows
  <2>3. /\ \A c \in Nodes : node_to_orig[c] # {} /\ node_to_orig[c] \in SUBSET Vertices
        /\ \A v \in Vertices : \E c \in Nodes : v \in node_to_orig[c]
        /\ \A c, d \in Nodes : c # d => node_to_orig[c] \cap node_to_orig[d] = {}
    BY <2>1 DEF CoarseOf, Partition
  <2>4. ASSUME NEW a \in Nodes, NEW b \in Nodes
        PROVE  adj[a][b] = WeightBetween(graph, node_to_orig[a], node_to_orig[b])
    <3>1. adj[a][b] = Total(Flat(graph), node_to_orig[a] \X node_to_orig[b])
      BY <2>1 DEF CoarseOf
    <3>2. node_to_orig[a] \in SUBSET DOMAIN graph /\ node_to_orig[b] \in SUBSET DOMAIN graph
      BY <2>1, <2>3
    <3> QED BY <2>2, <3>1, <3>2, BetweenIsFlat
  <2> QED BY <2>2, <2>3, <2>4 DEF CoarseExact
<1>2. ComputeInv => LInv
  BY DEF ComputeInv
<1> QED BY <1>1, <1>2, ComputeInvHolds, PTL

\* The communities returned are numbered without gaps, and the modularity
\* returned is that of the definition, on the graph and on the last coarse graph.
THEOREM ResultIsExact == PSpec => []ResultExact
<1>1. LInv => ResultExact
  BY DEF LInv, ResultExact
<1>2. ComputeInv => LInv
  BY DEF ComputeInv
<1> QED BY <1>1, <1>2, ComputeInvHolds, PTL

\* A node that changes its community raises the modularity of the level's
\* graph, on every graph, level and iteration: the gains that LocalMove
\* compares are differences of modularity.
THEOREM EveryMovePays == PSpec => MovesPay
<1>1. ComputeInv =>
        [ChooseComm =>
           LET u == Cardinality(DOMAIN new_comm)
               c == new_comm'[u]
           IN  c # comm[u] =>
                 Modularity(adj, [comm EXCEPT ![u] = c]) > Modularity(adj, comm)]_lvars
  BY ChoicePays, Zenon DEF ComputeInv
<1> QED BY <1>1, ComputeInvHolds, PTL DEF MovesPay
==============================================================================
