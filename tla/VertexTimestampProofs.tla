----------------------- MODULE VertexTimestampProofs -----------------------
(***************************************************************************)
(* The two representations of vertex timestamps are one map, for every     *)
(* capacity and every largest timestamp, as long as no vertex below        *)
(* init_vertex_num_ is inserted again.                                     *)
(***************************************************************************)
EXTENDS VertexTimestamp, FiniteSetTheorems, TLAPS

\* Above the border InsertVertex fills an empty entry or throws.
LEMMA InsertEntry ==
  ASSUME Workload = {}, VTypeOK,
         NEW v \in Vids, NEW ts \in Times, InsertVertex(v, ts)
  PROVE  /\ v >= first /\ v < lids
         /\ UNCHANGED <<first, max, removed, lids>>
         /\ \/ /\ inserted[v - first] = DELETED
               /\ inserted' = [inserted EXCEPT ![v - first] = ts]
               /\ live' = live \union {v}
            \/ UNCHANGED <<inserted, live>>
<1>1. /\ v < lids /\ ~(v < first)
      /\ max' = max /\ removed' = removed /\ lids' = lids
  BY Zenon DEF InsertVertex
<1>2. /\ first' = first
      /\ inserted' = IF inserted[v - first] # DELETED THEN inserted
                     ELSE [inserted EXCEPT ![v - first] = ts]
      /\ live' = IF inserted[v - first] # DELETED THEN live ELSE live \union {v}
  BY <1>1, Zenon DEF InsertVertex
<1>3. v >= first
  BY <1>1, VertexAssumption DEF VTypeOK, Vids
<1>4. CASE inserted[v - first] = DELETED
  BY <1>1, <1>2, <1>3, <1>4, Zenon
<1>5. CASE inserted[v - first] # DELETED
  BY <1>1, <1>2, <1>3, <1>5, Zenon
<1> QED BY <1>4, <1>5, Zenon

\* One entry changes.
LEMMA EntryTyped ==
  ASSUME VTypeOK, NEW v \in 0..(max - 1), v >= first, NEW t \in 0..DELETED
  PROVE  /\ v - first \in Entries(first, max)
         /\ [inserted EXCEPT ![v - first] = t] \in [Entries(first, max) -> 0..DELETED]
<1>1. v - first \in Entries(first, max)
  BY VertexAssumption DEF VTypeOK, Entries
<1>2. inserted \in [Entries(first, max) -> 0..DELETED]
  BY DEF VTypeOK
<1> QED BY <1>1, <1>2

\* A step that moves neither the border nor the capacity.
LEMMA SameShape ==
  ASSUME VTypeOK, first' = first, max' = max, lids' = lids,
         inserted' \in [Entries(first, max) -> 0..DELETED],
         removed' \subseteq 0..(first - 1), live' \subseteq 0..(lids - 1)
  PROVE  VTypeOK'
BY DEF VTypeOK, Entries

\* The entries keep their shape: every operation of VertexTimestamp leaves one
\* entry for each vertex from init_vertex_num_ to the capacity.
LEMMA TypeStep ==
  ASSUME Workload = {}, VTypeOK, [VNext]_vvars
  PROVE  VTypeOK'
<1>1. ASSUME NEW v \in Vids, NEW ts \in Times, InsertVertex(v, ts)
      PROVE  VTypeOK'
  <2>1. /\ v >= first /\ v < lids
        /\ first' = first /\ max' = max /\ removed' = removed /\ lids' = lids
    BY <1>1, InsertEntry, Zenon
  <2>2. \/ /\ inserted' = [inserted EXCEPT ![v - first] = ts]
           /\ live' = live \union {v}
        \/ inserted' = inserted /\ live' = live
    BY <1>1, InsertEntry, Zenon
  <2>3. v \in 0..(max - 1) /\ v \in 0..(lids - 1) /\ ts \in 0..DELETED
    BY <2>1, VertexAssumption DEF VTypeOK, Vids, Times
  <2>4. [inserted EXCEPT ![v - first] = ts] \in [Entries(first, max) -> 0..DELETED]
    BY <2>1, <2>3, EntryTyped
  <2>5. /\ inserted \in [Entries(first, max) -> 0..DELETED]
        /\ removed \subseteq 0..(first - 1) /\ live \subseteq 0..(lids - 1)
    BY DEF VTypeOK
  <2>6. /\ inserted' \in [Entries(first, max) -> 0..DELETED]
        /\ removed' \subseteq 0..(first - 1) /\ live' \subseteq 0..(lids - 1)
    BY <2>1, <2>2, <2>3, <2>4, <2>5, Zenon
  <2> QED BY <2>1, <2>6, SameShape
<1>2. ASSUME NEW v \in Vids, NEW ts \in Times, RemoveVertex(v, ts)
      PROVE  VTypeOK'
  <2>1. /\ v < lids /\ first' = first /\ max' = max /\ lids' = lids
        /\ live' = live \ {v}
    BY <1>2 DEF RemoveVertex
  <2>2. /\ inserted \in [Entries(first, max) -> 0..DELETED]
        /\ removed \subseteq 0..(first - 1) /\ live \subseteq 0..(lids - 1)
        /\ DELETED \in 0..DELETED
    BY VertexAssumption DEF VTypeOK
  <2>3. CASE v >= first
    <3>1. v \in 0..(max - 1)
      BY <2>1, <2>3, VertexAssumption DEF VTypeOK, Vids
    <3>2. /\ inserted' = [inserted EXCEPT ![v - first] = DELETED]
          /\ removed' = removed
      BY <1>2, <2>3 DEF RemoveVertex
    <3> QED BY <2>1, <2>2, <2>3, <3>1, <3>2, EntryTyped, SameShape
  <2>4. CASE ~(v >= first)
    <3>1. v \in 0..(first - 1)
      BY <2>4, VertexAssumption DEF VTypeOK, Vids
    <3>2. inserted' = inserted /\ removed' = removed \union {v}
      BY <1>2, <2>4 DEF RemoveVertex
    <3> QED BY <2>1, <2>2, <3>1, <3>2, SameShape
  <2> QED BY <2>3, <2>4
<1>3. ASSUME NEW v \in Vids, NEW ts \in Times, RevertRemoveVertex(v, ts)
      PROVE  VTypeOK'
  <2>1. /\ v < lids /\ first' = first /\ max' = max /\ lids' = lids
        /\ live' = live \union {v}
    BY <1>3 DEF RevertRemoveVertex
  <2>2. /\ inserted \in [Entries(first, max) -> 0..DELETED]
        /\ removed \subseteq 0..(first - 1) /\ live \subseteq 0..(lids - 1)
        /\ v \in 0..(lids - 1) /\ ts \in 0..DELETED
    BY <2>1, VertexAssumption DEF VTypeOK, Vids, Times
  <2>3. CASE v >= first
    <3>1. v \in 0..(max - 1)
      BY <2>1, <2>3, VertexAssumption DEF VTypeOK, Vids
    <3>2. inserted' = [inserted EXCEPT ![v - first] = ts] /\ removed' = removed
      BY <1>3, <2>3 DEF RevertRemoveVertex
    <3> QED BY <2>1, <2>2, <2>3, <3>1, <3>2, EntryTyped, SameShape
  <2>4. CASE ~(v >= first)
    <3>1. inserted' = inserted /\ removed' = removed \ {v}
      BY <1>3, <2>4 DEF RevertRemoveVertex
    <3> QED BY <2>1, <2>2, <3>1, SameShape
  <2> QED BY <2>3, <2>4
<1>4. ASSUME NEW size \in 1..Limit, Reserve(size)
      PROVE  VTypeOK'
  BY <1>4, VertexAssumption DEF Reserve, KeepFront, VTypeOK, Entries
<1>5. CASE NewLid
  BY <1>5 DEF NewLid, VTypeOK, Entries
<1>6. ASSUME NEW n \in 0..(max - first), Compact(n)
      PROVE  VTypeOK'
  BY <1>6, VertexAssumption DEF Compact, ResetTimestamps, VTypeOK, Entries
<1>7. CASE UNCHANGED vvars
  BY <1>7 DEF vvars, VTypeOK
<1> QED BY <1>1, <1>2, <1>3, <1>4, <1>5, <1>6, <1>7 DEF VNext

-----------------------------------------------------------------------------

Stamps(v, t) == \A w \in Vids : Stamp(w)' = IF w = v THEN t ELSE Stamp(w)

\* What a step does to the map and to the vertices that are in.
Inserts(v, t) ==
  Stamp(v) = DELETED /\ Stamps(v, t) /\ live' = live \union {v}

Removes(v) ==
  Stamp(v) # DELETED /\ Stamps(v, DELETED) /\ live' = live \ {v}

Resets ==
  /\ \A w \in Vids : Stamp(w)' = IF Stamp(w) = DELETED THEN DELETED ELSE 0
  /\ live' = live

Nothing == (\A w \in Vids : Stamp(w)' = Stamp(w)) /\ live' = live

MapStep ==
  \/ \E v \in Vids : (\E t \in Times : Inserts(v, t)) \/ Removes(v)
  \/ Resets
  \/ Nothing

\* Changing an entry changes the timestamp of its vertex and of no other.
LEMMA EntryStamps ==
  ASSUME VTypeOK, NEW v \in Vids, v >= first, v < max, NEW t \in 0..DELETED,
         first' = first, max' = max, removed' = removed,
         inserted' = [inserted EXCEPT ![v - first] = t]
  PROVE  Stamp(v) = inserted[v - first] /\ Stamps(v, t)
BY VertexAssumption DEF VTypeOK, Vids, Entries, Stamps, Stamp

\* So does a change of removed_vertices_.
LEMMA RemovedStamps ==
  ASSUME VTypeOK, NEW v \in Vids, v < first,
         first' = first, max' = max, inserted' = inserted
  PROVE  /\ removed' = removed \union {v} => Stamps(v, DELETED)
         /\ removed' = removed \ {v} => Stamps(v, 0)
         /\ Stamp(v) = IF v \in removed THEN DELETED ELSE 0
BY VertexAssumption DEF VTypeOK, Vids, Stamps, Stamp

\* Every operation of VertexTimestamp is an operation on the map.
LEMMA StepIsMapStep ==
  ASSUME Workload = {}, VTypeOK, [VNext]_vvars
  PROVE  MapStep
<1>0. DELETED \in 0..DELETED /\ Times \subseteq 0..DELETED /\ 0 \in Times
  BY VertexAssumption DEF Times
<1>1. ASSUME NEW v \in Vids, NEW ts \in Times, InsertVertex(v, ts)
      PROVE  MapStep
  <2>1. /\ v >= first /\ v < lids
        /\ first' = first /\ max' = max /\ removed' = removed
    BY <1>1, InsertEntry, Zenon
  <2>2. CASE /\ inserted[v - first] = DELETED
             /\ inserted' = [inserted EXCEPT ![v - first] = ts]
             /\ live' = live \union {v}
    <3>1. v < max
      BY <2>1 DEF VTypeOK, Vids
    <3>2. Inserts(v, ts)
      BY <1>0, <2>1, <2>2, <3>1, EntryStamps DEF Inserts
    <3> QED BY <3>2 DEF MapStep
  <2>3. CASE inserted' = inserted /\ live' = live
    BY <2>1, <2>3 DEF MapStep, Nothing, Stamp
  <2> QED BY <1>1, <2>2, <2>3, InsertEntry, Zenon
<1>2. ASSUME NEW v \in Vids, NEW ts \in Times, RemoveVertex(v, ts)
      PROVE  MapStep
  <2>1. /\ v < lids /\ first' = first /\ max' = max /\ live' = live \ {v}
        /\ IsVertexValid(v, ts)
    BY <1>2 DEF RemoveVertex
  <2>2. CASE v >= first
    <3>1. v < max
      BY <2>1 DEF VTypeOK, Vids
    <3>2. /\ inserted' = [inserted EXCEPT ![v - first] = DELETED]
          /\ removed' = removed
      BY <1>2, <2>2 DEF RemoveVertex
    <3>3. inserted[v - first] # DELETED
      BY <2>1, <2>2, VertexAssumption DEF IsVertexValid, Times
    <3>4. Removes(v)
      BY <1>0, <2>1, <2>2, <3>1, <3>2, <3>3, EntryStamps DEF Removes
    <3> QED BY <3>4 DEF MapStep
  <2>3. CASE ~(v >= first)
    <3>1. v < first
      BY <2>3 DEF VTypeOK, Vids
    <3>2. inserted' = inserted /\ removed' = removed \union {v} /\ v \notin removed
      BY <1>2, <2>1, <2>3 DEF RemoveVertex, IsVertexValid
    <3>3. Stamp(v) = 0 /\ Stamps(v, DELETED)
      BY <2>1, <3>1, <3>2, RemovedStamps
    <3>4. Removes(v)
      BY <2>1, <3>3, VertexAssumption DEF Removes
    <3> QED BY <3>4 DEF MapStep
  <2> QED BY <2>2, <2>3
<1>3. ASSUME NEW v \in Vids, NEW ts \in Times, RevertRemoveVertex(v, ts)
      PROVE  MapStep
  <2>1. /\ v < lids /\ first' = first /\ max' = max /\ live' = live \union {v}
        /\ IsRemoved(v)
    BY <1>3 DEF RevertRemoveVertex
  <2>2. CASE v >= first
    <3>1. v < max
      BY <2>1 DEF VTypeOK, Vids
    <3>2. /\ inserted' = [inserted EXCEPT ![v - first] = ts]
          /\ removed' = removed /\ inserted[v - first] = DELETED
      BY <1>3, <2>1, <2>2 DEF RevertRemoveVertex, IsRemoved
    <3>3. Inserts(v, ts)
      BY <1>0, <2>1, <2>2, <3>1, <3>2, EntryStamps DEF Inserts
    <3> QED BY <3>3 DEF MapStep
  <2>3. CASE ~(v >= first)
    <3>1. v < first
      BY <2>3 DEF VTypeOK, Vids
    <3>2. inserted' = inserted /\ removed' = removed \ {v} /\ v \in removed
      BY <1>3, <2>1, <2>3 DEF RevertRemoveVertex, IsRemoved
    <3>3. Inserts(v, 0)
      BY <2>1, <3>1, <3>2, RemovedStamps DEF Inserts
    <3> QED BY <1>0, <3>3 DEF MapStep
  <2> QED BY <2>2, <2>3
<1>4. ASSUME NEW size \in 1..Limit, Reserve(size)
      PROVE  MapStep
  <2>1. Nothing
    BY <1>4, VertexAssumption
    DEF Reserve, KeepFront, VTypeOK, Entries, Nothing, Stamp, Vids
  <2> QED BY <2>1 DEF MapStep
<1>5. CASE NewLid
  BY <1>5 DEF NewLid, MapStep, Nothing, Stamp
<1>6. ASSUME NEW n \in 0..(max - first), Compact(n)
      PROVE  MapStep
  <2>1. /\ first' = first + n /\ max' = max /\ removed' = removed /\ live' = live
        /\ first \in Nat /\ max \in Nat /\ n \in Nat /\ first + n <= max
        /\ DOMAIN inserted = 0..(max - first - 1)
        /\ removed \subseteq 0..(first - 1)
    BY <1>6, VertexAssumption DEF Compact, VTypeOK, Entries
  <2>2. \A i \in 0..(max - first - n - 1) :
          inserted'[i] = IF inserted[i + n] = DELETED THEN DELETED ELSE 0
    BY <1>6, <2>1 DEF Compact, ResetTimestamps, Entries
  <2>3. ASSUME NEW i \in 0..(n - 1)
        PROVE  inserted[i] # DELETED
    <3>1. i \in DOMAIN inserted
      BY <2>1
    <3>2. ResetTimestamps[i] = 0
      BY <1>6 DEF Compact, FirstNonZero
    <3> QED BY <3>1, <3>2, VertexAssumption DEF ResetTimestamps
  <2>4. ASSUME NEW w \in Vids
        PROVE  Stamp(w)' = IF Stamp(w) = DELETED THEN DELETED ELSE 0
    <3>0. w \in Nat
      BY <2>4, VertexAssumption DEF Vids
    <3>1. CASE w >= max
      BY <2>1, <3>0, <3>1 DEF Stamp
    <3>2. CASE w < max /\ w >= first + n
      <4>1. w - (first + n) \in 0..(max - first - n - 1)
        BY <2>1, <3>0, <3>2
      <4>2. (w - (first + n)) + n = w - first
        BY <2>1, <3>0
      <4>3. inserted'[w - (first + n)] =
              IF inserted[w - first] = DELETED THEN DELETED ELSE 0
        BY <2>2, <4>1, <4>2
      <4>4. Stamp(w) = inserted[w - first] /\ Stamp(w)' = inserted'[w - (first + n)]
        BY <2>1, <3>0, <3>2 DEF Stamp
      <4> QED BY <4>3, <4>4
    <3>3. CASE w < first + n /\ w >= first
      <4>1. w - first \in 0..(n - 1) /\ w \notin removed
        BY <2>1, <3>0, <3>3
      <4>2. Stamp(w) # DELETED /\ Stamp(w)' = 0
        BY <2>1, <2>3, <3>0, <3>3, <4>1 DEF Stamp
      <4> QED BY <4>2
    <3>4. CASE w < first
      BY <2>1, <3>0, <3>4, VertexAssumption DEF Stamp
    <3> QED BY <2>1, <3>0, <3>1, <3>2, <3>3, <3>4
  <2> QED BY <2>1, <2>4 DEF MapStep, Resets
<1>7. CASE UNCHANGED vvars
  BY <1>7 DEF vvars, MapStep, Nothing, Stamp
<1> QED BY <1>1, <1>2, <1>3, <1>4, <1>5, <1>6, <1>7 DEF VNext

-----------------------------------------------------------------------------

\* The shape of the entries, in every reachable state.
THEOREM VertexTypeCorrect ==
  ASSUME Workload = {}
  PROVE  VSpec => []VTypeOK
<1>1. VInit => VTypeOK
  BY VertexAssumption DEF VInit, VTypeOK, Entries
<1>2. VTypeOK /\ [VNext]_vvars => VTypeOK'
  BY TypeStep
<1> QED BY <1>1, <1>2, PTL DEF VSpec

\* foreach_vertex visits the vertices that have a timestamp.
LEMMA VerticesHaveStamps ==
  ASSUME VTypeOK
  PROVE  VerticesAt(DELETED - 1) = {w \in Vids : Stamp(w) # DELETED}
<1>1. ASSUME NEW w
      PROVE  w \in VerticesAt(DELETED - 1) <=> w \in Vids /\ Stamp(w) # DELETED
  BY VertexAssumption DEF VTypeOK, VerticesAt, Vids, Entries, Stamp
<1> QED BY <1>1

\* A map step keeps the vertices with a timestamp and those that are in equal.
LEMMA LiveStep ==
  ASSUME live \subseteq Vids, live = {w \in Vids : Stamp(w) # DELETED}, MapStep
  PROVE  live' = {w \in Vids : Stamp(w)' # DELETED}
<1>1. ASSUME NEW v \in Vids, NEW t \in Times, Inserts(v, t)
      PROVE  live' = {w \in Vids : Stamp(w)' # DELETED}
  <2>1. t # DELETED
    BY VertexAssumption DEF Times
  <2> QED BY <1>1, <2>1 DEF Inserts, Stamps
<1>2. ASSUME NEW v \in Vids, Removes(v)
      PROVE  live' = {w \in Vids : Stamp(w)' # DELETED}
  BY <1>2 DEF Removes, Stamps
<1>3. CASE Resets
  <2>1. DELETED # 0
    BY VertexAssumption
  <2> QED BY <1>3, <2>1 DEF Resets
<1>4. CASE Nothing
  BY <1>4 DEF Nothing
<1> QED BY <1>1, <1>2, <1>3, <1>4 DEF MapStep

\* Iterating over a vertex table finds what was inserted and not deleted,
\* whatever compactions moved below init_vertex_num_.
THEOREM ForeachIsExact ==
  ASSUME Workload = {}
  PROVE  VSpec => []ForeachExact
<1>a. VTypeOK => VerticesAt(DELETED - 1) = {w \in Vids : Stamp(w) # DELETED}
  BY VerticesHaveStamps
<1>b. (VTypeOK => VerticesAt(DELETED - 1) = {w \in Vids : Stamp(w) # DELETED})'
  BY <1>a, PTL
<1>1. VInit => VTypeOK /\ ForeachExact
  BY VertexAssumption DEF VInit, VTypeOK, Entries, ForeachExact, VerticesAt
<1>2. ASSUME VTypeOK, ForeachExact, [VNext]_vvars
      PROVE  VTypeOK' /\ ForeachExact'
  <2>1. VTypeOK'
    BY <1>2, TypeStep
  <2>2. live \subseteq Vids
    BY <1>2, VertexAssumption DEF VTypeOK, Vids
  <2>3. live = {w \in Vids : Stamp(w) # DELETED}
    BY <1>2, VerticesHaveStamps DEF ForeachExact
  <2>4. live' = {w \in Vids : Stamp(w)' # DELETED}
    BY <1>2, <2>2, <2>3, StepIsMapStep, LiveStep
  <2>5. VerticesAt(DELETED - 1)' = {w \in Vids : Stamp(w)' # DELETED}
    BY <2>1, <1>b
  <2> QED BY <2>1, <2>4, <2>5 DEF ForeachExact
<1> QED BY <1>1, <1>2, PTL DEF VSpec

\* VertexTimestamp implements the map from vertices to timestamps.
THEOREM RefinesMap ==
  ASSUME Workload = {}
  PROVE  VSpec => MapSpec
<1>1. VInit => Map!MInit
  BY VertexAssumption DEF VInit, Map!MInit, Map!Vids, Vids, Stamp, Entries
<1>2. ASSUME VTypeOK, [VNext]_vvars
      PROVE  [Map!MNext]_([v \in Vids |-> Stamp(v)])
  <2>1. CASE \E v \in Vids : \E t \in Times : Inserts(v, t)
    BY <2>1 DEF Inserts, Stamps, Map!MNext, Map!Insert, Map!Vids, Map!Times, Vids, Times
  <2>2. CASE \E v \in Vids : Removes(v)
    BY <2>2 DEF Removes, Stamps, Map!MNext, Map!Remove, Map!Vids, Vids
  <2>3. CASE Resets
    BY <2>3 DEF Resets, Map!MNext, Map!ResetAll, Map!Vids, Vids
  <2>4. CASE Nothing
    BY <2>4 DEF Nothing
  <2>5. MapStep
    BY <1>2, StepIsMapStep
  <2> QED BY <2>1, <2>2, <2>3, <2>4, <2>5 DEF MapStep
<1>3. VSpec => []VTypeOK
  BY VertexTypeCorrect
<1> QED BY <1>1, <1>2, <1>3, PTL DEF VSpec, MapSpec, Map!MSpec

\* ValidVertexNum counts the two representations apart: below the border what
\* is not in removed_vertices_, from the border on the entries, which stand
\* border many slots before their vertices.
LEMMA CountOfTable ==
  ASSUME VTypeOK, NEW ts \in Times, NEW limit \in 0..max
  PROVE  ValidVertexNum(ts, limit) = Cardinality({v \in 0..(limit - 1) : IsVertexValid(v, ts)})
<1> DEFINE front == IF first < limit THEN first ELSE limit
           Gone == {v \in removed : v < limit}
           Low == {v \in 0..(front - 1) : v \notin removed}
           Slots == {i \in Entries(first, limit) : inserted[i] <= ts}
           High == {v \in first..(limit - 1) : inserted[v - first] <= ts}
<1>1. front \in Nat /\ limit \in Nat /\ first \in Nat /\ max \in Nat
  BY VertexAssumption DEF VTypeOK
<1>2. Cardinality(Low) = front - Cardinality(Gone)
  <2>0. removed \subseteq 0..(first - 1)
    BY DEF VTypeOK
  <2>2. Low = 0..(front - 1) \ removed /\ (0..(front - 1)) \cap removed = Gone
    <3>1. Low = 0..(front - 1) \ removed
      BY Zenon
    <3>2. ASSUME NEW v \in removed
          PROVE  v \in 0..(front - 1) <=> v < limit
      <4>1. v \in 0..(first - 1)
        BY <2>0
      <4>2. CASE first < limit
        BY <1>1, <4>1, <4>2
      <4>3. CASE ~(first < limit)
        BY <1>1, <4>1, <4>3
      <4> QED BY <4>2, <4>3
    <3>3. (0..(front - 1)) \cap removed = Gone
      BY <3>2, Zenon
    <3> QED BY <3>1, <3>3
  <2> HIDE DEF Low, Gone, front
  <2>1. IsFiniteSet(0..(front - 1)) /\ Cardinality(0..(front - 1)) = front
    <3>1. 0 \in Int /\ front - 1 \in Int
      BY <1>1
    <3> QED BY <1>1, <3>1, FS_Interval
  <2>3. Cardinality(0..(front - 1) \ removed)
          = Cardinality(0..(front - 1)) - Cardinality((0..(front - 1)) \cap removed)
    BY <2>1, FS_Difference
  <2> QED BY <2>1, <2>2, <2>3
<1>3. IsFiniteSet(Low) /\ IsFiniteSet(Slots)
  <2>2. Low \subseteq 0..(front - 1) /\ Slots \subseteq 0..(limit - first - 1)
    BY DEF Entries
  <2> HIDE DEF Low, Slots, front
  <2>0. 0 \in Int /\ front - 1 \in Int /\ limit - first - 1 \in Int
    BY <1>1
  <2>1. IsFiniteSet(0..(front - 1)) /\ IsFiniteSet(0..(limit - first - 1))
    BY <2>0, FS_Interval
  <2> QED BY <2>1, <2>2, FS_Subset
<1>4. IsFiniteSet(High) /\ Cardinality(High) = Cardinality(Slots)
  <2> DEFINE f == [i \in Slots |-> i + first]
  <2>1. f \in [Slots -> High]
    BY <1>1 DEF Entries
  <2>2. \A i, j \in Slots : f[i] = f[j] => i = j
    BY <1>1 DEF Entries
  <2>3. ASSUME NEW v \in High
        PROVE  \E i \in Slots : f[i] = v
    <3>1. v - first \in Slots /\ (v - first) + first = v
      BY <1>1, <2>3 DEF Entries
    <3> QED BY <3>1
  <2> HIDE DEF f, Slots, High
  <2>4. f \in Bijection(Slots, High)
    BY <2>1, <2>2, <2>3 DEF Bijection, Injection, Surjection, IsInjective
  <2>5. IsFiniteSet(Slots)
    BY <1>3
  <2> QED BY <2>4, <2>5, FS_Bijection DEF ExistsBijection
<1>5. Cardinality(Low \union High) = Cardinality(Low) + Cardinality(High)
  <2>1. Low \cap High = {}
    BY <1>1 DEF VTypeOK
  <2>2. Cardinality({}) = 0
    BY FS_EmptySet
  <2>3. Cardinality(Low) \in Nat /\ Cardinality(High) \in Nat
    BY <1>3, <1>4, FS_CardinalityType
  <2> HIDE DEF Low, High
  <2> QED BY <1>3, <1>4, <2>1, <2>2, <2>3, FS_Union
<1>6. {v \in 0..(limit - 1) : IsVertexValid(v, ts)} = Low \union High
  BY <1>1 DEF IsVertexValid, VTypeOK
<1>7. ValidVertexNum(ts, limit) = front - Cardinality(Gone) + Cardinality(Slots)
  BY Zenon DEF ValidVertexNum
<1> HIDE DEF front, Low, High, Gone, Slots
<1> QED BY <1>2, <1>4, <1>5, <1>6, <1>7, Zenon

\* ValidVertexNum agrees with IsVertexValid for every timestamp and every
\* limit: VertexCount returns the number of vertices a scan would accept.
THEOREM CountIsExact ==
  ASSUME Workload = {}
  PROVE  VSpec => []CountExact
<1>1. VTypeOK => CountExact
  BY CountOfTable DEF CountExact
<1>2. VSpec => []VTypeOK
  BY VertexTypeCorrect
<1> QED BY <1>1, <1>2, PTL
=============================================================================
