-------------------------- MODULE VertexTimestamp --------------------------
(***************************************************************************)
(* VertexTimestamp of a vertex table.  The vertices below init_vertex_num_ *)
(* have been there since the last checkpoint or compaction and have no     *)
(* timestamp of their own: a deletion puts them into removed_vertices_.    *)
(* The others have an entry in inserted_vertices_, which starts at         *)
(* init_vertex_num_.                                                       *)
(*                                                                         *)
(* VertexTable::insert_vertex_pk inserts the key of a deleted vertex again *)
(* under its old number.  Below init_vertex_num_ the workload "reinsert"   *)
(* does so with a timestamp, as the service, and "embedded" with 0.        *)
(***************************************************************************)
EXTENDS Integers, FiniteSets

CONSTANTS
  Limit,     \* bound on the capacity
  Initial,   \* the capacity of a new table (4096 in the code)
  DELETED,   \* DELETED_TIMESTAMP, the largest timestamp
  Workload   \* a subset of {"reinsert", "embedded"}

ASSUME VertexAssumption ==
  /\ Limit \in Nat /\ DELETED \in Nat \ {0}
  /\ Initial \in 0..Limit
  /\ Workload \subseteq {"reinsert", "embedded"}

VARIABLES
  first,     \* init_vertex_num_
  max,       \* max_vertex_num_
  inserted,  \* inserted_vertices_
  removed,   \* removed_vertices_
  lids,      \* how many vertices indexer_ has numbered
  live       \* the vertices that were inserted and not removed since

vvars == <<first, max, inserted, removed, lids, live>>

Vids == 0..(Limit - 1)
Times == 0..(DELETED - 1)

\* The entries of the vertices from f on when the capacity is m.
Entries(f, m) == 0..(m - f - 1)

\* Fault: the entry of a vertex is one further on.
IsVertexValid_OffByOne(v, ts) ==
  IF v >= first THEN v + 1 < max /\ inserted[v + 1 - first] <= ts ELSE v \notin removed

IsVertexValid(v, ts) ==
  IF v >= first THEN inserted[v - first] <= ts ELSE v \notin removed

IsRemoved(v) ==
  IF v >= first THEN inserted[v - first] = DELETED ELSE v \in removed

\* ValidVertexNum, whose last loop counts the entries below the limit.
ValidVertexNum(ts, limit) ==
  LET front == IF first < limit THEN first ELSE limit
  IN  front - Cardinality({v \in removed : v < limit})
        + Cardinality({i \in Entries(first, limit) : inserted[i] <= ts})

\* foreach_vertex
VerticesAt(ts) ==
  {v \in 0..(first - 1) : v \notin removed}
    \union {v \in first..(max - 1) : inserted[v - first] <= ts}

-----------------------------------------------------------------------------

VInit ==
  /\ first = 0 /\ max = Initial
  /\ inserted = [i \in Entries(0, Initial) |-> DELETED]
  /\ removed = {} /\ lids = 0 /\ live = {}

\* resize_inserted_vertices with keep_front: entries keep their index.
KeepFront(size) ==
  [i \in 0..(size - 1) |-> IF i \in DOMAIN inserted THEN inserted[i] ELSE DELETED]

\* Without keep_front: the last entries are kept, and move to the front.
KeepBack(size) ==
  LET offset == IF size < max - first THEN max - first - size ELSE 0
  IN  [i \in 0..(size - 1) |->
         IF i + offset \in DOMAIN inserted THEN inserted[i + offset] ELSE DELETED]

\* A new key gets the next number, which another session may see before the
\* vertex is inserted.
NewLid ==
  /\ lids < max
  /\ lids' = lids + 1
  /\ UNCHANGED <<first, max, inserted, removed, live>>

\* VertexTable::EnsureCapacity asks for more than there is.
Reserve(size) ==
  /\ size > max
  /\ inserted' = KeepFront(size - first)
  /\ max' = size
  /\ UNCHANGED <<first, removed, lids, live>>

\* Fault: a vertex that is not there at ts is taken for a new one.
InsertVertex_Overwrites(v, ts) ==
  /\ v < lids /\ first <= v /\ ~IsVertexValid(v, ts)
  /\ inserted' = [inserted EXCEPT ![v - first] = ts]
  /\ live' = live \union {v}
  /\ UNCHANGED <<first, max, removed, lids>>

(***************************************************************************)
(* The vertex is not valid at ts.  Below init_vertex_num_ the entries are  *)
(* extended down to it, except when ts is 0.                               *)
(* When its entry is taken the call throws.                                *)
(***************************************************************************)
InsertVertex(v, ts) ==
  LET low == IF v < first THEN v ELSE first
      stamps == IF v < first THEN KeepBack(max - v) ELSE inserted
      throws == stamps[v - low] # DELETED
  IN  /\ v < lids /\ ~IsVertexValid(v, ts)
      /\ v < first => (IF ts = 0 THEN "embedded" ELSE "reinsert") \in Workload
      /\ IF v < first /\ ts = 0
         THEN live' = live \union {v} /\ UNCHANGED <<first, inserted>>
         ELSE /\ first' = low
              /\ inserted' = IF throws THEN stamps ELSE [stamps EXCEPT ![v - low] = ts]
              /\ live' = IF throws THEN live ELSE live \union {v}
      /\ UNCHANGED <<max, removed, lids>>

\* VertexTable::DeleteVertex
RemoveVertex(v, ts) ==
  /\ v < lids /\ IsVertexValid(v, ts)
  /\ IF v >= first
     THEN inserted' = [inserted EXCEPT ![v - first] = DELETED] /\ UNCHANGED removed
     ELSE removed' = removed \union {v} /\ UNCHANGED inserted
  /\ live' = live \ {v}
  /\ UNCHANGED <<first, max, lids>>

\* VertexTable::RevertDeleteVertex
RevertRemoveVertex(v, ts) ==
  /\ v < lids /\ IsRemoved(v)
  /\ IF v >= first
     THEN inserted' = [inserted EXCEPT ![v - first] = ts] /\ UNCHANGED removed
     ELSE removed' = removed \ {v} /\ UNCHANGED inserted
  /\ live' = live \union {v}
  /\ UNCHANGED <<first, max, lids>>

ResetTimestamps ==
  [i \in DOMAIN inserted |-> IF inserted[i] = DELETED THEN DELETED ELSE 0]

\* n entries from the start are 0, and no more.
FirstNonZero(n) ==
  /\ \A i \in 0..(n - 1) : ResetTimestamps[i] = 0
  /\ n < max - first => ResetTimestamps[n] # 0

\* Fault: the entries dropped are the last ones.
Compact_DropsBack(n) ==
  /\ FirstNonZero(n)
  /\ first' = first + n
  /\ inserted' = [i \in Entries(first + n, max) |-> ResetTimestamps[i]]
  /\ UNCHANGED <<max, removed, lids, live>>

\* Compact, and Dump followed by Open: both leave the same.  The entries of
\* the first n vertices are dropped.
Compact(n) ==
  /\ FirstNonZero(n)
  /\ first' = first + n
  /\ inserted' = [i \in Entries(first + n, max) |-> ResetTimestamps[i + n]]
  /\ UNCHANGED <<max, removed, lids, live>>

VNext ==
  \/ \E v \in Vids, ts \in Times :
       InsertVertex(v, ts) \/ RemoveVertex(v, ts) \/ RevertRemoveVertex(v, ts)
  \/ \E size \in 1..Limit : Reserve(size)
  \/ NewLid
  \/ \E n \in 0..(max - first) : Compact(n)

VSpec == VInit /\ [][VNext]_vvars

-----------------------------------------------------------------------------

\* The entries cover exactly the vertices from init_vertex_num_ to the
\* capacity, and removed_vertices_ holds only vertices below them.
VTypeOK ==
  /\ max \in 0..Limit /\ first \in 0..max
  /\ inserted \in [Entries(first, max) -> 0..DELETED]
  /\ removed \subseteq 0..(first - 1)
  /\ lids \in 0..max /\ live \subseteq 0..(lids - 1)

\* Iterating over the vertices finds those that were inserted and not deleted,
\* through every move of the border that compactions make.
ForeachExact == VerticesAt(DELETED - 1) = live

\* Inserting a vertex hides no other: what is in the table and was not in
\* removed_vertices_ is visible.
KeptVisible == live \ removed \subseteq VerticesAt(DELETED - 1)

\* ValidVertexNum counts the vertices that IsVertexValid accepts.
CountExact ==
  \A ts \in Times, limit \in 0..max :
    ValidVertexNum(ts, limit) = Cardinality({v \in 0..(limit - 1) : IsVertexValid(v, ts)})

\* The assertion of ValidVertexNum: a removed vertex was counted before.
RemovedCounted ==
  \A limit \in 0..max :
    Cardinality({v \in removed : v < limit}) <= IF first < limit THEN first ELSE limit

\* The timestamp a vertex has, wherever it is kept.
Stamp(v) ==
  IF v >= max THEN DELETED
  ELSE IF v >= first THEN inserted[v - first]
  ELSE IF v \in removed THEN DELETED ELSE 0

Map == INSTANCE VertexMap WITH vts <- [v \in Vids |-> Stamp(v)]

\* The border, the two representations and their moves are invisible: the
\* table is a map from vertices to timestamps.
MapSpec == Map!MSpec
=============================================================================
