-------------------------- MODULE MutableCsrProofs --------------------------
(***************************************************************************)
(* Proofs about MutableCsr for every set of sessions and vertices, every   *)
(* capacity and every number of transactions: readers find every edge of   *)
(* their snapshot, and no writer loses an edge.                            *)
(***************************************************************************)
EXTENDS MutableCsr, FiniteSetTheorems, TLAPS

Entry == [nbr : Nat, ts : Nat]

\* The put_edge of s holds the lock of a list; it has counted an entry there
\* and not finished it.
Holding(s) == put[s].pc \in {"locked", "room", "counted", "named"}
Filling(s) == put[s].pc \in {"counted", "named"}

\* The slots of v's list that no put_edge is working on.
Filled(v) ==
  {i \in 1..size[v] : \A s \in Sessions : Filling(s) /\ put[s].v = v => put[s].i # i}

BufTypes ==
  /\ bufs \in [Vertices -> Seq(Seq(Entry))]
  /\ size \in [Vertices -> Nat]
  /\ live \subseteq Vertices \X Nat
  /\ \A v \in Vertices : Len(bufs[v]) >= 1 /\ size[v] <= Len(Buffer(v))

PutTypes ==
  /\ lock \in [Vertices -> Sessions \union {0}]
  /\ put \in [Sessions -> [pc : {"none", "locked", "room", "counted", "named", "done"},
                           v : Vertices \union {0}, i : Nat]]
  /\ undo \in [op : {"none", "put", "delete"}, v : Vertices \union {0}, i : Nat]

WalkRecords ==
  [pc : {"none", "list", "walk"}, v : Vertices \union {0},
   b : Nat, n : Nat, i : Nat, seen : Seq(Int)]

WalkTypes ==
  walk \in [Sessions -> WalkRecords]

\* The timestamps SnapshotOracle hands out.
TxnInv ==
  /\ next \in Nat \ {0}
  /\ phase \in [Sessions -> {"idle", "read", "insert", "update"}]
  /\ at \in [Sessions -> Nat]
  /\ \A r, s \in Sessions : phase[s] = "update" /\ r # s => phase[r] = "idle"
  /\ \A w \in Writers : at[w] >= 1 /\ at[w] < next /\ at[w] <= MaxTs
  /\ \A r, w \in Writers : r # w => at[r] # at[w]
  /\ \A r \in Sessions : phase[r] = "read" =>
       at[r] < next /\ \A w \in Writers : at[r] < at[w]

\* The put_edges and the undo log.
PutOK(s) ==
  /\ put[s].pc # "none" => s \in Writers
  /\ Holding(s) => put[s].v \in Vertices /\ lock[put[s].v] = s
  /\ put[s].pc = "room" => size[put[s].v] < Len(Buffer(put[s].v))
  /\ Filling(s) => put[s].i = size[put[s].v] /\ put[s].i >= 1
  /\ put[s].pc = "named" => Buffer(put[s].v)[put[s].i].nbr = at[s]

PutInv ==
  /\ \A s \in Sessions : PutOK(s)
  /\ undo # NoUndo =>
       /\ \E s \in Sessions : phase[s] = "update"
       /\ undo.v \in Vertices /\ undo.i \in 1..size[undo.v]
       /\ \A s \in Sessions : ~Holding(s)

\* An entry that counts: its stamp is that of its transaction, or older than
\* every writer, and does not hide it from a reader that has its edge.
Stamped(v, e) ==
  /\ e.ts <= MaxTs
  /\ <<v, e.nbr>> \in live
  /\ e.ts = e.nbr \/ (e.ts < next /\ \A w \in Writers : e.ts < at[w])
  /\ \A r \in Sessions : phase[r] = "read" /\ e.nbr <= at[r] => e.ts <= at[r]

\* No transaction that has yet to put its edge has put this one.
Older(e) ==
  /\ e.nbr < next
  /\ \A w \in Writers : put[w].pc # "done" => e.nbr # at[w]

SlotInv ==
  \A v \in Vertices :
    /\ \A i \in Filled(v) :
         Older(Buffer(v)[i]) /\ (Buffer(v)[i].ts # INVALID_TIMESTAMP => Stamped(v, Buffer(v)[i]))
    /\ \A i, j \in Filled(v) : i # j => Buffer(v)[i].nbr # Buffer(v)[j].nbr
    /\ \A t \in Nat : <<v, t>> \in live =>
         \E i \in Filled(v) : Buffer(v)[i].nbr = t /\ Buffer(v)[i].ts # INVALID_TIMESTAMP

\* The i-th entry of the buffer reader r walks is edge t, and r has seen it or
\* has it before it.
Carries(r, t, i) ==
  LET w == walk[r]
  IN  /\ i \in 1..Len(bufs[w.v][w.b]) /\ i <= size[w.v]
      /\ bufs[w.v][w.b][i].nbr = t /\ bufs[w.v][w.b][i].ts <= at[r]
      /\ w.b = Len(bufs[w.v]) => i \in Filled(w.v)
      /\ w.pc = "walk" => i <= w.n /\ (i < w.i => t \in Range(w.seen))

WalkInv ==
  \A r \in Sessions : walk[r].pc # "none" =>
    /\ phase[r] = "read"
    /\ walk[r].v \in Vertices
    /\ walk[r].b \in 1..Len(bufs[walk[r].v])
    /\ walk[r].pc = "walk" => walk[r].i >= 1
    /\ \A t \in Nat : <<walk[r].v, t>> \in live /\ t <= at[r] => \E i \in Nat : Carries(r, t, i)

(***************************************************************************)
(* The inductive invariant.                                                *)
(***************************************************************************)
CTypes == BufTypes /\ PutTypes /\ WalkTypes

CsrInv == CTypes /\ TxnInv /\ PutInv /\ SlotInv /\ WalkInv

\* No commit timestamp reaches INVALID_TIMESTAMP.
LEMMA InvalidIsLarge == INVALID_TIMESTAMP \in Nat /\ MaxTs < INVALID_TIMESTAMP
<1>1. Cardinality(Sessions) \in Nat
  BY MutableCsrAssumption, FS_CardinalityType
<1> QED
  BY <1>1, MutableCsrAssumption DEF INVALID_TIMESTAMP

\* The freshly opened table satisfies the invariant.
LEMMA CsrInit == CInit => CsrInv
<1> SUFFICES ASSUME CInit PROVE CsrInv
  OBVIOUS
<1>1. CTypes
  <2>1. <<<<>>>> \in Seq(Seq(Entry)) /\ Len(<<<<>>>>) = 1 /\ Len(<<>>) = 0 /\ <<<<>>>>[1] = <<>>
    OBVIOUS
  <2> QED
    BY <2>1, MutableCsrAssumption
    DEF CInit, Init, CTypes, BufTypes, PutTypes, WalkTypes, WalkRecords, Buffer, NoPut, NoWalk,
        NoUndo
<1>2. TxnInv /\ PutInv /\ WalkInv
  BY MutableCsrAssumption
  DEF CInit, Init, TxnInv, PutInv, PutOK, WalkInv, Writers, Holding, Filling, NoPut, NoWalk, NoUndo
<1>3. SlotInv
  <2>1. \A v \in Vertices : Filled(v) = {}
    BY DEF CInit, Filled
  <2> QED
    BY <2>1 DEF CInit, SlotInv
<1> QED
  BY <1>1, <1>2, <1>3 DEF CsrInv

\* What the types say of the current buffer and of its slots.
LEMMA SlotTypes ==
  ASSUME BufTypes, NEW v \in Vertices
  PROVE  /\ bufs[v] \in Seq(Seq(Entry)) /\ Len(bufs[v]) \in Nat \ {0}
         /\ \A b \in 1..Len(bufs[v]) : bufs[v][b] \in Seq(Entry) /\ Len(bufs[v][b]) \in Nat
         /\ \A b \in 1..Len(bufs[v]) : \A i \in 1..Len(bufs[v][b]) : bufs[v][b][i] \in Entry
         /\ Buffer(v) \in Seq(Entry) /\ Len(Buffer(v)) \in Nat
         /\ size[v] \in Nat /\ size[v] <= Len(Buffer(v))
         /\ \A i \in 1..Len(Buffer(v)) :
              Buffer(v)[i] \in Entry /\ Buffer(v)[i].nbr \in Nat /\ Buffer(v)[i].ts \in Nat
<1>1. bufs[v] \in Seq(Seq(Entry)) /\ Len(bufs[v]) \in Nat \ {0}
  BY DEF BufTypes
<1>2. \A b \in 1..Len(bufs[v]) : bufs[v][b] \in Seq(Entry)
  BY <1>1
<1>3. Buffer(v) \in Seq(Entry)
  BY <1>1, <1>2 DEF Buffer
<1>4. \A i \in 1..Len(Buffer(v)) : Buffer(v)[i] \in Entry
  BY <1>3
<1>5. \A e \in Entry : e.nbr \in Nat /\ e.ts \in Nat
  BY DEF Entry
<1>6. \A b \in 1..Len(bufs[v]) :
        Len(bufs[v][b]) \in Nat /\ \A i \in 1..Len(bufs[v][b]) : bufs[v][b][i] \in Entry
  BY <1>2
<1>7. size[v] \in Nat /\ size[v] <= Len(Buffer(v)) /\ Len(Buffer(v)) \in Nat
  BY <1>3 DEF BufTypes
<1> QED
  BY <1>1, <1>2, <1>3, <1>4, <1>5, <1>6, <1>7, Zenon

\* The same of the sizes only.
LEMMA SizeTypes ==
  ASSUME BufTypes, NEW v \in Vertices
  PROVE  size[v] \in Nat /\ Len(Buffer(v)) \in Nat /\ size[v] <= Len(Buffer(v))
BY SlotTypes

\* Writing an entry changes that entry of the current buffer only.
LEMMA WrittenSlots ==
  ASSUME BufTypes, NEW v \in Vertices, NEW i \in 1..Len(Buffer(v)), NEW e \in Entry,
         bufs' = Written(v, i, e)
  PROVE  /\ bufs' \in [Vertices -> Seq(Seq(Entry))]
         /\ \A u \in Vertices :
              /\ Len(bufs'[u]) = Len(bufs[u])
              /\ \A b \in 1..Len(bufs[u]) : Len(bufs'[u][b]) = Len(bufs[u][b])
              /\ Len(Buffer(u)') = Len(Buffer(u))
         /\ \A u \in Vertices : \A b \in 1..Len(bufs[u]) : \A j \in 1..Len(bufs[u][b]) :
              u # v \/ b # Len(bufs[v]) \/ j # i => bufs'[u][b][j] = bufs[u][b][j]
         /\ \A u \in Vertices : \A j \in 1..Len(Buffer(u)) :
              u # v \/ j # i => Buffer(u)'[j] = Buffer(u)[j]
         /\ Buffer(v)'[i] = e
<1> DEFINE n == Len(bufs[v])
           new == [Buffer(v) EXCEPT ![i] = e]
           seq == [bufs[v] EXCEPT ![n] = new]
<1>1. n \in Nat \ {0} /\ n \in 1..n /\ bufs[v] \in Seq(Seq(Entry)) /\ Buffer(v) \in Seq(Entry)
  BY SlotTypes
<1>2. /\ new \in Seq(Entry) /\ Len(new) = Len(Buffer(v)) /\ new[i] = e
      /\ \A j \in 1..Len(Buffer(v)) : j # i => new[j] = Buffer(v)[j]
  BY <1>1
<1>3. /\ seq \in Seq(Seq(Entry)) /\ Len(seq) = n /\ seq[n] = new
      /\ \A b \in 1..n : b # n => seq[b] = bufs[v][b]
  BY <1>1, <1>2
<1>4. bufs' = [bufs EXCEPT ![v] = seq]
  BY <1>1 DEF Written, Buffer
<1>5. bufs'[v] = seq /\ \A u \in Vertices : u # v => bufs'[u] = bufs[u]
  BY <1>4 DEF BufTypes
<1>6. bufs' \in [Vertices -> Seq(Seq(Entry))]
  BY <1>3, <1>4 DEF BufTypes
<1>7. \A u \in Vertices : Len(bufs'[u]) = Len(bufs[u])
  BY <1>3, <1>5
<1>8. Buffer(v)' = new /\ \A u \in Vertices : u # v => Buffer(u)' = Buffer(u)
  BY <1>3, <1>5 DEF Buffer
<1>9. \A b \in 1..Len(bufs[v]) : Len(bufs'[v][b]) = Len(bufs[v][b])
  BY <1>1, <1>2, <1>3, <1>5 DEF Buffer
<1>10. \A b \in 1..Len(bufs[v]) : \A j \in 1..Len(bufs[v][b]) :
         b # Len(bufs[v]) \/ j # i => bufs'[v][b][j] = bufs[v][b][j]
  BY <1>1, <1>2, <1>3, <1>5 DEF Buffer
<1>11. \A u \in Vertices :
         /\ Len(Buffer(u)') = Len(Buffer(u))
         /\ \A j \in 1..Len(Buffer(u)) : u # v \/ j # i => Buffer(u)'[j] = Buffer(u)[j]
  BY <1>2, <1>8, Zenon
<1>12. \A u \in Vertices :
         /\ \A b \in 1..Len(bufs[u]) : Len(bufs'[u][b]) = Len(bufs[u][b])
         /\ \A b \in 1..Len(bufs[u]) : \A j \in 1..Len(bufs[u][b]) :
              u # v \/ b # Len(bufs[v]) \/ j # i => bufs'[u][b][j] = bufs[u][b][j]
  <2> TAKE u \in Vertices
  <2>1. CASE u = v
    BY <2>1, <1>9, <1>10
  <2>2. CASE u # v
    BY <2>2, <1>5
  <2> QED
    BY <2>1, <2>2
<1> QED
  BY <1>2, <1>6, <1>7, <1>8, <1>11, <1>12, Zenon

(***************************************************************************)
(* The timestamps                                                          *)
(***************************************************************************)
OracleStep ==
  \/ UNCHANGED vars
  \/ \E s \in Sessions :
       \/ BeginRead(s) \/ End(s)
       \/ next <= MaxTs /\ (BeginInsert(s) \/ BeginUpdate(s))

\* A step of SnapshotOracle keeps the facts about timestamps and phases.
LEMMA TxnNext ==
  ASSUME TxnInv, OracleStep
  PROVE  TxnInv'
<1>1. CASE UNCHANGED vars
  BY <1>1 DEF TxnInv, Writers, vars
<1>2. ASSUME NEW s \in Sessions, BeginRead(s) PROVE TxnInv'
  BY <1>2 DEF TxnInv, Writers, BeginRead, Start, IsFrontier
<1>3. ASSUME NEW s \in Sessions, next <= MaxTs, BeginInsert(s) PROVE TxnInv'
  BY <1>3, MutableCsrAssumption DEF TxnInv, Writers, BeginInsert, Start
<1>4. ASSUME NEW s \in Sessions, next <= MaxTs, BeginUpdate(s) PROVE TxnInv'
  BY <1>4, MutableCsrAssumption DEF TxnInv, Writers, BeginUpdate, Start
<1>5. ASSUME NEW s \in Sessions, End(s) PROVE TxnInv'
  BY <1>5 DEF TxnInv, Writers, End
<1> QED
  BY <1>1, <1>2, <1>3, <1>4, <1>5 DEF OracleStep

\* The lists and the put_edges are as they were.
LEMMA SameLists ==
  ASSUME UNCHANGED <<bufs, size>>, \A s \in Sessions : Filling(s)' <=> Filling(s),
         \A s \in Sessions : Filling(s) => put'[s] = put[s]
  PROVE  \A v \in Vertices : Buffer(v)' = Buffer(v) /\ Filled(v)' = Filled(v)
<1>1. \A v \in Vertices : Buffer(v)' = Buffer(v)
  BY DEF Buffer
<1>2. \A v \in Vertices : Filled(v)' = Filled(v)
  BY DEF Filled
<1> QED
  BY <1>1, <1>2

\* A step that leaves lists and put_edges alone keeps what holds of put_edge.
LEMMA PutsSame ==
  ASSUME PutInv, UNCHANGED <<phase, at, bufs, size, lock, put, undo>>
  PROVE  PutInv'
<1>1. ASSUME NEW s \in Sessions PROVE PutOK(s)'
  <2>1. PutOK(s)
    BY Zenon DEF PutInv
  <2> QED
    BY <2>1 DEF PutOK, Writers, Holding, Filling, Buffer
<1> QED
  BY <1>1 DEF PutInv, Holding, NoUndo

\* The put_edge of r does not notice the step.
LEMMA PutKept ==
  ASSUME NEW r \in Sessions, PutOK(r), put'[r] = put[r], at'[r] = at[r],
         r \in Writers => r \in Writers', NEW u, u = put[r].v,
         Holding(r) => /\ lock'[u] = lock[u] /\ size'[u] = size[u]
                       /\ Len(Buffer(u)') = Len(Buffer(u)),
         Filling(r) => Buffer(u)'[put[r].i] = Buffer(u)[put[r].i]
  PROVE  PutOK(r)'
BY Zenon DEF PutOK, Holding, Filling, Buffer

\* An update transaction is alone: nobody else writes, nobody reads.
LEMMA UpdateAlone ==
  ASSUME CsrInv, NEW s \in Sessions, phase[s] = "update"
  PROVE  /\ Writers = {s}
         /\ \A r \in Sessions : r # s => phase[r] = "idle" /\ put[r].pc = "none"
         /\ \A r \in Sessions : walk[r].pc = "none"
<1>1. Writers = {s} /\ \A r \in Sessions : r # s => phase[r] = "idle"
  BY DEF CsrInv, TxnInv, Writers
<1>2. \A r \in Sessions : r # s => put[r].pc = "none"
  BY <1>1 DEF CsrInv, PutInv, PutOK
<1>3. \A r \in Sessions : walk[r].pc = "none"
  BY <1>1 DEF CsrInv, WalkInv
<1> QED
  BY <1>1, <1>2, <1>3

\* Begin of any kind of transaction keeps the invariant.
LEMMA BeginKeeps ==
  ASSUME CsrInv, NEW s \in Sessions, Begin(s)
  PROVE  CsrInv'
<1>1. /\ TxnInv' /\ CTypes'
      /\ \A v \in Vertices : Buffer(v)' = Buffer(v) /\ Filled(v)' = Filled(v)
  <2>1. OracleStep
    BY DEF Begin, OracleStep
  <2>2. CTypes'
    BY DEF CsrInv, CTypes, BufTypes, PutTypes, WalkTypes, Begin, lists, Buffer
  <2> QED
    BY <2>1, <2>2, TxnNext, SameLists DEF CsrInv, Begin, lists, Filling
<1>2. /\ phase[s] = "idle" /\ next <= next' /\ at'[s] <= next /\ next' \in Nat
      /\ \A r \in Sessions : r # s => phase'[r] = phase[r] /\ at'[r] = at[r]
      /\ \A r \in Sessions : phase[r] # "update"
      /\ Writers \subseteq Writers' /\ Writers' \subseteq Writers \union {s}
      /\ s \in Writers' => at'[s] = next
      /\ s \in Writers' \/ (phase'[s] = "read" /\ IsFrontier(at'[s]) /\ next' = next)
  BY DEF CsrInv, TxnInv, Begin, BeginRead, BeginInsert, BeginUpdate, Start, Writers
<1>3. PutInv'
  <2>1. undo = NoUndo
    BY <1>2 DEF CsrInv, PutInv, PutOK
  <2>2. \A r \in Sessions : put[r].pc # "none" => r \in Writers /\ r # s
    BY <1>2 DEF CsrInv, PutInv, PutOK, Writers
  <2> QED
    BY <1>1, <1>2, <2>1, <2>2
    DEF CsrInv, PutInv, PutOK, Begin, lists, Holding, Filling, NoUndo
<1>4. ASSUME NEW v \in Vertices, NEW i \in Filled(v)
      PROVE  /\ Older(Buffer(v)[i])'
             /\ Buffer(v)[i].ts # INVALID_TIMESTAMP => Stamped(v, Buffer(v)[i])'
  <2> DEFINE e == Buffer(v)[i]
  <2>1. e.nbr \in Nat /\ e.ts \in Nat /\ Buffer(v)' = Buffer(v) /\ put' = put /\ live' = live
    BY <1>1, <1>4, SlotTypes DEF CsrInv, CTypes, Filled, Begin, lists
  <2>2. Older(e) /\ (e.ts # INVALID_TIMESTAMP => Stamped(v, e))
    BY <1>4 DEF CsrInv, SlotInv
  <2>3. Older(e)'
    BY <1>2, <2>1, <2>2 DEF Older, Writers, CsrInv, TxnInv
  <2>4. ASSUME Stamped(v, e) PROVE Stamped(v, e)'
    <3>1. e.ts = e.nbr \/ (e.ts < next' /\ \A w \in Writers' : e.ts < at'[w])
      BY <1>2, <2>1, <2>4 DEF Stamped, CsrInv, TxnInv, Writers
    <3>2. ASSUME NEW r \in Sessions, phase'[r] = "read", e.nbr <= at'[r] PROVE e.ts <= at'[r]
      <4>1. CASE r # s
        BY <1>2, <2>4, <3>2, <4>1 DEF Stamped
      <4>2. CASE r = s
        <5>1. IsFrontier(at'[s]) /\ at'[s] \in Nat
          BY <1>1, <1>2, <3>2, <4>2, Zenon DEF Writers, TxnInv
        <5> QED
          BY <2>1, <2>4, <3>2, <4>2, <5>1 DEF Stamped, IsFrontier, CsrInv, TxnInv, Writers
      <4> QED
        BY <4>1, <4>2
    <3> QED
      BY <2>1, <2>4, <3>1, <3>2 DEF Stamped
  <2> QED
    BY <2>2, <2>3, <2>4
<1>5. SlotInv'
  BY <1>1, <1>4 DEF CsrInv, SlotInv, Begin, lists, INVALID_TIMESTAMP
<1>6. WalkInv'
  <2>1. \A r \in Sessions : walk[r].pc # "none" =>
          phase'[r] = "read" /\ at'[r] = at[r] /\ walk[r].v \in Vertices
    BY <1>2, Zenon DEF CsrInv, WalkInv
  <2>2. ASSUME NEW r \in Sessions, walk[r].pc # "none", NEW t \in Nat, NEW i \in Nat,
               Carries(r, t, i)
        PROVE  Carries(r, t, i)'
    BY <1>1, <2>1, <2>2, Zenon DEF Carries, Begin, lists
  <2> QED
    BY <2>1, <2>2, Zenon DEF CsrInv, WalkInv, Begin, lists
<1> QED
  BY <1>1, <1>3, <1>5, <1>6 DEF CsrInv

(***************************************************************************)
(* Steps that finish no entry and change none that is finished, and under  *)
(* which a reader's buffer keeps what the reader has to find               *)
(***************************************************************************)
LEMMA SlotsQuiet ==
  ASSUME SlotInv, live' = live, next' = next,
         \A v \in Vertices : Filled(v)' = Filled(v),
         \A v \in Vertices : \A i \in Filled(v) : Buffer(v)'[i] = Buffer(v)[i],
         \A r \in Sessions : phase'[r] = "idle" \/ (phase'[r] = phase[r] /\ at'[r] = at[r]),
         \A w \in Writers' : put'[w].pc # "done" => put[w].pc # "done"
  PROVE  SlotInv'
<1>1. Writers' \subseteq Writers /\ \A w \in Writers' : at'[w] = at[w]
  BY DEF Writers
<1>2. ASSUME NEW v \in Vertices, NEW i \in Filled(v)
      PROVE  /\ Older(Buffer(v)[i])'
             /\ Buffer(v)[i].ts # INVALID_TIMESTAMP => Stamped(v, Buffer(v)[i])'
  <2> DEFINE e == Buffer(v)[i]
  <2>1. e' = e
    BY <1>2
  <2>2. Older(e) /\ (e.ts # INVALID_TIMESTAMP => Stamped(v, e))
    BY <1>2 DEF SlotInv
  <2>3. Older(e)'
    BY <1>1, <2>1, <2>2, Zenon DEF Older
  <2>4. ASSUME Stamped(v, e) PROVE Stamped(v, e)'
    BY <1>1, <2>1, <2>4, Zenon DEF Stamped
  <2> QED
    BY <2>2, <2>3, <2>4
<1> QED
  BY <1>2 DEF SlotInv, INVALID_TIMESTAMP

\* A reader's walk survives a step of somebody else that keeps its buffer's slots.
LEMMA WalksQuiet ==
  ASSUME BufTypes, BufTypes', WalkInv,
         \A r \in Sessions : walk'[r].pc # "none" =>
           walk'[r] = walk[r] /\ phase'[r] = phase[r] /\ at'[r] = at[r],
         \A v \in Vertices :
           /\ size[v] <= size'[v] /\ Len(bufs[v]) <= Len(bufs'[v])
           /\ \A b \in 1..Len(bufs[v]) : Len(bufs'[v][b]) = Len(bufs[v][b])
           /\ Filled(v) \subseteq Filled(v)',
         \A v \in Vertices : \A b \in 1..Len(bufs[v]) : \A i \in 1..Len(bufs[v][b]) :
           b # Len(bufs[v]) \/ i \in Filled(v) => bufs'[v][b][i] = bufs[v][b][i],
         \A r \in Sessions : \A v \in Vertices : \A t \in Nat :
           phase[r] = "read" /\ <<v, t>> \in live' /\ t <= at[r] => <<v, t>> \in live
  PROVE  WalkInv'
<1> SUFFICES ASSUME NEW r \in Sessions, walk'[r].pc # "none"
             PROVE  /\ phase'[r] = "read" /\ walk'[r].v \in Vertices
                    /\ walk'[r].b \in 1..Len(bufs'[walk'[r].v])
                    /\ walk'[r].pc = "walk" => walk'[r].i >= 1
                    /\ \A t \in Nat : <<walk'[r].v, t>> \in live' /\ t <= at'[r] =>
                         \E i \in Nat : Carries(r, t, i)'
  BY DEF WalkInv
<1>0. PICK v, b : v = walk[r].v /\ b = walk[r].b
  BY Zenon
<1>1. /\ walk'[r] = walk[r] /\ phase'[r] = "read" /\ phase[r] = "read" /\ at'[r] = at[r]
      /\ v \in Vertices /\ b \in 1..Len(bufs[v])
  BY <1>0, Zenon DEF WalkInv
<1>2. /\ Len(bufs[v]) \in Nat /\ Len(bufs'[v]) \in Nat /\ size[v] \in Nat /\ size'[v] \in Nat
      /\ Len(bufs[v]) <= Len(bufs'[v]) /\ size[v] <= size'[v]
  <2>1. bufs'[v] \in Seq(Seq(Entry)) /\ size'[v] \in Nat
    BY <1>1 DEF BufTypes
  <2>2. Len(bufs'[v]) \in Nat
    BY <2>1
  <2> QED
    BY <1>1, <2>1, <2>2, SlotTypes
<1>3. ASSUME NEW t \in Nat, NEW i \in Nat, Carries(r, t, i)
      PROVE  Carries(r, t, i)'
  <2>1. /\ i \in 1..Len(bufs[v][b]) /\ i <= size[v]
        /\ bufs[v][b][i].nbr = t /\ bufs[v][b][i].ts <= at[r]
        /\ b = Len(bufs[v]) => i \in Filled(v)
        /\ walk[r].pc = "walk" => i <= walk[r].n /\ (i < walk[r].i => t \in Range(walk[r].seen))
    BY <1>0, <1>3, Zenon DEF Carries
  <2>2. bufs'[v][b][i] = bufs[v][b][i] /\ Len(bufs'[v][b]) = Len(bufs[v][b])
    BY <1>1, <2>1, Zenon
  <2>3. b = Len(bufs'[v]) => i \in Filled(v)'
    BY <1>1, <1>2, <2>1
  <2>4. i <= size'[v]
    BY <1>2, <2>1
  <2> QED
    BY <1>0, <1>1, <2>1, <2>2, <2>3, <2>4, Zenon DEF Carries
<1>4. b \in 1..Len(bufs'[v])
  BY <1>1, <1>2
<1> QED
  BY <1>0, <1>1, <1>3, <1>4, Zenon DEF WalkInv

\* The case of a step that leaves the lists alone.
LEMMA WalksSame ==
  ASSUME BufTypes, BufTypes', WalkInv, UNCHANGED <<bufs, size, live>>,
         \A r \in Sessions : walk'[r].pc # "none" =>
           walk'[r] = walk[r] /\ phase'[r] = phase[r] /\ at'[r] = at[r],
         \A v \in Vertices : Filled(v)' = Filled(v)
  PROVE  WalkInv'
<1>1. \A v \in Vertices : size[v] \in Nat /\ Len(bufs[v]) \in Nat
  BY SlotTypes
<1> QED
  BY <1>1, WalksQuiet

\* The end of a transaction keeps the invariant.
LEMMA FinishKeeps ==
  ASSUME CsrInv, NEW s \in Sessions, Finish(s)
  PROVE  CsrInv'
<1>1. /\ UNCHANGED <<bufs, size, lock, live, next>>
      /\ put' = [put EXCEPT ![s] = NoPut] /\ walk' = [walk EXCEPT ![s] = NoWalk]
      /\ phase' = [phase EXCEPT ![s] = "idle"] /\ at' = [at EXCEPT ![s] = 0]
      /\ undo' = NoUndo \/ (undo' = undo /\ phase[s] # "update")
      /\ put[s].pc \in {"none", "done"}
  BY DEF Finish, lists, End
<1>2. CTypes'
  <2>1. BufTypes'
    BY <1>1, Zenon DEF CsrInv, CTypes, BufTypes, Buffer
  <2>2. PutTypes' /\ WalkTypes'
    BY <1>1 DEF CsrInv, CTypes, PutTypes, WalkTypes, WalkRecords, NoPut, NoWalk, NoUndo
  <2> QED
    BY <2>1, <2>2 DEF CTypes
<1>3. TxnInv'
  BY TxnNext DEF CsrInv, OracleStep, Finish
<1>4. /\ put'[s] = NoPut /\ walk'[s] = NoWalk /\ phase'[s] = "idle"
      /\ \A r \in Sessions : r # s =>
           put'[r] = put[r] /\ walk'[r] = walk[r] /\ phase'[r] = phase[r] /\ at'[r] = at[r]
  BY <1>1 DEF CsrInv, CTypes, PutTypes, WalkTypes, TxnInv
<1>5. \A v \in Vertices : Buffer(v)' = Buffer(v) /\ Filled(v)' = Filled(v)
  BY <1>1, <1>4, SameLists DEF Filling, NoPut
<1>6. PutInv'
  <2>1. ASSUME NEW r \in Sessions, r # s
        PROVE  (r \in Writers' <=> r \in Writers) /\ (Holding(r)' <=> Holding(r))
               /\ (Filling(r)' <=> Filling(r))
    BY <1>4, <2>1 DEF Writers, Holding, Filling
  <2>2. ~Holding(s)' /\ ~Filling(s)' /\ put'[s].pc = "none"
    BY <1>4 DEF Holding, Filling, NoPut
  <2>3. ASSUME NEW r \in Sessions, r # s PROVE PutOK(r)'
    <3>1. PutOK(r) /\ (Holding(r) => put[r].v \in Vertices)
      BY DEF CsrInv, PutInv, PutOK
    <3>4. put'[r] = put[r]
      BY <1>4, <2>3
    <3>5. PICK u : u = put[r].v
      BY Zenon
    <3>6. Holding(r) => /\ lock'[u] = lock[u] /\ size'[u] = size[u]
                        /\ Len(Buffer(u)') = Len(Buffer(u))
      BY <1>1, <1>4, <1>5, <3>1, <3>5, Zenon
    <3>7. Filling(r) => Buffer(u)'[put[r].i] = Buffer(u)[put[r].i]
      BY <1>5, <3>1, <3>5, Zenon DEF Filling, Holding
    <3>8. at'[r] = at[r] /\ (r \in Writers => r \in Writers')
      BY <1>1, <1>4, <2>1, <2>3, Zenon
    <3> QED
      BY <3>1, <3>4, <3>5, <3>6, <3>7, <3>8, PutKept
  <2>4. PutOK(s)'
    BY <2>2, Zenon DEF PutOK
  <2>5. undo' # NoUndo =>
          /\ \E r \in Sessions : phase'[r] = "update"
          /\ undo'.v \in Vertices /\ undo'.i \in 1..size'[undo'.v]
          /\ \A r \in Sessions : ~Holding(r)'
    BY <1>1, <1>4, <2>1, <2>2, Zenon DEF CsrInv, PutInv, PutOK
  <2> QED
    BY <2>3, <2>4, <2>5, Zenon DEF PutInv, NoUndo
<1>7. SlotInv'
  <2>1. \A w \in Writers' : w # s
    BY <1>4, Zenon DEF Writers
  <2> QED
    BY <1>1, <1>4, <1>5, <2>1, SlotsQuiet DEF CsrInv
<1>8. WalkInv'
  BY <1>1, <1>2, <1>4, <1>5, WalksSame DEF CsrInv, CTypes, NoWalk
<1> QED
  BY <1>2, <1>3, <1>6, <1>7, <1>8 DEF CsrInv

(***************************************************************************)
(* The readers                                                             *)
(***************************************************************************)
\* Only the walk of reader s moves, and its buffer still carries its edges.
LEMMA WalkKeeps ==
  ASSUME CsrInv, NEW s \in Sessions, ReadOnly, WalkTypes',
         \A r \in Sessions : r # s => walk'[r] = walk[r],
         phase[s] = "read", walk'[s].v \in Vertices, walk'[s].b \in 1..Len(bufs[walk'[s].v]),
         walk'[s].pc = "walk" => walk'[s].i >= 1,
         \A t \in Nat : <<walk'[s].v, t>> \in live /\ t <= at[s] => \E i \in Nat : Carries(s, t, i)'
  PROVE  CsrInv'
<1>1. UNCHANGED <<next, phase, at, bufs, size, lock, put, undo, live>>
  BY Zenon DEF ReadOnly, vars, lists
<1>2. CTypes'
  BY <1>1, Zenon DEF CsrInv, CTypes, BufTypes, PutTypes, Buffer
<1>3. TxnInv' /\ PutInv'
  BY <1>1, TxnNext, PutsSame DEF CsrInv, OracleStep, vars
<1>4. \A v \in Vertices : Buffer(v)' = Buffer(v) /\ Filled(v)' = Filled(v)
  BY <1>1, SameLists, Zenon DEF Filling
<1>5. SlotInv'
  BY <1>1, <1>4, SlotsQuiet, Zenon DEF CsrInv
<1>6. ASSUME NEW r \in Sessions, r # s, walk[r].pc # "none", NEW t \in Nat, NEW i \in Nat,
             Carries(r, t, i)
      PROVE  Carries(r, t, i)'
  <2>1. walk[r].v \in Vertices
    BY <1>6, Zenon DEF CsrInv, WalkInv
  <2> QED
    BY <1>1, <1>4, <1>6, <2>1, Zenon DEF Carries
<1>7. WalkInv'
  <2>1. ASSUME NEW r \in Sessions, r # s, walk'[r].pc # "none"
        PROVE  /\ phase'[r] = "read"
               /\ walk'[r].v \in Vertices
               /\ walk'[r].b \in 1..Len(bufs'[walk'[r].v])
               /\ walk'[r].pc = "walk" => walk'[r].i >= 1
               /\ \A t \in Nat : <<walk'[r].v, t>> \in live' /\ t <= at'[r] =>
                    \E i \in Nat : Carries(r, t, i)'
    BY <1>1, <1>6, <2>1, Zenon DEF CsrInv, WalkInv
  <2> QED
    BY <1>1, <2>1, Zenon DEF WalkInv
<1> QED
  BY <1>2, <1>3, <1>5, <1>7, Zenon DEF CsrInv

\* get_edges: loading the buffer pointer keeps the invariant.
LEMMA LoadListKeeps ==
  ASSUME CsrInv, NEW s \in Sessions, NEW v \in Vertices, LoadList(s, v)
  PROVE  CsrInv'
<1> DEFINE new == [pc |-> "list", v |-> v, b |-> Len(bufs[v]), n |-> 0, i |-> 0, seen |-> <<>>]
<1>1. /\ walk' = [walk EXCEPT ![s] = new] /\ ReadOnly /\ phase[s] = "read"
      /\ UNCHANGED <<at, bufs, size, live, put>>
  BY DEF LoadList, ReadOnly, lists, vars
<1>2. Len(bufs[v]) \in Nat \ {0}
  BY SlotTypes DEF CsrInv, CTypes
<1>3. new.pc = "list" /\ new.v = v /\ new.b = Len(bufs[v])
  OBVIOUS
<1>4. WalkTypes' /\ walk'[s] = new /\ \A r \in Sessions : r # s => walk'[r] = walk[r]
  <2>1. new \in WalkRecords
    BY <1>2 DEF WalkRecords
  <2> HIDE DEF new
  <2> QED
    BY <1>1, <2>1 DEF CsrInv, CTypes, WalkTypes
<1>5. ASSUME NEW t \in Nat, <<v, t>> \in live, t <= at[s]
      PROVE  \E i \in Nat : Carries(s, t, i)'
  <2>1. PICK i \in Filled(v) : Buffer(v)[i].nbr = t /\ Buffer(v)[i].ts # INVALID_TIMESTAMP
    BY <1>5, Zenon DEF CsrInv, SlotInv
  <2>2. Stamped(v, Buffer(v)[i])
    BY <2>1, Zenon DEF CsrInv, SlotInv
  <2>3. Buffer(v)[i].ts <= at[s]
    BY <1>1, <1>5, <2>1, <2>2, Zenon DEF Stamped
  <2>4. i \in Nat /\ i <= size[v] /\ i \in 1..Len(Buffer(v))
    BY SlotTypes DEF CsrInv, CTypes, Filled
  <2>5. Filled(v)' = Filled(v)
    BY <1>1, Zenon DEF Filled, Filling
  <2>6. Carries(s, t, i)'
    BY <1>1, <1>3, <1>4, <2>1, <2>3, <2>4, <2>5, Zenon DEF Carries, Buffer
  <2> QED
    BY <2>4, <2>6
<1> HIDE DEF new
<1>6. /\ walk'[s].v = v /\ walk'[s].b \in 1..Len(bufs[v])
      /\ walk'[s].pc = "walk" => walk'[s].i >= 1
  BY <1>2, <1>3, <1>4
<1> QED
  BY <1>1, <1>4, <1>5, <1>6, WalkKeeps

\* get_edges: loading the size after the pointer keeps the invariant.
LEMMA LoadDegreeKeeps ==
  ASSUME CsrInv, NEW s \in Sessions, LoadDegree(s)
  PROVE  CsrInv'
<1>1. PICK v, b : v = walk[s].v /\ b = walk[s].b
  OBVIOUS
<1>2. walk[s].pc = "list" /\ ReadOnly /\ UNCHANGED <<at, bufs, size, live, put>>
  BY Zenon DEF LoadDegree, ReadOnly, lists, vars
<1>3. /\ phase[s] = "read" /\ v \in Vertices /\ b \in 1..Len(bufs[v])
      /\ \A t \in Nat : <<v, t>> \in live /\ t <= at[s] => \E i \in Nat : Carries(s, t, i)
  BY <1>1, <1>2, Zenon DEF CsrInv, WalkInv
<1>4. size[v] \in Nat
  BY <1>3, SlotTypes, Zenon DEF CsrInv, CTypes
<1>5. /\ WalkTypes' /\ \A r \in Sessions : r # s => walk'[r] = walk[r]
      /\ walk'[s].v = v /\ walk'[s].b = b /\ walk'[s].n = size[v] /\ walk'[s].i = 1
  <2>1. walk' = [walk EXCEPT ![s].pc = "walk", ![s].n = size[v], ![s].i = 1]
    BY <1>1 DEF LoadDegree
  <2>2. walk \in [Sessions -> WalkRecords]
    BY DEF CsrInv, CTypes, WalkTypes
  <2>3. PICK w \in WalkRecords : w = walk[s]
    BY <2>2
  <2>4. PICK m \in Nat : m = size[v]
    BY <1>4
  <2>5. PICK new : new = [w EXCEPT !.pc = "walk", !.n = m, !.i = 1]
    OBVIOUS
  <2>6. /\ new \in WalkRecords /\ new.n = m /\ new.i = 1
        /\ new.v = w.v /\ new.b = w.b /\ new.seen = w.seen
    <3>1. new \in WalkRecords
      BY <2>3, <2>4, <2>5, Zenon DEF WalkRecords
    <3> QED
      BY <2>3, <2>5, <3>1, Zenon DEF WalkRecords
  <2>7. walk' = [walk EXCEPT ![s] = new]
    BY <2>1, <2>2, <2>3, <2>4, <2>5, Zenon
  <2> QED
    BY <1>1, <2>2, <2>3, <2>4, <2>6, <2>7 DEF WalkTypes
<1>6. ASSUME NEW t \in Nat, NEW i \in Nat, Carries(s, t, i) PROVE Carries(s, t, i)'
  <2>1. \A u \in Vertices : Filled(u)' = Filled(u)
    BY <1>2, Zenon DEF Filled, Filling
  <2>2. /\ i \in 1..Len(bufs[v][b]) /\ i <= size[v]
        /\ bufs[v][b][i].nbr = t /\ bufs[v][b][i].ts <= at[s]
        /\ b = Len(bufs[v]) => i \in Filled(v)
    BY <1>1, <1>6, Zenon DEF Carries
  <2>3. i <= walk'[s].n /\ ~(i < walk'[s].i)
    BY <1>4, <1>5, <2>2
  <2> QED
    BY <1>2, <1>3, <1>5, <2>1, <2>2, <2>3, Zenon DEF Carries
<1>7. walk'[s].pc = "walk" => walk'[s].i >= 1
  BY <1>5
<1> QED
  BY <1>2, <1>3, <1>5, <1>6, <1>7, WalkKeeps

\* The iterator's step over one entry keeps the invariant.
LEMMA VisitEntryKeeps ==
  ASSUME CsrInv, NEW s \in Sessions, VisitEntry(s)
  PROVE  CsrInv'
<1>1. PICK v, b, k, q : v = walk[s].v /\ b = walk[s].b /\ k = walk[s].i /\ q = walk[s].seen
  BY Zenon
<1>2. PICK e \in Entries(v, b, k) :
        walk' = [walk EXCEPT ![s].i = @ + 1,
                             ![s].seen = IF Visible(e.ts, at[s]) THEN Append(@, e.nbr) ELSE @]
  BY <1>1, Zenon DEF VisitEntry
<1>3. walk[s].pc = "walk" /\ ReadOnly /\ UNCHANGED <<at, bufs, size, live, put>>
  BY DEF VisitEntry, ReadOnly, lists, vars
<1>4. /\ phase[s] = "read" /\ v \in Vertices /\ b \in 1..Len(bufs[v]) /\ k >= 1
      /\ \A t \in Nat : <<v, t>> \in live /\ t <= at[s] => \E i \in Nat : Carries(s, t, i)
  BY <1>1, <1>3 DEF CsrInv, WalkInv
<1>5. q \in Seq(Int) /\ k \in Nat /\ walk[s] \in WalkRecords
  BY <1>1, Zenon DEF CsrInv, CTypes, WalkTypes, WalkRecords
<1>6. k \in 1..Len(bufs[v][b]) => e = bufs[v][b][k]
  BY <1>2, <1>5 DEF Entries
<1>7. e.nbr \in Int
  <2>1. Len(bufs[v][b]) \in Nat /\ \A i \in 1..Len(bufs[v][b]) : bufs[v][b][i] \in Entry
    BY <1>4, SlotTypes, Zenon DEF CsrInv, CTypes
  <2>2. CASE k \in 1..Len(bufs[v][b])
    <3>1. e \in Entry
      BY <1>6, <2>1, <2>2, Zenon
    <3> QED
      BY <3>1 DEF Entry
  <2>3. CASE k \notin 1..Len(bufs[v][b])
    <3>1. ~(k <= Len(bufs[v][b]))
      BY <1>4, <1>5, <2>1, <2>3
    <3> QED
      BY <1>2, <3>1 DEF Entries, Garbage
  <2> QED
    BY <2>2, <2>3, Zenon
<1>8. PICK seen : seen = IF Visible(e.ts, at[s]) THEN Append(q, e.nbr) ELSE q
  BY Zenon
<1>9. seen \in Seq(Int) /\ \A t \in Range(q) : t \in Range(seen)
  <2>1. CASE seen = q
    BY <1>5, <2>1
  <2>2. CASE seen = Append(q, e.nbr)
    <3>1. seen \in Seq(Int) /\ \A m \in DOMAIN q : m \in DOMAIN seen /\ seen[m] = q[m]
      BY <1>5, <1>7, <2>2
    <3> QED
      BY <3>1 DEF Range
  <2> QED
    BY <1>8, <2>1, <2>2
<1>10. e.ts <= at[s] => e.nbr \in Range(seen)
  <2> SUFFICES ASSUME e.ts <= at[s] PROVE e.nbr \in Range(seen)
    OBVIOUS
  <2>1. seen = Append(q, e.nbr)
    BY <1>8, Zenon DEF Visible
  <2>2. seen[Len(q) + 1] = e.nbr /\ Len(q) + 1 \in DOMAIN seen
    BY <1>5, <1>7, <2>1
  <2> QED
    BY <2>2 DEF Range
<1>11. /\ WalkTypes' /\ \A r \in Sessions : r # s => walk'[r] = walk[r]
       /\ walk'[s].pc = "walk" /\ walk'[s].v = v /\ walk'[s].b = b
       /\ walk'[s].n = walk[s].n /\ walk'[s].i = k + 1 /\ walk'[s].seen = seen
  <2>1. PICK w \in WalkRecords : w = walk[s]
    BY <1>5, Zenon
  <2>2. PICK new : new = [w EXCEPT !.i = k + 1, !.seen = seen]
    BY Zenon
  <2>3. /\ new \in WalkRecords /\ new.i = k + 1 /\ new.seen = seen
        /\ new.pc = w.pc /\ new.v = w.v /\ new.b = w.b /\ new.n = w.n
    <3>1. PICK j \in Nat : j = k + 1
      BY <1>5
    <3>2. new = [w EXCEPT !.i = j, !.seen = seen]
      BY <2>2, <3>1, Zenon
    <3>3. new \in WalkRecords
      BY <1>9, <2>1, <3>1, <3>2, Zenon DEF WalkRecords
    <3>4. /\ new.i = j /\ new.seen = seen
          /\ new.pc = w.pc /\ new.v = w.v /\ new.b = w.b /\ new.n = w.n
      BY <2>1, <3>2, Zenon DEF WalkRecords
    <3> QED
      BY <3>1, <3>3, <3>4, Zenon
  <2>4. walk \in [Sessions -> WalkRecords]
    BY DEF CsrInv, CTypes, WalkTypes
  <2>5. walk' = [walk EXCEPT ![s].i = k + 1, ![s].seen = seen]
    BY <1>1, <1>2, <1>8, <2>4, Zenon
  <2>6. walk' = [walk EXCEPT ![s] = new]
    BY <2>1, <2>2, <2>4, <2>5, Zenon
  <2> QED
    BY <1>1, <1>3, <2>1, <2>3, <2>4, <2>6, Zenon DEF WalkTypes
<1>12. ASSUME NEW t \in Nat, NEW i \in Nat, Carries(s, t, i) PROVE Carries(s, t, i)'
  <2>1. \A u \in Vertices : Filled(u)' = Filled(u)
    BY <1>3, Zenon DEF Filled, Filling
  <2>2. /\ i \in 1..Len(bufs[v][b]) /\ i <= size[v] /\ i <= walk[s].n
        /\ bufs[v][b][i].nbr = t /\ bufs[v][b][i].ts <= at[s]
        /\ b = Len(bufs[v]) => i \in Filled(v)
        /\ i < k => t \in Range(q)
    BY <1>1, <1>3, <1>12, Zenon DEF Carries
  <2>3. CASE i = k
    <3>1. t \in Range(seen)
      BY <1>6, <1>10, <2>2, <2>3, Zenon
    <3> QED
      BY <1>3, <1>4, <1>11, <2>1, <2>2, <3>1, Zenon DEF Carries
  <2>4. CASE i # k
    <3>1. i < k + 1 => i < k
      BY <1>5, <2>4
    <3>2. i < k + 1 => t \in Range(seen)
      BY <1>9, <2>2, <3>1, Zenon
    <3> QED
      BY <1>3, <1>4, <1>11, <2>1, <2>2, <3>2, Zenon DEF Carries
  <2> QED
    BY <2>3, <2>4
<1> QED
  <2>1. walk'[s].i >= 1
    BY <1>5, <1>11
  <2> QED
    BY <1>3, <1>4, <1>11, <1>12, <2>1, WalkKeeps, Zenon

(***************************************************************************)
(* put_edge                                                                *)
(***************************************************************************)
\* Two put_edges that hold a list hold different lists.
LEMMA HoldApart ==
  ASSUME CsrInv, NEW r \in Sessions, NEW s \in Sessions, r # s, Holding(r), Holding(s)
  PROVE  put[r].v # put[s].v
BY Zenon DEF CsrInv, PutInv, PutOK

\* Nobody is inside put_edge while a deletion can be undone.
LEMMA NoUndoWhileHolding ==
  ASSUME CsrInv, NEW s \in Sessions, Holding(s)
  PROVE  undo = NoUndo
BY DEF CsrInv, PutInv

\* put_edge: taking the list's lock keeps the invariant.
LEMMA LockListKeeps ==
  ASSUME CsrInv, NEW s \in Sessions, NEW v \in Vertices, LockList(s, v)
  PROVE  CsrInv'
<1>1. /\ s \in Writers /\ put[s].pc = "none" /\ undo = NoUndo /\ lock[v] = 0
      /\ lock' = [lock EXCEPT ![v] = s]
      /\ put' = [put EXCEPT ![s] = [pc |-> "locked", v |-> v, i |-> 0]]
      /\ UNCHANGED <<next, phase, at, bufs, size, live, walk, undo>>
  BY Zenon DEF LockList, PutOnly, vars
<1>2. /\ put'[s].pc = "locked" /\ put'[s].v = v /\ lock'[v] = s
      /\ \A r \in Sessions : r # s => put'[r] = put[r]
      /\ \A u \in Vertices : u # v => lock'[u] = lock[u]
  BY <1>1, Zenon DEF CsrInv, CTypes, PutTypes
<1>3. CTypes'
  <2>1. BufTypes' /\ WalkTypes'
    BY <1>1, Zenon DEF CsrInv, CTypes, BufTypes, WalkTypes, Buffer
  <2>2. PutTypes'
    BY <1>1, Zenon DEF CsrInv, CTypes, PutTypes, NoUndo
  <2> QED
    BY <2>1, <2>2, Zenon DEF CTypes
<1>4. TxnInv' /\ Writers' = Writers
  BY <1>1, Zenon DEF CsrInv, TxnInv, Writers
<1>5. \A u \in Vertices : Buffer(u)' = Buffer(u) /\ Filled(u)' = Filled(u)
  BY <1>1, <1>2, SameLists DEF Filling
<1>6. PutInv'
  <2>1. PutOK(s)'
    BY <1>1, <1>2, <1>4, Zenon DEF PutOK, Holding, Filling
  <2>2. ASSUME NEW r \in Sessions, r # s PROVE PutOK(r)'
    <3>1. PutOK(r) /\ put'[r] = put[r]
      BY <1>2, <2>2, Zenon DEF CsrInv, PutInv
    <3>2. Holding(r) => put[r].v # v
      BY <1>1, <3>1, MutableCsrAssumption, Zenon DEF PutOK
    <3>3. Holding(r) => put[r].v \in Vertices
      BY <3>1, Zenon DEF PutOK
    <3>5. PICK u : u = put[r].v
      BY Zenon
    <3>6. Holding(r) => /\ lock'[u] = lock[u] /\ size'[u] = size[u]
                        /\ Len(Buffer(u)') = Len(Buffer(u))
      BY <1>1, <1>2, <1>4, <1>5, <3>2, <3>3, <3>5, Zenon
    <3>7. Filling(r) => Buffer(u)'[put[r].i] = Buffer(u)[put[r].i]
      BY <1>5, <3>3, <3>5, Zenon DEF Filling, Holding
    <3>8. at'[r] = at[r] /\ (r \in Writers => r \in Writers')
      BY <1>1, <1>2, <1>4, Zenon
    <3> QED
      BY <3>1, <3>5, <3>6, <3>7, <3>8, PutKept, Zenon
  <2> QED
    BY <1>1, <2>1, <2>2, Zenon DEF PutInv, NoUndo
<1>7. SlotInv'
  BY <1>1, <1>2, <1>5, SlotsQuiet DEF CsrInv
<1>8. WalkInv'
  BY <1>1, <1>3, <1>5, WalksSame, Zenon DEF CsrInv, CTypes
<1> QED
  BY <1>3, <1>4, <1>6, <1>7, <1>8, Zenon DEF CsrInv

\* put_edge: copying a full list into a larger buffer keeps the invariant.
LEMMA GrowListKeeps ==
  ASSUME CsrInv, NEW s \in Sessions, GrowList(s)
  PROVE  CsrInv'
<1>1. PICK v, cap : v = put[s].v /\ cap = Len(Buffer(v))
  BY Zenon
<1> DEFINE grown == [i \in 1..Max2(cap + cap \div 2, MinCap) |->
                       IF i <= size[v] THEN Buffer(v)[i] ELSE Zeroed]
<1>2. /\ put[s].pc = "locked" /\ size[v] = cap
      /\ bufs' = [bufs EXCEPT ![v] = Append(@, grown)]
      /\ put' = [put EXCEPT ![s].pc = "room"]
      /\ UNCHANGED <<next, phase, at, size, lock, live, walk, undo>>
  BY <1>1, Zenon DEF GrowList, SetPc, PutOnly, vars
<1>3. v \in Vertices /\ Holding(s) /\ lock[v] = s /\ s \in Writers
  BY <1>1, <1>2 DEF CsrInv, PutInv, PutOK, Holding
<1>4. /\ bufs[v] \in Seq(Seq(Entry)) /\ Len(bufs[v]) \in Nat \ {0} /\ cap \in Nat
      /\ \A i \in 1..cap : Buffer(v)[i] \in Entry
  BY <1>1, <1>3, SlotTypes, Zenon DEF CsrInv, CTypes
<1>5. /\ Max2(cap + cap \div 2, MinCap) \in Nat /\ cap < Max2(cap + cap \div 2, MinCap)
  BY <1>4, MutableCsrAssumption DEF Max2
<1>6. /\ grown \in Seq(Entry) /\ Len(grown) = Max2(cap + cap \div 2, MinCap)
      /\ \A i \in 1..cap : grown[i] = Buffer(v)[i]
  <2>1. Zeroed \in Entry
    BY DEF Zeroed, Entry
  <2>2. PICK m \in Nat : m = Max2(cap + cap \div 2, MinCap) /\ cap < m
    BY <1>5, Zenon
  <2>3. grown \in [1..m -> Entry] /\ \A i \in 1..cap : grown[i] = Buffer(v)[i]
    BY <1>2, <1>4, <2>1, <2>2
  <2> HIDE DEF grown
  <2>4. grown \in Seq(Entry) /\ Len(grown) = m
    BY <2>2, <2>3
  <2> QED
    BY <2>2, <2>3, <2>4, Zenon
<1> HIDE DEF grown
<1>7. /\ \A u \in Vertices : u # v => bufs'[u] = bufs[u] /\ Buffer(u)' = Buffer(u)
      /\ bufs'[v] = Append(bufs[v], grown)
      /\ bufs' \in [Vertices -> Seq(Seq(Entry))]
  BY <1>2, <1>3, <1>4, <1>6 DEF CsrInv, CTypes, BufTypes, Buffer
<1>8. /\ Len(bufs'[v]) = Len(bufs[v]) + 1
      /\ \A b \in 1..Len(bufs[v]) : bufs'[v][b] = bufs[v][b]
      /\ Buffer(v)' = grown
  BY <1>4, <1>6, <1>7 DEF Buffer
<1>9. /\ put'[s].pc = "room" /\ put'[s].v = v /\ put'[s].i = put[s].i
      /\ \A r \in Sessions : r # s => put'[r] = put[r]
  BY <1>1, <1>2 DEF CsrInv, CTypes, PutTypes
<1>10. CTypes'
  <2>1. ASSUME NEW u \in Vertices PROVE Len(bufs'[u]) >= 1 /\ size'[u] <= Len(Buffer(u)')
    <3>1. size[u] <= Len(Buffer(u)) /\ Len(bufs[u]) >= 1
      BY DEF CsrInv, CTypes, BufTypes
    <3>2. CASE u = v
      BY <1>2, <1>4, <1>5, <1>6, <1>8, <3>2
    <3>3. CASE u # v
      BY <1>2, <1>7, <3>1, <3>3
    <3> QED
      BY <3>2, <3>3
  <2>2. BufTypes'
    BY <1>2, <1>7, <2>1, Zenon DEF CsrInv, CTypes, BufTypes
  <2>3. PutTypes' /\ WalkTypes'
    BY <1>2 DEF CsrInv, CTypes, PutTypes, WalkTypes
  <2> QED
    BY <2>2, <2>3 DEF CTypes
<1>11. TxnInv' /\ Writers' = Writers
  BY <1>2, Zenon DEF CsrInv, TxnInv, Writers
<1>12. \A u \in Vertices : Filled(u)' = Filled(u)
  BY <1>2, <1>9, Zenon DEF Filled, Filling
<1>13. PutInv'
  <2>1. PutOK(s)'
    BY <1>2, <1>3, <1>5, <1>6, <1>8, <1>9, <1>11 DEF PutOK, Holding, Filling
  <2>2. ASSUME NEW r \in Sessions, r # s PROVE PutOK(r)'
    <3>1. PutOK(r) /\ put'[r] = put[r]
      BY <1>9, <2>2, Zenon DEF CsrInv, PutInv
    <3>2. Holding(r) => put[r].v # v
      BY <1>1, <1>3, <2>2, HoldApart
    <3>3. Holding(r) => put[r].v \in Vertices
      BY <3>1, Zenon DEF PutOK
    <3>5. PICK u : u = put[r].v
      OBVIOUS
    <3>6. Holding(r) => /\ lock'[u] = lock[u] /\ size'[u] = size[u]
                        /\ Len(Buffer(u)') = Len(Buffer(u))
      BY <1>2, <1>7, <3>2, <3>3, <3>5
    <3>7. Filling(r) => Buffer(u)'[put[r].i] = Buffer(u)[put[r].i]
      BY <1>7, <3>2, <3>3, <3>5, Zenon DEF Filling, Holding
    <3>8. at'[r] = at[r] /\ (r \in Writers => r \in Writers')
      BY <1>2, <1>11, Zenon
    <3> QED
      BY <3>1, <3>5, <3>6, <3>7, <3>8, PutKept, Zenon
  <2>3. undo' = NoUndo
    BY <1>2, <1>3, NoUndoWhileHolding
  <2> QED
    BY <2>1, <2>2, <2>3, Zenon DEF PutInv, NoUndo
<1>14. SlotInv'
  <2>1. \A u \in Vertices : \A i \in Filled(u) : Buffer(u)'[i] = Buffer(u)[i]
    BY <1>2, <1>6, <1>7, <1>8, Zenon DEF Filled
  <2> QED
    BY <1>2, <1>9, <1>12, <2>1, SlotsQuiet DEF CsrInv
<1>15. WalkInv'
  <2>1. \A u \in Vertices : /\ Len(bufs[u]) <= Len(bufs'[u]) /\ size[u] <= size'[u]
                            /\ \A b \in 1..Len(bufs[u]) : bufs'[u][b] = bufs[u][b]
    BY <1>2, <1>4, <1>7, <1>8, SlotTypes DEF CsrInv, CTypes
  <2> QED
    BY <1>2, <1>10, <1>12, <2>1, WalksQuiet DEF CsrInv, CTypes
<1> QED
  BY <1>10, <1>11, <1>13, <1>14, <1>15 DEF CsrInv

\* put_edge: counting the new entry before it is written keeps the invariant.
LEMMA CountEntryKeeps ==
  ASSUME CsrInv, NEW s \in Sessions, CountEntry(s)
  PROVE  CsrInv'
<1>1. PICK v : v = put[s].v
  BY Zenon
<1>2. /\ put[s].pc \in {"room", "locked"} /\ (put[s].pc = "locked" => size[v] < Len(Buffer(v)))
      /\ size' = [size EXCEPT ![v] = @ + 1]
      /\ put' = [put EXCEPT ![s] = [pc |-> "counted", v |-> v, i |-> size[v] + 1]]
      /\ UNCHANGED <<next, phase, at, bufs, lock, live, walk, undo>>
  BY <1>1, Zenon DEF CountEntry, HasRoom, PutOnly, vars
<1>3. /\ v \in Vertices /\ Holding(s) /\ lock[v] = s /\ s \in Writers /\ size[v] < Len(Buffer(v))
      /\ ~Filling(s)
  BY <1>1, <1>2, Zenon DEF CsrInv, PutInv, PutOK, Holding, Filling
<1>4. /\ size[v] \in Nat /\ Len(Buffer(v)) \in Nat
      /\ size'[v] = size[v] + 1 /\ \A u \in Vertices : u # v => size'[u] = size[u]
      /\ \A u \in Vertices : Buffer(u)' = Buffer(u) /\ size[u] <= size'[u]
  <2>1. \A u \in Vertices : size[u] \in Nat /\ Len(Buffer(u)) \in Nat
    BY SlotTypes, Zenon DEF CsrInv, CTypes
  <2>2. size'[v] = size[v] + 1 /\ \A u \in Vertices : u # v => size'[u] = size[u]
    BY <1>2, <1>3, Zenon DEF CsrInv, CTypes, BufTypes
  <2>3. \A u \in Vertices : Buffer(u)' = Buffer(u)
    BY <1>2, Zenon DEF Buffer
  <2>4. \A u \in Vertices : size[u] <= size'[u]
    BY <2>1, <2>2
  <2> QED
    BY <1>3, <2>1, <2>2, <2>3, <2>4, Zenon
<1>5. /\ put'[s].pc = "counted" /\ put'[s].v = v /\ put'[s].i = size[v] + 1
      /\ \A r \in Sessions : r # s => put'[r] = put[r]
  BY <1>1, <1>2, Zenon DEF CsrInv, CTypes, PutTypes
<1>6. CTypes'
  <2>1. BufTypes'
    BY <1>2, <1>3, <1>4 DEF CsrInv, CTypes, BufTypes
  <2>2. WalkTypes'
    BY <1>2, Zenon DEF CsrInv, CTypes, WalkTypes
  <2>3. PutTypes'
    BY <1>2, <1>3, <1>4 DEF CsrInv, CTypes, PutTypes
  <2> QED
    BY <2>1, <2>2, <2>3, Zenon DEF CTypes
<1>7. TxnInv' /\ Writers' = Writers
  BY <1>2, Zenon DEF CsrInv, TxnInv, Writers
<1>8. \A r \in Sessions : r # s /\ Holding(r) => put[r].v # v
  BY <1>1, <1>3, HoldApart, Zenon
<1>9. ASSUME NEW u \in Vertices PROVE Filled(u)' = Filled(u)
  <2>1. \A r \in Sessions : r # s => (Filling(r)' <=> Filling(r))
    BY <1>5, Zenon DEF Filling
  <2>2. Filling(s)'
    BY <1>5, Zenon DEF Filling
  <2>3. CASE u = v
    <3>1. \A r \in Sessions : r # s /\ Filling(r) => put[r].v # v
      BY <1>8, Zenon DEF Filling, Holding
    <3>2. Filled(v) = 1..size[v]
      BY <1>3, <3>1, Zenon DEF Filled
    <3>3. Filled(v)' = {i \in 1..(size[v] + 1) : i # size[v] + 1}
      BY <1>4, <1>5, <2>1, <2>2, <3>1 DEF Filled
    <3> QED
      BY <1>4, <2>3, <3>2, <3>3
  <2>4. CASE u # v
    BY <1>3, <1>4, <1>5, <2>1, <2>2, <2>4 DEF Filled
  <2> QED
    BY <2>3, <2>4, Zenon
<1>10. PutInv'
  <2>1. PutOK(s)'
    <3>1. lock'[v] = s /\ s \in Writers'
      BY <1>2, <1>3, <1>7, Zenon
    <3>2. put'[s].i = size'[v] /\ put'[s].i >= 1
      BY <1>4, <1>5
    <3> QED
      BY <1>3, <1>5, <3>1, <3>2, Zenon DEF PutOK, Holding, Filling
  <2>2. ASSUME NEW r \in Sessions, r # s PROVE PutOK(r)'
    <3>1. PutOK(r) /\ put'[r] = put[r] /\ (Holding(r) => put[r].v # v)
      BY <1>5, <1>8, <2>2, Zenon DEF CsrInv, PutInv
    <3>2. Holding(r) => put[r].v \in Vertices
      BY <3>1, Zenon DEF PutOK
    <3>5. PICK u : u = put[r].v
      OBVIOUS
    <3>6. Holding(r) => /\ lock'[u] = lock[u] /\ size'[u] = size[u]
                        /\ Len(Buffer(u)') = Len(Buffer(u))
      BY <1>2, <1>4, <3>1, <3>2, <3>5, Zenon
    <3>7. Filling(r) => Buffer(u)'[put[r].i] = Buffer(u)[put[r].i]
      BY <1>2, <1>4, <3>1, <3>2, <3>5, Zenon DEF Filling, Holding
    <3>8. at'[r] = at[r] /\ (r \in Writers => r \in Writers')
      BY <1>2, <1>7, Zenon
    <3> QED
      BY <3>1, <3>5, <3>6, <3>7, <3>8, PutKept, Zenon
  <2>3. undo' = NoUndo
    BY <1>2, <1>3, NoUndoWhileHolding, Zenon
  <2> QED
    BY <2>1, <2>2, <2>3 DEF PutInv, NoUndo
<1>11. SlotInv'
  <2>1. \A w \in Writers' : put'[w].pc # "done" => put[w].pc # "done"
    BY <1>2, <1>5, Zenon DEF Writers
  <2>2. \A u \in Vertices : \A i \in Filled(u) : Buffer(u)'[i] = Buffer(u)[i]
    BY <1>4
  <2> QED
    BY <1>2, <1>9, <2>1, <2>2, SlotsQuiet, Zenon DEF CsrInv
<1>12. WalkInv'
  <2>1. \A u \in Vertices : Len(bufs[u]) \in Nat
    BY SlotTypes, Zenon DEF CsrInv, CTypes
  <2>2. \A u \in Vertices :
          /\ size[u] <= size'[u] /\ Len(bufs[u]) <= Len(bufs'[u])
          /\ \A b \in 1..Len(bufs[u]) : Len(bufs'[u][b]) = Len(bufs[u][b])
          /\ Filled(u) \subseteq Filled(u)'
    BY <1>2, <1>4, <1>9, <2>1
  <2> QED
    BY <1>2, <1>6, <2>2, WalksQuiet, Zenon DEF CsrInv, CTypes
<1> QED
  BY <1>6, <1>7, <1>10, <1>11, <1>12 DEF CsrInv

\* put_edge: writing the neighbour of the counted entry keeps the invariant.
LEMMA WriteNeighborKeeps ==
  ASSUME CsrInv, NEW s \in Sessions, WriteNeighbor(s)
  PROVE  CsrInv'
<1>1. PICK v, k : v = put[s].v /\ k = put[s].i
  BY Zenon
<1> DEFINE e == [Buffer(v)[k] EXCEPT !.nbr = at[s]]
<1>2. /\ put[s].pc = "counted" /\ bufs' = Written(v, k, e)
      /\ put' = [put EXCEPT ![s].pc = "named"]
      /\ UNCHANGED <<next, phase, at, size, lock, live, walk, undo>>
  BY <1>1, Zenon DEF WriteNeighbor, SetPc, PutOnly, vars
<1>3. /\ v \in Vertices /\ Holding(s) /\ Filling(s) /\ lock[v] = s /\ s \in Writers
      /\ k = size[v] /\ k >= 1
  BY <1>1, <1>2, Zenon DEF CsrInv, PutInv, PutOK, Holding, Filling
<1>4. k \in 1..Len(Buffer(v)) /\ k \notin Filled(v)
  <2>1. size[v] <= Len(Buffer(v)) /\ Len(Buffer(v)) \in Nat /\ size[v] \in Nat
    BY <1>3, SlotTypes, Zenon DEF CsrInv, CTypes
  <2>2. k \notin Filled(v)
    BY <1>1, <1>3, Zenon DEF Filled
  <2> QED
    BY <1>3, <2>1, <2>2
<1>5. e \in Entry /\ e.nbr = at[s]
  <2>1. Buffer(v)[k] \in Entry /\ at[s] \in Nat
    BY <1>3, <1>4, SlotTypes, Zenon DEF CsrInv, CTypes, TxnInv
  <2> QED
    BY <2>1, Zenon DEF Entry
<1> HIDE DEF e
<1>6. /\ bufs' \in [Vertices -> Seq(Seq(Entry))]
      /\ \A u \in Vertices :
           /\ Len(bufs'[u]) = Len(bufs[u])
           /\ \A b \in 1..Len(bufs[u]) : Len(bufs'[u][b]) = Len(bufs[u][b])
           /\ Len(Buffer(u)') = Len(Buffer(u))
      /\ \A u \in Vertices : \A b \in 1..Len(bufs[u]) : \A j \in 1..Len(bufs[u][b]) :
           u # v \/ b # Len(bufs[v]) \/ j # k => bufs'[u][b][j] = bufs[u][b][j]
      /\ \A u \in Vertices : \A j \in 1..Len(Buffer(u)) :
           u # v \/ j # k => Buffer(u)'[j] = Buffer(u)[j]
      /\ Buffer(v)'[k] = e
  BY <1>2, <1>3, <1>4, <1>5, WrittenSlots, Zenon DEF CsrInv, CTypes
<1>7. /\ put'[s].pc = "named" /\ put'[s].v = v /\ put'[s].i = k
      /\ \A r \in Sessions : r # s => put'[r] = put[r]
  BY <1>1, <1>2, Zenon DEF CsrInv, CTypes, PutTypes
<1>8. CTypes'
  <2>1. BufTypes'
    BY <1>2, <1>6 DEF CsrInv, CTypes, BufTypes
  <2>2. PutTypes' /\ WalkTypes'
    BY <1>2 DEF CsrInv, CTypes, PutTypes, WalkTypes
  <2> QED
    BY <2>1, <2>2 DEF CTypes
<1>9. TxnInv' /\ Writers' = Writers
  BY <1>2 DEF CsrInv, TxnInv, Writers
<1>10. \A u \in Vertices : Filled(u)' = Filled(u)
  BY <1>1, <1>2, <1>7 DEF Filled, Filling
<1>11. PutInv'
  <2>1. PutOK(s)'
    BY <1>2, <1>3, <1>5, <1>6, <1>7, <1>9, Zenon DEF PutOK, Holding, Filling
  <2>2. ASSUME NEW r \in Sessions, r # s PROVE PutOK(r)'
    <3>1. PutOK(r) /\ put'[r] = put[r] /\ (Holding(r) => put[r].v # v)
      BY <1>1, <1>3, <1>7, <2>2, HoldApart, Zenon DEF CsrInv, PutInv
    <3>2. Holding(r) => put[r].v \in Vertices
      BY <3>1 DEF PutOK
    <3>3. Filling(r) => put[r].i = size[put[r].v] /\ put[r].i >= 1 /\ Holding(r)
      BY <3>1, Zenon DEF PutOK, Filling, Holding
    <3>4. Filling(r) => put[r].i \in 1..Len(Buffer(put[r].v))
      BY <3>2, <3>3, SizeTypes DEF CsrInv, CTypes
    <3>5. PICK u : u = put[r].v
      OBVIOUS
    <3>6. Holding(r) => /\ lock'[u] = lock[u] /\ size'[u] = size[u]
                        /\ Len(Buffer(u)') = Len(Buffer(u))
      BY <1>2, <1>6, <3>1, <3>2, <3>5, Zenon
    <3>7. Filling(r) => Buffer(u)'[put[r].i] = Buffer(u)[put[r].i]
      BY <1>6, <3>1, <3>2, <3>4, <3>5, Zenon DEF Filling, Holding
    <3>8. at'[r] = at[r] /\ (r \in Writers => r \in Writers')
      BY <1>2, <1>9
    <3> QED
      BY <3>1, <3>5, <3>6, <3>7, <3>8, PutKept, Zenon
  <2>3. undo' = NoUndo
    BY <1>2, <1>3, NoUndoWhileHolding, Zenon
  <2> QED
    BY <2>1, <2>2, <2>3 DEF PutInv, NoUndo
<1>12. SlotInv'
  <2>1. \A u \in Vertices : \A i \in Filled(u) : Buffer(u)'[i] = Buffer(u)[i]
    <3>1. ASSUME NEW u \in Vertices, NEW i \in Filled(u) PROVE i \in 1..Len(Buffer(u))
      BY SizeTypes DEF CsrInv, CTypes, Filled
    <3> QED
      BY <1>4, <1>6, <3>1, Zenon
  <2> QED
    BY <1>2, <1>7, <1>10, <2>1, SlotsQuiet DEF CsrInv
<1>13. WalkInv'
  <2>1. \A u \in Vertices : Len(bufs[u]) \in Nat /\ size[u] \in Nat
    BY SlotTypes, Zenon DEF CsrInv, CTypes
  <2>2. \A u \in Vertices : \A b \in 1..Len(bufs[u]) : \A j \in 1..Len(bufs[u][b]) :
          b # Len(bufs[u]) \/ j \in Filled(u) => bufs'[u][b][j] = bufs[u][b][j]
    <3>1. \A u \in Vertices : \A b, j :
            b # Len(bufs[u]) \/ j \in Filled(u) => u # v \/ b # Len(bufs[v]) \/ j # k
      BY <1>4, Zenon
    <3> QED
      BY <1>6, <3>1, Zenon
  <2>3. \A u \in Vertices :
          /\ size[u] <= size'[u] /\ Len(bufs[u]) <= Len(bufs'[u])
          /\ \A b \in 1..Len(bufs[u]) : Len(bufs'[u][b]) = Len(bufs[u][b])
          /\ Filled(u) \subseteq Filled(u)'
    BY <1>2, <1>6, <1>10, <2>1
  <2> QED
    BY <1>2, <1>8, <2>2, <2>3, WalksQuiet, Zenon DEF CsrInv, CTypes
<1> QED
  BY <1>8, <1>9, <1>11, <1>12, <1>13 DEF CsrInv

(***************************************************************************)
(* put_edge finishes its entry                                             *)
(***************************************************************************)
LEMMA WriteTimestampKeeps ==
  ASSUME CsrInv, NEW s \in Sessions, WriteTimestamp(s)
  PROVE  CsrInv'
<1>1. PICK v, k : v = put[s].v /\ k = put[s].i
  OBVIOUS
<1> DEFINE e == [Buffer(v)[k] EXCEPT !.ts = at[s]]
<1>2. /\ put[s].pc = "named" /\ bufs' = Written(v, k, e)
      /\ put' = [put EXCEPT ![s].pc = "done"] /\ lock' = [lock EXCEPT ![v] = 0]
      /\ live' = live \union {<<v, at[s]>>}
      /\ undo' = IF phase[s] = "update" THEN [op |-> "put", v |-> v, i |-> k] ELSE undo
      /\ UNCHANGED <<next, phase, at, size, walk>>
  BY <1>1 DEF WriteTimestamp, SetPc, vars
<1>3. /\ v \in Vertices /\ Holding(s) /\ Filling(s) /\ lock[v] = s /\ s \in Writers
      /\ k = size[v] /\ k >= 1 /\ Buffer(v)[k].nbr = at[s]
  BY <1>1, <1>2 DEF CsrInv, PutInv, PutOK, Holding, Filling
<1>4. k \in 1..Len(Buffer(v)) /\ k \notin Filled(v) /\ k \in Nat /\ size[v] \in Nat
  <2>1. size[v] <= Len(Buffer(v)) /\ Len(Buffer(v)) \in Nat /\ size[v] \in Nat
    BY <1>3, SlotTypes DEF CsrInv, CTypes
  <2>2. k \notin Filled(v)
    BY <1>1, <1>3, Zenon DEF Filled
  <2> QED
    BY <1>3, <2>1, <2>2
<1>5. /\ at[s] \in Nat /\ at[s] < next /\ at[s] <= MaxTs /\ at[s] # INVALID_TIMESTAMP
      /\ \A w \in Writers : w # s => at[w] # at[s]
      /\ \A r \in Sessions : phase[r] = "read" => at[r] < at[s] /\ at[r] \in Nat
  <2>1. /\ at[s] \in Nat /\ at[s] < next /\ at[s] <= MaxTs
        /\ \A w \in Writers : w # s => at[w] # at[s]
        /\ \A r \in Sessions : phase[r] = "read" => at[r] < at[s] /\ at[r] \in Nat
    BY <1>3 DEF CsrInv, TxnInv
  <2> QED
    BY <2>1, InvalidIsLarge, MutableCsrAssumption
<1>6. e \in Entry /\ e.nbr = at[s] /\ e.ts = at[s]
  <2>1. Buffer(v)[k] \in Entry
    BY <1>3, <1>4, SlotTypes DEF CsrInv, CTypes
  <2> QED
    BY <1>3, <1>5, <2>1 DEF Entry
<1> HIDE DEF e
<1>7. /\ bufs' \in [Vertices -> Seq(Seq(Entry))]
      /\ \A u \in Vertices :
           /\ Len(bufs'[u]) = Len(bufs[u])
           /\ \A b \in 1..Len(bufs[u]) : Len(bufs'[u][b]) = Len(bufs[u][b])
           /\ Len(Buffer(u)') = Len(Buffer(u))
      /\ \A u \in Vertices : \A b \in 1..Len(bufs[u]) : \A j \in 1..Len(bufs[u][b]) :
           u # v \/ b # Len(bufs[v]) \/ j # k => bufs'[u][b][j] = bufs[u][b][j]
      /\ \A u \in Vertices : \A j \in 1..Len(Buffer(u)) :
           u # v \/ j # k => Buffer(u)'[j] = Buffer(u)[j]
      /\ Buffer(v)'[k] = e
  BY <1>2, <1>3, <1>4, <1>6, WrittenSlots, Zenon DEF CsrInv, CTypes
<1>8. /\ put'[s].pc = "done" /\ \A r \in Sessions : r # s => put'[r] = put[r]
      /\ \A u \in Vertices : u # v => lock'[u] = lock[u]
  BY <1>2 DEF CsrInv, CTypes, PutTypes
<1>9. CTypes'
  <2>1. BufTypes'
    BY <1>2, <1>3, <1>5, <1>7 DEF CsrInv, CTypes, BufTypes
  <2>2. PutTypes'
    <3>1. lock' \in [Vertices -> Sessions \union {0}]
      BY <1>2, Zenon DEF CsrInv, CTypes, PutTypes
    <3>2. undo' \in [op : {"none", "put", "delete"}, v : Vertices \union {0}, i : Nat]
      BY <1>2, <1>3, <1>4 DEF CsrInv, CTypes, PutTypes
    <3> QED
      BY <1>2, <3>1, <3>2 DEF CsrInv, CTypes, PutTypes
  <2>3. WalkTypes'
    BY <1>2 DEF CsrInv, CTypes, WalkTypes
  <2> QED
    BY <2>1, <2>2, <2>3 DEF CTypes
<1>10. TxnInv' /\ Writers' = Writers
  BY <1>2 DEF CsrInv, TxnInv, Writers
<1>11. \A r \in Sessions : r # s /\ Holding(r) => put[r].v # v
  BY <1>1, <1>3, HoldApart
<1>12. /\ Filled(v)' = Filled(v) \union {k}
       /\ \A u \in Vertices : u # v => Filled(u)' = Filled(u)
  <2>1. \A r \in Sessions : Filling(r)' <=> Filling(r) /\ r # s
    BY <1>8 DEF Filling
  <2>2. \A r \in Sessions : r # s /\ Filling(r) => put[r].v # v
    BY <1>11 DEF Filling, Holding
  <2>3. Filled(v)' = 1..size[v]
    BY <1>2, <1>8, <2>1, <2>2 DEF Filled
  <2>4. Filled(v) = {i \in 1..size[v] : i # k}
    BY <1>1, <1>3, <2>2, Zenon DEF Filled
  <2>5. Filled(v)' = Filled(v) \union {k}
    BY <1>3, <1>4, <2>3, <2>4
  <2>6. \A u \in Vertices : u # v => Filled(u)' = Filled(u)
    BY <1>1, <1>2, <1>8, <2>1 DEF Filled
  <2> QED
    BY <2>5, <2>6
<1>13. \A u \in Vertices : \A i \in Filled(u) :
         i \in 1..Len(Buffer(u)) /\ Buffer(u)'[i] = Buffer(u)[i]
  <2>1. \A u \in Vertices : \A i \in Filled(u) : i \in 1..Len(Buffer(u))
    BY SlotTypes DEF CsrInv, CTypes, Filled
  <2> QED
    BY <1>4, <1>7, <2>1
<1>14. PutInv'
  <2>1. PutOK(s)'
    BY <1>3, <1>8, <1>10, Zenon DEF PutOK, Holding, Filling
  <2>2. ASSUME NEW r \in Sessions, r # s PROVE PutOK(r)'
    <3>1. PutOK(r) /\ put'[r] = put[r] /\ (Holding(r) => put[r].v # v)
      BY <1>8, <1>11, <2>2 DEF CsrInv, PutInv
    <3>2. put[r].pc = "named" => put[r].i \in 1..Len(Buffer(put[r].v))
      BY <3>1, SlotTypes DEF PutOK, Holding, Filling, CsrInv, CTypes
    <3> QED
      BY <1>2, <1>7, <1>8, <1>10, <3>1, <3>2 DEF PutOK, Holding, Filling
  <2>3. CASE phase[s] = "update"
    <3>1. \A r \in Sessions : ~Holding(r)'
      BY <1>8, <2>3, UpdateAlone, Zenon DEF Holding
    <3>2. undo'.v = v /\ undo'.i = k /\ phase'[s] = "update" /\ size' = size
      BY <1>2, <2>3
    <3> QED
      BY <1>3, <1>4, <2>1, <2>2, <3>1, <3>2 DEF PutInv
  <2>4. CASE phase[s] # "update"
    <3>1. undo' = NoUndo
      BY <1>2, <1>3, <2>4, NoUndoWhileHolding
    <3> QED
      BY <2>1, <2>2, <3>1, Zenon DEF PutInv, NoUndo
  <2> QED
    BY <2>3, <2>4
<1>15. SlotInv'
  <2>1. ASSUME NEW u \in Vertices, NEW i \in Filled(u)
        PROVE  /\ Older(Buffer(u)[i])'
               /\ Buffer(u)[i].ts # INVALID_TIMESTAMP => Stamped(u, Buffer(u)[i])'
               /\ u = v => Buffer(u)[i].nbr # at[s]
    <3>1. Older(Buffer(u)[i]) /\ (Buffer(u)[i].ts # INVALID_TIMESTAMP => Stamped(u, Buffer(u)[i]))
      BY <2>1 DEF CsrInv, SlotInv
    <3>2. Buffer(u)[i].nbr # at[s]
      BY <1>2, <1>3, <3>1 DEF Older
    <3>3. Older(Buffer(u)[i])'
      BY <1>2, <1>8, <1>10, <1>13, <3>1, Zenon DEF Older, Writers
    <3>4. ASSUME Stamped(u, Buffer(u)[i]) PROVE Stamped(u, Buffer(u)[i])'
      BY <1>2, <1>10, <1>13, <3>4 DEF Stamped
    <3> QED
      BY <3>1, <3>2, <3>3, <3>4
  <2>2. Older(Buffer(v)[k])' /\ Stamped(v, Buffer(v)[k])'
    <3>1. Older(Buffer(v)[k])'
      BY <1>2, <1>5, <1>6, <1>7, <1>8, <1>10, Zenon DEF Older
    <3>2. Stamped(v, Buffer(v)[k])'
      BY <1>2, <1>5, <1>6, <1>7, Zenon DEF Stamped
    <3> QED
      BY <3>1, <3>2, Zenon
  <2>3. ASSUME NEW u \in Vertices PROVE \A i \in Filled(u)' :
           Older(Buffer(u)[i])' /\ (Buffer(u)'[i].ts # INVALID_TIMESTAMP => Stamped(u, Buffer(u)[i])')
    BY <1>12, <1>13, <2>1, <2>2
  <2>4. ASSUME NEW u \in Vertices, NEW i \in Filled(u)', NEW j \in Filled(u)', i # j
        PROVE  Buffer(u)'[i].nbr # Buffer(u)'[j].nbr
    <3>1. CASE i \in Filled(u) /\ j \in Filled(u)
      BY <1>13, <2>4, <3>1 DEF CsrInv, SlotInv
    <3>2. CASE i \notin Filled(u) \/ j \notin Filled(u)
      BY <1>6, <1>7, <1>12, <1>13, <2>1, <2>4, <3>2
    <3> QED
      BY <3>1, <3>2, Zenon
  <2>5. ASSUME NEW u \in Vertices, NEW t \in Nat, <<u, t>> \in live'
        PROVE  \E i \in Filled(u)' : Buffer(u)'[i].nbr = t /\ Buffer(u)'[i].ts # INVALID_TIMESTAMP
    <3>1. CASE <<u, t>> \in live
      <4>1. PICK i \in Filled(u) : Buffer(u)[i].nbr = t /\ Buffer(u)[i].ts # INVALID_TIMESTAMP
        BY <3>1 DEF CsrInv, SlotInv
      <4>2. i \in Filled(u)'
        BY <1>12, Zenon
      <4> QED
        BY <1>13, <4>1, <4>2, Zenon
    <3>2. CASE u = v /\ t = at[s]
      BY <1>5, <1>6, <1>7, <1>12, <3>2, Zenon
    <3> QED
      BY <1>2, <2>5, <3>1, <3>2
  <2> QED
    BY <2>3, <2>4, <2>5, Zenon DEF SlotInv, INVALID_TIMESTAMP
<1>16. WalkInv'
  <2>1. \A u \in Vertices : Len(bufs[u]) \in Nat /\ size[u] \in Nat
    BY SlotTypes DEF CsrInv, CTypes
  <2>2. \A u \in Vertices : \A b \in 1..Len(bufs[u]) : \A j \in 1..Len(bufs[u][b]) :
          b # Len(bufs[u]) \/ j \in Filled(u) => bufs'[u][b][j] = bufs[u][b][j]
    BY <1>4, <1>7
  <2>3. \A u \in Vertices :
          /\ size[u] <= size'[u] /\ Len(bufs[u]) <= Len(bufs'[u])
          /\ \A b \in 1..Len(bufs[u]) : Len(bufs'[u][b]) = Len(bufs[u][b])
          /\ Filled(u) \subseteq Filled(u)'
    BY <1>2, <1>7, <1>12, <2>1
  <2>4. \A r \in Sessions : \A u \in Vertices : \A t \in Nat :
          phase[r] = "read" /\ <<u, t>> \in live' /\ t <= at[r] => <<u, t>> \in live
    BY <1>2, <1>5
  <2> QED
    BY <1>2, <1>9, <2>2, <2>3, <2>4, WalksQuiet, Zenon DEF CsrInv, CTypes
<1> QED
  BY <1>9, <1>10, <1>14, <1>15, <1>16 DEF CsrInv

(***************************************************************************)
(* Deletions and their undo                                                *)
(***************************************************************************)
\* While an update transaction runs and no entry is half written, one entry is
\* deleted, or comes back with the timestamp of the transaction that ends.
LEMMA Restamp ==
  ASSUME CsrInv, NEW s \in Sessions, phase[s] = "update",
         NEW v \in Vertices, NEW k \in 1..size[v], NEW T \in Nat,
         bufs' = Written(v, k, [Buffer(v)[k] EXCEPT !.ts = T]),
         size' = size, next' = next,
         \A r \in Sessions : ~Filling(r) /\ ~Filling(r)' /\ phase'[r] # "read",
         \A w \in Writers' : w = s /\ at'[w] = at[w] /\ put'[w].pc = put[w].pc,
         \/ T = INVALID_TIMESTAMP /\ live' = live \ {<<v, Buffer(v)[k].nbr>>}
         \/ T = at[s] /\ Writers' = {} /\ live' = live \union {<<v, Buffer(v)[k].nbr>>}
  PROVE  BufTypes' /\ SlotInv'
<1> DEFINE n == Buffer(v)[k].nbr
           e == [Buffer(v)[k] EXCEPT !.ts = T]
<1>1. /\ k \in 1..Len(Buffer(v)) /\ Buffer(v)[k] \in Entry /\ n \in Nat
      /\ \A u \in Vertices : size[u] <= Len(Buffer(u)) /\ size[u] \in Nat /\ Len(Buffer(u)) \in Nat
  BY SlotTypes DEF CsrInv, CTypes
<1>2. e \in Entry /\ e.nbr = n /\ e.ts = T /\ bufs' = Written(v, k, e)
  BY <1>1, Zenon DEF Entry
<1> HIDE DEF e
<1>3. /\ bufs' \in [Vertices -> Seq(Seq(Entry))]
      /\ \A u \in Vertices :
           /\ Len(bufs'[u]) = Len(bufs[u])
           /\ \A b \in 1..Len(bufs[u]) : Len(bufs'[u][b]) = Len(bufs[u][b])
           /\ Len(Buffer(u)') = Len(Buffer(u))
      /\ \A u \in Vertices : \A b \in 1..Len(bufs[u]) : \A j \in 1..Len(bufs[u][b]) :
           u # v \/ b # Len(bufs[v]) \/ j # k => bufs'[u][b][j] = bufs[u][b][j]
      /\ \A u \in Vertices : \A j \in 1..Len(Buffer(u)) :
           u # v \/ j # k => Buffer(u)'[j] = Buffer(u)[j]
      /\ Buffer(v)'[k] = e
  BY <1>1, <1>2, WrittenSlots, Zenon DEF CsrInv, CTypes
<1>4. BufTypes'
  <2>1. live' \subseteq Vertices \X Nat
    BY <1>1 DEF CsrInv, CTypes, BufTypes
  <2> QED
    BY <1>3, <2>1, Zenon DEF CsrInv, CTypes, BufTypes
<1>5. \A u \in Vertices : Filled(u) = 1..size[u] /\ Filled(u)' = 1..size[u]
  BY DEF Filled
<1>6. ASSUME NEW u \in Vertices
      PROVE  /\ \A i \in 1..size[u] :
                  /\ Older(Buffer(u)[i])
                  /\ Buffer(u)[i].ts # INVALID_TIMESTAMP => Stamped(u, Buffer(u)[i])
             /\ \A i, j \in 1..size[u] : i # j => Buffer(u)[i].nbr # Buffer(u)[j].nbr
             /\ \A t \in Nat : <<u, t>> \in live =>
                  \E i \in 1..size[u] : Buffer(u)[i].nbr = t /\ Buffer(u)[i].ts # INVALID_TIMESTAMP
  <2>1. Filled(u) = 1..size[u]
    BY <1>5, Zenon
  <2>2. /\ \A i \in Filled(u) :
             /\ Older(Buffer(u)[i])
             /\ Buffer(u)[i].ts # INVALID_TIMESTAMP => Stamped(u, Buffer(u)[i])
        /\ \A i, j \in Filled(u) : i # j => Buffer(u)[i].nbr # Buffer(u)[j].nbr
        /\ \A t \in Nat : <<u, t>> \in live =>
             \E i \in Filled(u) : Buffer(u)[i].nbr = t /\ Buffer(u)[i].ts # INVALID_TIMESTAMP
    BY DEF CsrInv, SlotInv
  <2> QED
    BY <2>1, <2>2, Zenon
<1>7. s \in Writers /\ at[s] \in Nat /\ at[s] <= MaxTs /\ at[s] < next /\ at[s] # INVALID_TIMESTAMP
  <2>1. s \in Writers /\ at[s] \in Nat /\ at[s] <= MaxTs /\ at[s] < next
    BY DEF CsrInv, TxnInv, Writers
  <2> QED
    BY <2>1, InvalidIsLarge, MutableCsrAssumption
<1>8. \A u \in Vertices : \A i \in 1..size[u] :
        /\ i \in 1..Len(Buffer(u))
        /\ u # v \/ i # k => Buffer(u)'[i] = Buffer(u)[i]
        /\ u = v /\ i # k => Buffer(u)[i].nbr # n
        /\ Buffer(u)'[i].nbr = Buffer(u)[i].nbr
  <2>1. \A u \in Vertices : \A i \in 1..size[u] : i \in 1..Len(Buffer(u))
    BY <1>1
  <2>2. \A i \in 1..size[v] : i # k => Buffer(v)[i].nbr # n
    BY <1>6, Zenon
  <2> QED
    BY <1>2, <1>3, <2>1, <2>2, Zenon
<1>9. ASSUME NEW u \in Vertices, NEW i \in 1..size[u]
      PROVE  /\ Older(Buffer(u)[i])'
             /\ Buffer(u)'[i].ts # INVALID_TIMESTAMP => Stamped(u, Buffer(u)[i])'
  <2>1. Older(Buffer(u)[i]) /\ (Buffer(u)[i].ts # INVALID_TIMESTAMP => Stamped(u, Buffer(u)[i]))
    BY <1>6, Zenon
  <2>2. Older(Buffer(u)[i])'
    BY <1>7, <1>8, <2>1, Zenon DEF Older
  <2>3. ASSUME u # v \/ i # k, Stamped(u, Buffer(u)[i]) PROVE Stamped(u, Buffer(u)[i])'
    <3>1. <<u, Buffer(u)[i].nbr>> \in live'
      BY <1>8, <2>3 DEF Stamped
    <3>2. Buffer(u)'[i] = Buffer(u)[i]
      BY <1>8, <2>3, Zenon
    <3> QED
      BY <1>7, <2>3, <3>1, <3>2, Zenon DEF Stamped
  <2>4. ASSUME u = v, i = k, T # INVALID_TIMESTAMP PROVE Stamped(u, Buffer(u)[i])'
    BY <1>2, <1>3, <1>7, <2>4 DEF Stamped
  <2> QED
    BY <1>2, <1>3, <1>8, <2>1, <2>2, <2>3, <2>4
<1>10. ASSUME NEW u \in Vertices, NEW t \in Nat, <<u, t>> \in live'
      PROVE  \E i \in 1..size[u] : Buffer(u)'[i].nbr = t /\ Buffer(u)'[i].ts # INVALID_TIMESTAMP
  <2>1. CASE u = v /\ t = n
    <3>1. T = at[s]
      BY <1>10, <2>1, Zenon
    <3> QED
      BY <1>2, <1>3, <1>7, <2>1, <3>1
  <2>2. CASE u # v \/ t # n
    <3>1. <<u, t>> \in live
      BY <1>10, <2>2
    <3>2. PICK i \in 1..size[u] : Buffer(u)[i].nbr = t /\ Buffer(u)[i].ts # INVALID_TIMESTAMP
      BY <1>6, <3>1
    <3> QED
      BY <1>3, <1>8, <2>2, <3>2
  <2> QED
    BY <2>1, <2>2, Zenon
<1>11. \A u \in Vertices : \A i, j \in 1..size[u] : i # j => Buffer(u)'[i].nbr # Buffer(u)'[j].nbr
  <2> TAKE u \in Vertices
  <2> TAKE i, j \in 1..size[u]
  <2>1. i # j => Buffer(u)[i].nbr # Buffer(u)[j].nbr
    BY <1>6
  <2>2. Buffer(u)'[i].nbr = Buffer(u)[i].nbr /\ Buffer(u)'[j].nbr = Buffer(u)[j].nbr
    BY <1>8, Zenon
  <2> QED
    BY <2>1, <2>2
<1>12. SlotInv'
  <2>1. ASSUME NEW u \in Vertices
        PROVE  /\ \A i \in Filled(u)' :
                    /\ Older(Buffer(u)[i])'
                    /\ Buffer(u)'[i].ts # INVALID_TIMESTAMP => Stamped(u, Buffer(u)[i])'
               /\ \A i, j \in Filled(u)' : i # j => Buffer(u)'[i].nbr # Buffer(u)'[j].nbr
               /\ \A t \in Nat : <<u, t>> \in live' =>
                    \E i \in Filled(u)' :
                      Buffer(u)'[i].nbr = t /\ Buffer(u)'[i].ts # INVALID_TIMESTAMP
    <3>1. Filled(u)' = 1..size[u]
      BY <1>5, Zenon
    <3>2. \A i \in 1..size[u] :
            /\ Older(Buffer(u)[i])'
            /\ Buffer(u)'[i].ts # INVALID_TIMESTAMP => Stamped(u, Buffer(u)[i])'
      BY <1>9
    <3>3. \A i, j \in 1..size[u] : i # j => Buffer(u)'[i].nbr # Buffer(u)'[j].nbr
      BY <1>11
    <3>4. \A t \in Nat : <<u, t>> \in live' => \E i \in 1..size[u] :
            Buffer(u)'[i].nbr = t /\ Buffer(u)'[i].ts # INVALID_TIMESTAMP
      BY <1>10
    <3> QED
      BY <3>1, <3>2, <3>3, <3>4, ZenonT(30)
  <2> QED
    BY <2>1 DEF SlotInv, INVALID_TIMESTAMP
<1> QED
  BY <1>4, <1>12

\* Marking an entry deleted in an update transaction keeps the invariant.
LEMMA UpdateDeleteEdgeKeeps ==
  ASSUME CsrInv, NEW s \in Sessions, NEW v \in Vertices, NEW k \in 1..MaxTs,
         UpdateDeleteEdge(s, v, k)
  PROVE  CsrInv'
<1>1. /\ phase[s] = "update" /\ put[s].pc = "none" /\ k <= size[v]
      /\ bufs' = Written(v, k, [Buffer(v)[k] EXCEPT !.ts = INVALID_TIMESTAMP])
      /\ live' = live \ {<<v, Buffer(v)[k].nbr>>}
      /\ undo' = [op |-> "delete", v |-> v, i |-> k]
      /\ UNCHANGED <<next, phase, at, size, lock, put, walk>>
  BY DEF UpdateDeleteEdge, Fresh, delete_edge, vars
<1>2. /\ Writers = {s} /\ \A r \in Sessions : phase[r] # "read" /\ put[r].pc = "none" /\ walk[r].pc = "none"
  BY <1>1, UpdateAlone
<1>3. k \in 1..size[v] /\ k \in Nat
  BY <1>1, SlotTypes, MutableCsrAssumption DEF CsrInv, CTypes
<1>4. TxnInv' /\ Writers' = Writers
  BY <1>1 DEF CsrInv, TxnInv, Writers
<1>5. \A r \in Sessions : ~Filling(r) /\ ~Filling(r)' /\ ~Holding(r)'
  BY <1>1, <1>2, Zenon DEF Filling, Holding
<1>6. BufTypes' /\ SlotInv'
  BY <1>1, <1>2, <1>3, <1>4, <1>5, InvalidIsLarge, Restamp
<1>7. CTypes'
  <2>1. PutTypes' /\ WalkTypes'
    BY <1>1, <1>3, Zenon DEF CsrInv, CTypes, PutTypes, WalkTypes
  <2> QED
    BY <1>6, <2>1, Zenon DEF CTypes
<1>8. PutInv'
  <2>1. undo'.v = v /\ undo'.i = k /\ phase'[s] = "update" /\ size' = size
    BY <1>1
  <2>2. \A r \in Sessions : PutOK(r)'
    BY <1>1, <1>2, <1>5, Zenon DEF PutOK
  <2> QED
    BY <1>3, <1>5, <2>1, <2>2, Zenon DEF PutInv
<1>9. WalkInv'
  BY <1>1, <1>2 DEF WalkInv
<1> QED
  BY <1>4, <1>6, <1>7, <1>8, <1>9, Zenon DEF CsrInv

\* Undoing the deletion of an aborted update keeps the invariant.
LEMMA AbortUpdateKeeps ==
  ASSUME CsrInv, NEW s \in Sessions, AbortUpdate(s)
  PROVE  CsrInv'
<1>1. PICK v, k : v = undo.v /\ k = undo.i
  BY Zenon
<1>2. /\ phase[s] = "update" /\ undo # NoUndo
      /\ \/ /\ bufs' = Written(v, k, [Buffer(v)[k] EXCEPT !.ts = INVALID_TIMESTAMP])
            /\ live' = live \ {<<v, Buffer(v)[k].nbr>>}
         \/ /\ bufs' = Written(v, k, [Buffer(v)[k] EXCEPT !.ts = at[s]])
            /\ live' = live \union {<<v, Buffer(v)[k].nbr>>}
      /\ undo' = NoUndo /\ put' = [put EXCEPT ![s] = NoPut]
      /\ phase' = [phase EXCEPT ![s] = "idle"] /\ End(s)
      /\ UNCHANGED <<next, size, lock, walk>>
  BY <1>1 DEF AbortUpdate, delete_edge, revert_delete_edge, End
<1>3. v \in Vertices /\ k \in 1..size[v] /\ \A r \in Sessions : ~Holding(r)
  BY <1>1, <1>2, Zenon DEF CsrInv, PutInv
<1>4. /\ \A r \in Sessions : r # s => phase[r] = "idle" /\ put[r].pc = "none"
      /\ \A r \in Sessions : walk[r].pc = "none"
  BY <1>2, UpdateAlone, Zenon
<1>5. Writers' = {} /\ \A r \in Sessions : phase'[r] = "idle" /\ put'[r].pc = "none"
  BY <1>2, <1>4, Zenon DEF CsrInv, CTypes, PutTypes, TxnInv, Writers, NoPut
<1>6. \A r \in Sessions : ~Filling(r) /\ ~Filling(r)' /\ ~Holding(r)'
  BY <1>3, <1>5 DEF Filling, Holding
<1>7. BufTypes' /\ SlotInv'
  <2>1. at[s] \in Nat
    BY Zenon DEF CsrInv, TxnInv
  <2> QED
    BY <1>2, <1>3, <1>5, <1>6, <2>1, InvalidIsLarge, Restamp
<1>8. TxnInv'
  BY <1>2, TxnNext DEF CsrInv, OracleStep
<1>9. CTypes'
  <2>1. PutTypes' /\ WalkTypes'
    BY <1>2 DEF CsrInv, CTypes, PutTypes, WalkTypes, NoPut, NoUndo
  <2> QED
    BY <1>7, <2>1, Zenon DEF CTypes
<1>10. PutInv'
  BY <1>2, <1>5, <1>6, Zenon DEF PutInv, PutOK, NoUndo
<1>11. WalkInv'
  BY <1>2, <1>4 DEF WalkInv
<1> QED
  BY <1>7, <1>8, <1>9, <1>10, <1>11, Zenon DEF CsrInv

(***************************************************************************)
(* Compaction and checkpoints                                              *)
(***************************************************************************)
\* The ranks of the slots that are kept are the slots they move to: 1 to their
\* number, each once.
LEMMA Ranks ==
  ASSUME BufTypes, NEW v \in Vertices
  PROVE  /\ IsFiniteSet(Kept(v))
         /\ Cardinality(Kept(v)) \in Nat /\ Cardinality(Kept(v)) <= size[v]
         /\ \A j \in Kept(v) : Rank(v, j) \in 1..Cardinality(Kept(v))
         /\ \A j, k \in Kept(v) : Rank(v, j) = Rank(v, k) => j = k
         /\ \A i \in 1..Cardinality(Kept(v)) : \E j \in Kept(v) : Rank(v, j) = i
<1> DEFINE K == Kept(v)
           n == Cardinality(K)
           Upto(j) == {m \in K : m <= j}
<1>1. size[v] \in Nat /\ K \in SUBSET (1..size[v])
  BY SlotTypes, Zenon DEF Kept
<1>2. IsFiniteSet(K) /\ n \in Nat /\ n <= size[v]
  <2>1. IsFiniteSet(1..size[v]) /\ Cardinality(1..size[v]) = size[v]
    <3>1. PICK m \in Nat : m = size[v]
      BY <1>1
    <3>2. IsFiniteSet(1..m) /\ Cardinality(1..m) = m
      BY FS_Interval
    <3> QED
      BY <3>1, <3>2, Zenon
  <2>2. IsFiniteSet(K) /\ n <= Cardinality(1..size[v])
    BY <1>1, <2>1, FS_Subset
  <2> QED
    BY <2>1, <2>2, FS_CardinalityType, Zenon
<1>3. ASSUME NEW j \in K
      PROVE  IsFiniteSet(Upto(j)) /\ Rank(v, j) = Cardinality(Upto(j)) /\ Rank(v, j) \in 1..n
  <2>1. Upto(j) \in SUBSET K /\ j \in Upto(j) /\ Rank(v, j) = Cardinality(Upto(j))
    BY <1>1 DEF Rank
  <2>2. IsFiniteSet(Upto(j)) /\ Cardinality(Upto(j)) <= n
    BY <1>2, <2>1, FS_Subset, Zenon
  <2>3. Cardinality(Upto(j)) \in Nat /\ Cardinality(Upto(j)) # 0
    BY <2>1, <2>2, FS_CardinalityType, FS_EmptySet, Zenon
  <2> QED
    BY <1>2, <2>1, <2>2, <2>3
<1>4. ASSUME NEW j \in K, NEW k \in K, j < k PROVE Rank(v, j) # Rank(v, k)
  <2>1. Upto(j) \in SUBSET Upto(k) /\ k \in Upto(k) /\ k \notin Upto(j)
    BY <1>1, <1>4
  <2>2. Cardinality(Upto(k)) # Cardinality(Upto(j))
    BY <1>3, <2>1, FS_Subset, Zenon
  <2> QED
    BY <1>3, <2>2, Zenon
<1>5. \A j, k \in K : Rank(v, j) = Rank(v, k) => j = k
  <2> TAKE j, k \in K
  <2>1. j \in Nat /\ k \in Nat
    BY <1>1
  <2> QED
    BY <1>4, <2>1
<1>6. \A i \in 1..n : \E j \in K : Rank(v, j) = i
  <2> DEFINE f == [j \in K |-> Rank(v, j)]
  <2>1. f \in Injection(K, 1..n)
    BY <1>3, <1>5, Zenon DEF Injection, IsInjective
  <2>2. IsFiniteSet(1..n) /\ Cardinality(1..n) = n
    BY <1>2, FS_Interval
  <2>3. f \in Surjection(K, 1..n)
    BY <2>1, <2>2, FS_Injection
  <2> QED
    BY <2>3, Zenon DEF Surjection
<1> QED
  BY <1>2, <1>3, <1>5, <1>6, Zenon

\* compact() leaves every list with the edges that were not deleted.
LEMMA Compacted ==
  ASSUME BufTypes, NEW v \in Vertices
  PROVE  /\ CompactBuffer(v) \in Seq(Entry) /\ Len(CompactBuffer(v)) = Len(Buffer(v))
         /\ \A i \in 1..Cardinality(Kept(v)) :
              /\ CompactBuffer(v)[i].ts = 0
              /\ \E j \in Kept(v) : Rank(v, j) = i /\ CompactBuffer(v)[i].nbr = Buffer(v)[j].nbr
         /\ \A j \in Kept(v) : CompactBuffer(v)[Rank(v, j)].nbr = Buffer(v)[j].nbr
<1> DEFINE n == Cardinality(Kept(v))
           from(i) == CHOOSE j \in Kept(v) : Rank(v, j) = i
<1>1. /\ n \in Nat /\ n <= size[v] /\ size[v] <= Len(Buffer(v)) /\ Len(Buffer(v)) \in Nat
      /\ size[v] \in Nat /\ \A i \in 1..Len(Buffer(v)) : Buffer(v)[i] \in Entry /\ Buffer(v)[i].nbr \in Nat
  BY Ranks, SlotTypes, Zenon
<1>2. \A i \in 1..n : from(i) \in Kept(v) /\ Rank(v, from(i)) = i
  BY Ranks
<1>3. \A j \in Kept(v) : Rank(v, j) \in 1..n /\ from(Rank(v, j)) = j
  BY <1>2, Ranks, Zenon
<1>4. \A j \in Kept(v) : j \in 1..Len(Buffer(v))
  BY <1>1 DEF Kept
<1> DEFINE entry(i) == IF i <= n THEN [nbr |-> Buffer(v)[from(i)].nbr, ts |-> 0] ELSE Buffer(v)[i]
<1>5. CompactBuffer(v) = [i \in 1..Len(Buffer(v)) |-> entry(i)]
  BY Zenon DEF CompactBuffer
<1>6. \A i \in 1..Len(Buffer(v)) : entry(i) \in Entry
  <2> TAKE i \in 1..Len(Buffer(v))
  <2>1. CASE i <= n
    <3>1. i \in 1..n
      BY <1>1, <2>1
    <3>2. from(i) \in Kept(v)
      BY <1>2, <3>1, Zenon
    <3> HIDE DEF from
    <3>3. Buffer(v)[from(i)].nbr \in Nat
      BY <1>1, <1>4, <3>2
    <3> QED
      BY <2>1, <3>3, Zenon DEF Entry
  <2>2. CASE ~(i <= n)
    BY <1>1, <2>2, Zenon
  <2> QED
    BY <2>1, <2>2, Zenon
<1>7. \A i \in 1..n : i \in 1..Len(Buffer(v)) /\ entry(i).ts = 0 /\ entry(i).nbr = Buffer(v)[from(i)].nbr
  BY <1>1
<1> HIDE DEF entry, from
<1>8. CompactBuffer(v) \in Seq(Entry) /\ Len(CompactBuffer(v)) = Len(Buffer(v))
  BY <1>1, <1>5, <1>6
<1>9. \A i \in 1..n : CompactBuffer(v)[i] = entry(i)
  BY <1>5, <1>7, Zenon
<1> QED
  BY <1>2, <1>3, <1>7, <1>8, <1>9, Zenon

\* With every transaction over, the compacted lists hold the edges they held.
LEMMA CompactionKeeps ==
  ASSUME CsrInv, next' = next, live' = live, Writers' = {},
         \A r \in Sessions : ~Filling(r) /\ ~Filling(r)' /\ phase'[r] # "read",
         size' = CompactSizes, bufs' \in [Vertices -> Seq(Seq(Entry))],
         \A u \in Vertices : Len(bufs'[u]) >= 1 /\ Buffer(u)' = CompactBuffer(u)
  PROVE  BufTypes' /\ SlotInv'
<1>1. BufTypes /\ next \in Nat \ {0} /\ 0 <= MaxTs /\ 0 # INVALID_TIMESTAMP
  BY InvalidIsLarge, MutableCsrAssumption DEF CsrInv, CTypes, TxnInv
<1>2. \A u \in Vertices : size'[u] = Cardinality(Kept(u))
  BY DEF CompactSizes
<1>3. BufTypes'
  <2>1. size' \in [Vertices -> Nat]
    BY <1>1, Ranks, Zenon DEF CompactSizes
  <2>2. \A u \in Vertices : size'[u] <= Len(Buffer(u)')
    <3> TAKE u \in Vertices
    <3>1. Cardinality(Kept(u)) <= size[u] /\ Cardinality(Kept(u)) \in Nat
      BY <1>1, Ranks, Zenon
    <3>2. size[u] <= Len(Buffer(u)) /\ size[u] \in Nat /\ Len(Buffer(u)) \in Nat
      BY <1>1, SlotTypes, Zenon
    <3>3. Len(Buffer(u)') = Len(Buffer(u))
      BY <1>1, Compacted, Zenon
    <3> QED
      BY <1>2, <3>1, <3>2, <3>3
  <2> QED
    BY <1>1, <2>1, <2>2, Zenon DEF BufTypes
<1>4. ASSUME NEW u \in Vertices
      PROVE  /\ \A i \in Filled(u)' :
                  /\ Older(Buffer(u)[i])'
                  /\ Buffer(u)'[i].ts # INVALID_TIMESTAMP => Stamped(u, Buffer(u)[i])'
             /\ \A i, j \in Filled(u)' : i # j => Buffer(u)'[i].nbr # Buffer(u)'[j].nbr
             /\ \A t \in Nat : <<u, t>> \in live' =>
                  \E i \in Filled(u)' :
                    Buffer(u)'[i].nbr = t /\ Buffer(u)'[i].ts # INVALID_TIMESTAMP
  <2> DEFINE n == Cardinality(Kept(u))
  <2>1. Filled(u)' = 1..n /\ Filled(u) = 1..size[u]
    BY <1>2, Zenon DEF Filled
  <2>2. /\ \A j \in Kept(u) : j \in Filled(u) /\ Buffer(u)[j].ts # INVALID_TIMESTAMP
        /\ \A j \in Filled(u) : Buffer(u)[j].ts # INVALID_TIMESTAMP => j \in Kept(u)
    BY <2>1, Zenon DEF Kept
  <2>3. \A j \in Kept(u) : Older(Buffer(u)[j]) /\ Stamped(u, Buffer(u)[j])
    BY <2>2, Zenon DEF CsrInv, SlotInv
  <2>4. \A j, k \in Kept(u) : j # k => Buffer(u)[j].nbr # Buffer(u)[k].nbr
    BY <2>2, Zenon DEF CsrInv, SlotInv
  <2>5. \A i \in 1..n :
          /\ Buffer(u)'[i].ts = 0
          /\ \E j \in Kept(u) : Rank(u, j) = i /\ Buffer(u)'[i].nbr = Buffer(u)[j].nbr
    <3>1. Buffer(u)' = CompactBuffer(u)
      BY Zenon
    <3>2. \A i \in 1..n :
            /\ CompactBuffer(u)[i].ts = 0
            /\ \E j \in Kept(u) : Rank(u, j) = i /\ CompactBuffer(u)[i].nbr = Buffer(u)[j].nbr
      BY <1>1, Compacted, Zenon
    <3> QED
      BY <3>1, <3>2, Zenon
  <2>6. ASSUME NEW i \in 1..n PROVE Older(Buffer(u)[i])' /\ Stamped(u, Buffer(u)[i])'
    <3>1. PICK j \in Kept(u) : Buffer(u)'[i].nbr = Buffer(u)[j].nbr
      BY <2>5, Zenon
    <3>2. Buffer(u)[j].nbr < next /\ <<u, Buffer(u)[j].nbr>> \in live /\ Buffer(u)'[i].ts = 0
      BY <2>3, <2>5, Zenon DEF Older, Stamped
    <3>3. Older(Buffer(u)[i])'
      BY <3>1, <3>2, Zenon DEF Older
    <3>4. Stamped(u, Buffer(u)[i])'
      <4>1. 0 < next
        BY <1>1
      <4>2. Buffer(u)'[i].ts <= MaxTs /\ Buffer(u)'[i].ts < next'
        BY <1>1, <3>2, <4>1, Zenon
      <4>3. <<u, Buffer(u)'[i].nbr>> \in live'
        BY <3>1, <3>2, Zenon
      <4> QED
        BY <4>2, <4>3, Zenon DEF Stamped
    <3> QED
      BY <3>3, <3>4, Zenon
  <2>7. ASSUME NEW i \in 1..n, NEW k \in 1..n, i # k PROVE Buffer(u)'[i].nbr # Buffer(u)'[k].nbr
    <3>1. PICK j \in Kept(u) : Rank(u, j) = i /\ Buffer(u)'[i].nbr = Buffer(u)[j].nbr
      BY <2>5, Zenon
    <3>2. PICK l \in Kept(u) : Rank(u, l) = k /\ Buffer(u)'[k].nbr = Buffer(u)[l].nbr
      BY <2>5, Zenon
    <3>3. j # l
      BY <2>7, <3>1, <3>2, Zenon
    <3> QED
      BY <2>4, <3>1, <3>2, <3>3, Zenon
  <2>8. ASSUME NEW t \in Nat, <<u, t>> \in live
        PROVE  \E i \in 1..n : Buffer(u)'[i].nbr = t /\ Buffer(u)'[i].ts # INVALID_TIMESTAMP
    <3>1. PICK j \in Kept(u) : Buffer(u)[j].nbr = t
      BY <2>2, <2>8, Zenon DEF CsrInv, SlotInv
    <3>2. Rank(u, j) \in 1..n /\ Buffer(u)'[Rank(u, j)].nbr = t
      BY <1>1, <3>1, Ranks, Compacted
    <3> QED
      BY <1>1, <2>5, <3>2, Zenon
  <2> QED
    BY <2>1, <2>6, <2>7, <2>8, Zenon
<1>5. SlotInv'
  BY <1>4, Zenon DEF SlotInv, INVALID_TIMESTAMP
<1> QED
  BY <1>3, <1>5

\* What the three rewriting steps share: every transaction is over after them.
LEMMA RewriteKeeps ==
  ASSUME CsrInv, BufTypes', SlotInv', TxnInv', UNCHANGED <<lock, put, walk, undo>>,
         undo = NoUndo, \A r \in Sessions : put[r].pc = "none" /\ walk[r].pc = "none"
  PROVE  CsrInv'
<1>1. CTypes'
  BY Zenon DEF CsrInv, CTypes, PutTypes, WalkTypes
<1>2. PutInv'
  BY Zenon DEF PutInv, PutOK, Holding, Filling, NoUndo
<1>3. WalkInv'
  BY Zenon DEF WalkInv
<1> QED
  BY <1>1, <1>2, <1>3, Zenon DEF CsrInv

\* When no transaction runs, nobody is inside put_edge and nobody reads.
LEMMA AllOver ==
  ASSUME CsrInv, NEW s \in Sessions, Fresh(s), End(s)
  PROVE  /\ Writers' = {} /\ TxnInv' /\ next' = next /\ undo = NoUndo
         /\ \A r \in Sessions : put[r].pc = "none" /\ walk[r].pc = "none" /\ phase'[r] = "idle"
<1>1. /\ \A r \in Sessions : r # s => phase[r] = "idle" /\ put[r].pc = "none"
      /\ \A r \in Sessions : walk[r].pc = "none"
  BY UpdateAlone, Zenon DEF Fresh
<1>2. TxnInv'
  BY TxnNext, Zenon DEF CsrInv, OracleStep
<1>3. \A r \in Sessions : phase'[r] = "idle"
  BY <1>1, Zenon DEF End, CsrInv, TxnInv
<1> QED
  BY <1>1, <1>2, <1>3 DEF Fresh, End, Writers

\* The commit of a compaction keeps the invariant.
LEMMA CommitCompactionKeeps ==
  ASSUME CsrInv, NEW s \in Sessions, CommitCompaction(s)
  PROVE  CsrInv'
<1>1. /\ Fresh(s) /\ End(s) /\ UNCHANGED <<lock, put, walk, undo, live>> /\ size' = CompactSizes
      /\ bufs' = [v \in Vertices |-> [bufs[v] EXCEPT ![Len(bufs[v])] = CompactBuffer(v)]]
  BY Zenon DEF CommitCompaction, Rewrite, Compact
<1>2. /\ Writers' = {} /\ TxnInv' /\ next' = next /\ undo = NoUndo
      /\ \A r \in Sessions : put[r].pc = "none" /\ walk[r].pc = "none" /\ phase'[r] = "idle"
  BY <1>1, AllOver
<1>3. ASSUME NEW u \in Vertices
      PROVE  /\ bufs'[u] \in Seq(Seq(Entry)) /\ Len(bufs'[u]) >= 1
             /\ bufs'[u][Len(bufs'[u])] = CompactBuffer(u)
  <2>1. bufs[u] \in Seq(Seq(Entry)) /\ Len(bufs[u]) \in Nat \ {0} /\ CompactBuffer(u) \in Seq(Entry)
    BY SlotTypes, Compacted, Zenon DEF CsrInv, CTypes
  <2>2. bufs'[u] = [bufs[u] EXCEPT ![Len(bufs[u])] = CompactBuffer(u)]
    BY <1>1
  <2> QED
    BY <2>1, <2>2
<1>4. bufs' \in [Vertices -> Seq(Seq(Entry))]
  <2>1. DOMAIN bufs' = Vertices /\ bufs' = [v \in Vertices |-> bufs'[v]]
    BY <1>1
  <2> QED
    BY <1>3, <2>1, Zenon
<1>5. \A u \in Vertices : Len(bufs'[u]) >= 1 /\ Buffer(u)' = CompactBuffer(u)
  BY <1>3, Zenon DEF Buffer
<1>6. \A r \in Sessions : ~Filling(r) /\ ~Filling(r)' /\ phase'[r] # "read"
  BY <1>1, <1>2, Zenon DEF Filling
<1>7. BufTypes' /\ SlotInv'
  BY <1>1, <1>2, <1>4, <1>5, <1>6, CompactionKeeps, Zenon
<1> QED
  BY <1>1, <1>2, <1>7, RewriteKeeps

\* Closing and reopening the table keeps the invariant.
LEMMA CloseAndOpenKeeps ==
  ASSUME CsrInv, CloseAndOpen
  PROVE  CsrInv'
<1>1. /\ UNCHANGED <<next, phase, at, lock, put, walk, undo, live>> /\ size' = CompactSizes
      /\ \A v \in Vertices : bufs'[v] = <<CompactBuffer(v)>>
      /\ bufs' = [v \in Vertices |-> bufs'[v]]
      /\ \A r \in Sessions : phase[r] = "idle"
  BY Zenon DEF CloseAndOpen, Rewrite, DumpAndOpen, vars
<1>2. /\ Writers' = {} /\ TxnInv' /\ undo = NoUndo
      /\ \A r \in Sessions : put[r].pc = "none" /\ walk[r].pc = "none"
  <2>1. Writers = {} /\ Writers' = {}
    BY <1>1, Zenon DEF Writers
  <2>2. TxnInv'
    BY <1>1, Zenon DEF CsrInv, TxnInv, Writers
  <2>3. undo = NoUndo /\ \A r \in Sessions : put[r].pc = "none"
    BY <1>1, <2>1, Zenon DEF CsrInv, PutInv, PutOK
  <2>4. \A r \in Sessions : walk[r].pc = "none"
    BY <1>1, Zenon DEF CsrInv, WalkInv
  <2> QED
    BY <2>1, <2>2, <2>3, <2>4, Zenon
<1>3. \A u \in Vertices : CompactBuffer(u) \in Seq(Entry)
  BY Compacted, Zenon DEF CsrInv, CTypes
<1>4. \A u \in Vertices : /\ bufs'[u] \in Seq(Seq(Entry)) /\ Len(bufs'[u]) = 1
                          /\ bufs'[u][1] = CompactBuffer(u)
  <2> TAKE u \in Vertices
  <2>1. PICK x \in Seq(Entry) : x = CompactBuffer(u)
    BY <1>3, Zenon
  <2>2. bufs'[u] = <<x>>
    BY <1>1, <2>1
  <2> QED
    BY <2>1, <2>2
<1>5. bufs' \in [Vertices -> Seq(Seq(Entry))]
  BY <1>1, <1>4, Zenon
<1>6. \A u \in Vertices : Len(bufs'[u]) >= 1 /\ Buffer(u)' = CompactBuffer(u)
  BY <1>4 DEF Buffer
<1>7. \A r \in Sessions : ~Filling(r) /\ ~Filling(r)' /\ phase'[r] # "read"
  BY <1>1, <1>2 DEF Filling
<1>8. BufTypes' /\ SlotInv'
  BY <1>1, <1>2, <1>5, <1>6, <1>7, CompactionKeeps, Zenon
<1> QED
  BY <1>1, <1>2, <1>8, RewriteKeeps, Zenon

\* Writing a checkpoint and reloading it keeps the invariant.
LEMMA CreateCheckpointKeeps ==
  ASSUME CsrInv, NEW s \in Sessions, CreateCheckpoint(s)
  PROVE  CsrInv'
<1>1. /\ Fresh(s) /\ End(s) /\ UNCHANGED <<size, lock, put, walk, undo, live>>
      /\ \A v \in Vertices : bufs'[v] = <<Buffer(v)>>
      /\ bufs' = [v \in Vertices |-> bufs'[v]]
  BY Zenon DEF CreateCheckpoint, Rewrite, DumpAndOpen
<1>2. /\ Writers' = {} /\ TxnInv' /\ next' = next /\ undo = NoUndo
      /\ \A r \in Sessions : put[r].pc = "none" /\ walk[r].pc = "none" /\ phase'[r] = "idle"
  BY <1>1, AllOver
<1>3. \A u \in Vertices : Buffer(u) \in Seq(Entry)
  BY SlotTypes, Zenon DEF CsrInv, CTypes
<1>4. \A u \in Vertices : /\ bufs'[u] \in Seq(Seq(Entry)) /\ Len(bufs'[u]) = 1
                          /\ bufs'[u][1] = Buffer(u)
  <2> TAKE u \in Vertices
  <2>1. PICK x \in Seq(Entry) : x = Buffer(u)
    BY <1>3, Zenon
  <2>2. bufs'[u] = <<x>>
    BY <1>1, <2>1
  <2> QED
    BY <2>1, <2>2
<1>5. \A u \in Vertices : Buffer(u)' = Buffer(u)
  BY <1>4, Zenon DEF Buffer
<1>6. BufTypes'
  <2>1. bufs' \in [Vertices -> Seq(Seq(Entry))]
    BY <1>1, <1>4, Zenon
  <2> QED
    BY <1>1, <1>4, <1>5, <2>1 DEF CsrInv, CTypes, BufTypes
<1>7. \A u \in Vertices : Filled(u)' = Filled(u)
  BY <1>1, Zenon DEF Filled, Filling
<1>8. SlotInv'
  BY <1>1, <1>2, <1>5, <1>7, SlotsQuiet, Zenon DEF CsrInv
<1> QED
  BY <1>1, <1>2, <1>6, <1>8, RewriteKeeps, Zenon

-----------------------------------------------------------------------------

\* Every step keeps the invariant.
LEMMA CsrNext ==
  ASSUME CsrInv, [CNext]_cvars
  PROVE  CsrInv'
<1>1. CASE UNCHANGED cvars
  <2>1. UNCHANGED <<next, phase, at, bufs, size, lock, put, walk, undo, live>>
    BY <1>1, Zenon DEF cvars, vars
  <2>2. \A v \in Vertices : Buffer(v)' = Buffer(v) /\ Filled(v)' = Filled(v)
    BY <2>1, SameLists, Zenon DEF Filling
  <2>3. CTypes'
    BY <2>1, Zenon DEF CsrInv, CTypes, BufTypes, PutTypes, WalkTypes, Buffer
  <2>4. TxnInv' /\ PutInv'
    BY <2>1, TxnNext, PutsSame, Zenon DEF CsrInv, OracleStep, vars
  <2>5. SlotInv'
    BY <2>1, <2>2, SlotsQuiet, Zenon DEF CsrInv
  <2>6. WalkInv'
    BY <2>1, <2>2, <2>3, WalksSame, Zenon DEF CsrInv, CTypes
  <2> QED
    BY <2>3, <2>4, <2>5, <2>6, Zenon DEF CsrInv
<1>2. ASSUME NEW s \in Sessions, Step(s) PROVE CsrInv'
  BY <1>2, BeginKeeps, FinishKeeps, LockListKeeps, LoadListKeeps, GrowListKeeps,
     CountEntryKeeps, WriteNeighborKeeps, WriteTimestampKeeps, LoadDegreeKeeps,
     VisitEntryKeeps, UpdateDeleteEdgeKeeps, AbortUpdateKeeps, CommitCompactionKeeps,
     CreateCheckpointKeeps, Zenon
  DEF Step
<1> QED
  BY <1>1, <1>2, CloseAndOpenKeeps, Zenon DEF CNext

(***************************************************************************)
(* The invariant holds of every behaviour of the adjacency lists.          *)
(***************************************************************************)
THEOREM CsrInvHolds == CSpec => []CsrInv
<1>1. CInit => CsrInv
  BY CsrInit, Zenon
<1>2. CsrInv /\ [CNext]_cvars => CsrInv'
  BY CsrNext
<1> QED
  BY <1>1, <1>2, PTL DEF CSpec

(***************************************************************************)
(* A reader that walks a list without a lock, over the buffer and the size *)
(* it loaded, finds every edge of its snapshot, whatever put_edge, growth, *)
(* deletion, undo, compaction and checkpoints do: any number of sessions,  *)
(* vertices and transactions, any smallest capacity.                       *)
(***************************************************************************)
THEOREM ReadersFindTheirEdges == CSpec => []ReadsComplete
<1>1. CsrInv => ReadsComplete
  <2> SUFFICES ASSUME CsrInv, NEW s \in Sessions, WalkDone(s), NEW x \in live,
                      x[1] = walk[s].v, x[2] <= at[s]
               PROVE  x[2] \in Range(walk[s].seen)
    BY Zenon DEF ReadsComplete
  <2>1. walk[s].pc = "walk" /\ walk[s].i > walk[s].n /\ walk[s].i \in Nat /\ walk[s].n \in Nat
    BY DEF WalkDone, CsrInv, CTypes, WalkTypes, WalkRecords
  <2>2. x = <<x[1], x[2]>> /\ x[2] \in Nat
    BY DEF CsrInv, CTypes, BufTypes
  <2>3. PICK i \in Nat : Carries(s, x[2], i)
    BY <2>1, <2>2 DEF CsrInv, WalkInv
  <2> QED
    BY <2>1, <2>3, SMTT(30) DEF Carries
<1> QED
  BY <1>1, CsrInvHolds, PTL

(***************************************************************************)
(* A list no put_edge works on holds the edges put on it and not deleted,  *)
(* each exactly once: the lock keeps writers of one list apart, growth     *)
(* copies it whole, and deletion, undo and compaction touch no other edge. *)
(***************************************************************************)
THEOREM ListsAreExact == CSpec => []ListExact
<1>1. CsrInv => ListExact
  <2> SUFFICES ASSUME CsrInv, NEW v \in Vertices, lock[v] = 0
               PROVE  LET edges == {x \in live : x[1] = v}
                      IN  /\ {Buffer(v)[i].nbr : i \in Kept(v)} = {x[2] : x \in edges}
                          /\ Cardinality(Kept(v)) = Cardinality(edges)
    BY Zenon DEF ListExact
  <2> DEFINE edges == {x \in live : x[1] = v}
  <2>1. \A s \in Sessions : Filling(s) => put[s].v # v
    BY MutableCsrAssumption DEF CsrInv, PutInv, PutOK, Filling, Holding
  <2>2. Filled(v) = 1..size[v]
    BY <2>1 DEF Filled
  <2>3. Kept(v) = {i \in Filled(v) : Buffer(v)[i].ts # INVALID_TIMESTAMP}
    BY <2>2, Zenon DEF Kept
  <2>4. \A i \in Kept(v) : <<v, Buffer(v)[i].nbr>> \in live
    BY <2>3, Zenon DEF CsrInv, SlotInv, Stamped
  <2>5. \A t \in Nat : <<v, t>> \in live => \E i \in Kept(v) : Buffer(v)[i].nbr = t
    BY <2>3, Zenon DEF CsrInv, SlotInv
  <2>6. \A i, j \in Kept(v) : i # j => Buffer(v)[i].nbr # Buffer(v)[j].nbr
    BY <2>3, Zenon DEF CsrInv, SlotInv
  <2>7. \A x \in edges : x = <<v, x[2]>> /\ x[2] \in Nat
    BY DEF CsrInv, CTypes, BufTypes
  <2>8. {Buffer(v)[i].nbr : i \in Kept(v)} = {x[2] : x \in edges}
    <3>1. ASSUME NEW i \in Kept(v) PROVE Buffer(v)[i].nbr \in {x[2] : x \in edges}
      <4>1. <<v, Buffer(v)[i].nbr>> \in edges
        BY <2>4
      <4> QED
        BY <4>1
    <3>2. ASSUME NEW x \in edges PROVE x[2] \in {Buffer(v)[i].nbr : i \in Kept(v)}
      BY <2>5, <2>7, Zenon
    <3> QED
      BY <3>1, <3>2
  <2>9. Cardinality(Kept(v)) = Cardinality(edges)
    <3> DEFINE f == [i \in Kept(v) |-> <<v, Buffer(v)[i].nbr>>]
    <3>1. f \in [Kept(v) -> edges]
      BY <2>4
    <3>2. \A i, j \in Kept(v) : f[i] = f[j] => i = j
      BY <2>6, Zenon
    <3>3. \A x \in edges : \E i \in Kept(v) : f[i] = x
      BY <2>5, <2>7
    <3> HIDE DEF f
    <3>4. f \in Bijection(Kept(v), edges)
      BY <3>1, <3>2, <3>3, Zenon DEF Bijection, Injection, Surjection, IsInjective
    <3>5. IsFiniteSet(Kept(v))
      BY Ranks, Zenon DEF CsrInv, CTypes
    <3> QED
      BY <3>4, <3>5, FS_Bijection, Zenon DEF ExistsBijection
  <2> QED
    BY <2>8, <2>9, Zenon
<1> QED
  BY <1>1, CsrInvHolds, PTL

-----------------------------------------------------------------------------

(***************************************************************************)
(* The number of edges                                                     *)
(***************************************************************************)
\* The edge the undo log is about.
Undone == <<undo.v, Buffer(undo.v)[undo.i].nbr>>

\* edge_num_ counts the edges; undoing takes back an edge that is there, or
\* brings back one that is not.
CountInv ==
  /\ IsFiniteSet(live) /\ edge_num = Cardinality(live)
  /\ undo # NoUndo => (undo.op = "put" <=> Undone \in live)
  /\ ~thrown

\* A list nobody is filling: an edge is an entry of it that is kept.
LEMMA KeptIsLive ==
  ASSUME CsrInv, NEW v \in Vertices, \A s \in Sessions : ~Filling(s)
  PROVE  /\ \A i \in Kept(v) : Buffer(v)[i].nbr \in Nat /\ <<v, Buffer(v)[i].nbr>> \in live
         /\ \A i, j \in Kept(v) : Buffer(v)[i].nbr = Buffer(v)[j].nbr => i = j
         /\ \A t \in Nat : <<v, t>> \in live => \E i \in Kept(v) : Buffer(v)[i].nbr = t
<1>1. Filled(v) = 1..size[v]
  BY Zenon DEF Filled
<1>2. Kept(v) = {i \in Filled(v) : Buffer(v)[i].ts # INVALID_TIMESTAMP}
  BY <1>1, Zenon DEF Kept
<1>3. \A i \in Kept(v) : i \in 1..Len(Buffer(v))
  BY <1>1, <1>2, SizeTypes DEF CsrInv, CTypes
<1>4. \A i \in Kept(v) : Buffer(v)[i].nbr \in Nat
  BY <1>3, SlotTypes, Zenon DEF CsrInv, CTypes
<1> QED
  BY <1>2, <1>4, Zenon DEF CsrInv, SlotInv, Stamped

\* Compaction finds as many entries as there are edges.
LEMMA CompactTotal ==
  ASSUME CsrInv, \A s \in Sessions : ~Filling(s), IsFiniteSet(live)
  PROVE  Total(CompactSizes) = Cardinality(live)
<1> DEFINE slot(x) == CHOOSE i \in Kept(x[1]) : Buffer(x[1])[i].nbr = x[2]
           f == [x \in live |-> <<x[1], Rank(x[1], slot(x))>>]
           S == Slots(CompactSizes)
<1>1. \A x \in live : x[1] \in Vertices /\ x[2] \in Nat /\ x = <<x[1], x[2]>>
  BY DEF CsrInv, CTypes, BufTypes
<1>2. \A x \in live : slot(x) \in Kept(x[1]) /\ Buffer(x[1])[slot(x)].nbr = x[2]
  BY <1>1, KeptIsLive
<1>3. \A y : y \in S <=> \E v \in Vertices : \E i \in 1..Cardinality(Kept(v)) : y = <<v, i>>
  BY DEF Slots, CompactSizes
<1>4. \A v \in Vertices : \A j \in Kept(v) : Rank(v, j) \in 1..Cardinality(Kept(v))
  BY Ranks, Zenon DEF CsrInv, CTypes
<1> HIDE DEF slot, S
<1>5. f \in [live -> S]
  BY <1>1, <1>2, <1>3, <1>4
<1>6. ASSUME NEW x \in live, NEW y \in live, f[x] = f[y] PROVE x = y
  <2>1. x[1] = y[1] /\ Rank(x[1], slot(x)) = Rank(x[1], slot(y))
    BY <1>6, Zenon
  <2>2. slot(x) = slot(y)
    BY <1>1, <1>2, <2>1, Ranks, Zenon DEF CsrInv, CTypes
  <2> QED
    BY <1>1, <1>2, <2>1, <2>2, Zenon
<1>7. ASSUME NEW y \in S PROVE \E x \in live : f[x] = y
  <2>0. PICK v \in Vertices : \E i \in 1..Cardinality(Kept(v)) : y = <<v, i>>
    BY <1>3, Zenon
  <2>1. PICK i \in 1..Cardinality(Kept(v)) : y = <<v, i>>
    BY <2>0, Zenon
  <2>2. PICK j \in Kept(v) : Rank(v, j) = i
    BY Ranks, Zenon DEF CsrInv, CTypes
  <2>3. PICK x : x = <<v, Buffer(v)[j].nbr>>
    BY Zenon
  <2>4. x \in live /\ x[1] = v /\ x[2] = Buffer(v)[j].nbr
    BY <2>3, KeptIsLive
  <2>5. slot(x) = j
    BY <1>2, <2>4, KeptIsLive
  <2> QED
    BY <2>1, <2>2, <2>4, <2>5, Zenon
<1> HIDE DEF f
<1>8. f \in Bijection(live, S)
  BY <1>5, <1>6, <1>7, Zenon DEF Bijection, Injection, Surjection, IsInjective
<1> QED
  BY <1>8, FS_Bijection DEF ExistsBijection, Total, S

\* Writing the timestamp counts the edge it makes.
LEMMA WriteTimestampCounts ==
  ASSUME CsrInv, CountInv, NEW s \in Sessions, WriteTimestamp(s)
  PROVE  CountInv'
<1>1. PICK v, i : v = put[s].v /\ i = put[s].i
  OBVIOUS
<1>2. /\ put[s].pc = "named" /\ live' = live \union {<<v, at[s]>>}
      /\ bufs' = Written(v, i, [Buffer(v)[i] EXCEPT !.ts = at[s]])
      /\ edge_num' = edge_num + 1 /\ thrown' = thrown
      /\ undo' = undo \/ undo' = [op |-> "put", v |-> v, i |-> i]
  BY <1>1 DEF WriteTimestamp
<1>3. /\ v \in Vertices /\ s \in Writers /\ i = size[v] /\ i >= 1 /\ Holding(s)
      /\ Buffer(v)[i].nbr = at[s] /\ at[s] \in Nat
  BY <1>1, <1>2 DEF CsrInv, PutInv, PutOK, Holding, Filling, TxnInv
<1>4. <<v, at[s]>> \notin live
  <2> SUFFICES ASSUME <<v, at[s]>> \in live PROVE FALSE
    OBVIOUS
  <2>1. PICK j \in Filled(v) : Buffer(v)[j].nbr = at[s]
    BY <1>3 DEF CsrInv, SlotInv
  <2> QED
    BY <1>2, <1>3, <2>1 DEF CsrInv, SlotInv, Older
<1>5. IsFiniteSet(live') /\ edge_num' = Cardinality(live')
  BY <1>2, <1>4, FS_AddElement, Zenon DEF CountInv
<1>6. undo = NoUndo
  BY <1>3, NoUndoWhileHolding
<1>7. Buffer(v)'[i].nbr = at[s]
  <2>1. PICK e : e = [Buffer(v)[i] EXCEPT !.ts = at[s]]
    BY Zenon
  <2>2. i \in 1..Len(Buffer(v)) /\ Buffer(v)[i] \in Entry
    BY <1>3, SlotTypes DEF CsrInv, CTypes
  <2>3. e \in Entry /\ e.nbr = at[s]
    BY <1>3, <2>1, <2>2 DEF Entry
  <2>4. bufs' = Written(v, i, e)
    BY <1>2, <2>1
  <2>5. Buffer(v)'[i] = e
    BY <1>3, <2>2, <2>3, <2>4, WrittenSlots, Zenon DEF CsrInv, CTypes
  <2> QED
    BY <2>3, <2>5
<1>8. undo' # NoUndo => undo'.op = "put" /\ Undone' \in live'
  BY <1>2, <1>6, <1>7 DEF Undone
<1> QED
  BY <1>2, <1>5, <1>8, Zenon DEF CountInv, NoUndo

\* A deletion takes one edge off the count, and can be undone.
LEMMA DeleteCounts ==
  ASSUME CsrInv, CountInv, NEW s \in Sessions, NEW v \in Vertices, NEW i \in Nat \ {0},
         UpdateDeleteEdge(s, v, i)
  PROVE  CountInv'
<1>1. /\ phase[s] = "update" /\ i <= size[v] /\ Buffer(v)[i].ts <= at[s]
      /\ bufs' = Written(v, i, [Buffer(v)[i] EXCEPT !.ts = INVALID_TIMESTAMP])
      /\ edge_num' = edge_num - 1 /\ live' = live \ {<<v, Buffer(v)[i].nbr>>}
      /\ undo' = [op |-> "delete", v |-> v, i |-> i] /\ thrown' = thrown
      /\ put[s].pc = "none"
  BY DEF UpdateDeleteEdge, delete_edge, Fresh
<1>2. \A r \in Sessions : ~Filling(r)
  BY <1>1, UpdateAlone DEF Filling
<1>3. i \in 1..size[v] /\ i \in 1..Len(Buffer(v)) /\ Buffer(v)[i] \in Entry
  BY <1>1, SlotTypes DEF CsrInv, CTypes
<1>4. i \in Kept(v)
  <2>1. at[s] <= MaxTs /\ at[s] \in Nat
    BY <1>1 DEF CsrInv, TxnInv, Writers
  <2>2. Buffer(v)[i].ts \in Nat
    BY <1>3 DEF Entry
  <2> QED
    BY <1>1, <1>3, <2>1, <2>2, InvalidIsLarge, MutableCsrAssumption DEF Kept
<1>5. <<v, Buffer(v)[i].nbr>> \in live
  BY <1>2, <1>4, KeptIsLive
<1>6. IsFiniteSet(live') /\ edge_num' = Cardinality(live')
  BY <1>1, <1>5, FS_RemoveElement DEF CountInv
<1>7. Buffer(v)'[i].nbr = Buffer(v)[i].nbr
  <2>1. PICK e : e = [Buffer(v)[i] EXCEPT !.ts = INVALID_TIMESTAMP]
    BY Zenon
  <2>2. e \in Entry /\ e.nbr = Buffer(v)[i].nbr
    BY <1>3, <2>1, InvalidIsLarge DEF Entry
  <2>3. bufs' = Written(v, i, e)
    BY <1>1, <2>1
  <2>4. Buffer(v)'[i] = e
    BY <1>3, <2>2, <2>3, WrittenSlots, Zenon DEF CsrInv, CTypes
  <2> QED
    BY <2>2, <2>4
<1>8. undo'.op = "delete" /\ Undone' \notin live'
  BY <1>1, <1>7 DEF Undone
<1> QED
  BY <1>1, <1>6, <1>8 DEF CountInv, NoUndo

\* Undoing puts the count back.
LEMMA AbortCounts ==
  ASSUME CsrInv, CountInv, NEW s \in Sessions, AbortUpdate(s)
  PROVE  CountInv'
<1>1. undo # NoUndo /\ undo' = NoUndo /\ thrown' = thrown
  BY DEF AbortUpdate
<1>2. CASE undo.op = "put"
  <2>1. live' = live \ {Undone} /\ edge_num' = edge_num - 1 /\ Undone \in live
    BY <1>1, <1>2 DEF AbortUpdate, delete_edge, Undone, CountInv
  <2> QED
    BY <1>1, <2>1, FS_RemoveElement DEF CountInv
<1>3. CASE undo.op # "put"
  <2>1. live' = live \union {Undone} /\ edge_num' = edge_num + 1 /\ Undone \notin live
    BY <1>1, <1>3 DEF AbortUpdate, revert_delete_edge, Undone, CountInv
  <2> QED
    BY <1>1, <2>1, FS_AddElement DEF CountInv
<1> QED
  BY <1>2, <1>3

\* The rewriting steps find edge_num_ edges.
LEMMA RewriteCounts ==
  ASSUME CsrInv, CountInv, undo = NoUndo, NEW sizes, sizes = CompactSizes, Rewrite(sizes),
         \A r \in Sessions : put[r].pc = "none"
  PROVE  CountInv'
<1>1. \A r \in Sessions : ~Filling(r)
  BY Zenon DEF Filling
<1>2. Total(sizes) = edge_num
  BY <1>1, CompactTotal DEF CountInv
<1> QED
  BY <1>2, Zenon DEF CountInv, Rewrite

\* Every step keeps the count right, as long as CHECKPOINT is not used with
\* deleted entries in the lists.
LEMMA CountNext ==
  ASSUME ~CheckpointDeleted, CsrInv, CountInv, [CNext]_cvars
  PROVE  CountInv'
<1>1. ASSUME UNCHANGED <<edge_num, live, undo, thrown>>, UNCHANGED bufs \/ undo = NoUndo
      PROVE  CountInv'
  BY <1>1 DEF CountInv, Undone, Buffer
<1>2. CASE UNCHANGED cvars
  BY <1>1, <1>2 DEF cvars
<1>3. ASSUME NEW s \in Sessions, Step(s) PROVE CountInv'
  <2>1. CASE Begin(s)
    BY <1>1, <2>1 DEF Begin, lists
  <2>2. CASE Finish(s)
    <3>1. UNCHANGED <<edge_num, live, bufs, thrown>> /\ (undo' = undo \/ undo' = NoUndo)
      BY <2>2 DEF Finish, lists
    <3> QED
      BY <3>1 DEF CountInv, Undone, Buffer
  <2>3. ASSUME NEW v \in Vertices, LockList(s, v) \/ LoadList(s, v) PROVE CountInv'
    BY <1>1, <2>3 DEF LockList, PutOnly, LoadList, ReadOnly, lists
  <2>4. CASE GrowList(s) \/ CountEntry(s) \/ WriteNeighbor(s)
    <3>1. GrowList(s) => Holding(s) /\ UNCHANGED <<edge_num, live, undo, thrown>>
      BY DEF GrowList, PutOnly, Holding
    <3>2. CountEntry(s) => Holding(s) /\ UNCHANGED <<edge_num, live, undo, thrown>>
      BY DEF CountEntry, PutOnly, HasRoom, Holding
    <3>3. WriteNeighbor(s) => Holding(s) /\ UNCHANGED <<edge_num, live, undo, thrown>>
      BY DEF WriteNeighbor, PutOnly, Holding
    <3> QED
      BY <1>1, <2>4, <3>1, <3>2, <3>3, NoUndoWhileHolding, Zenon
  <2>5. CASE LoadDegree(s)
    BY <1>1, <2>5 DEF LoadDegree, ReadOnly, lists
  <2>6. CASE VisitEntry(s)
    BY <1>1, <2>6 DEF VisitEntry, ReadOnly, lists
  <2>7. ASSUME NEW v \in Vertices, NEW i \in 1..MaxTs, UpdateDeleteEdge(s, v, i) PROVE CountInv'
    BY <2>7, DeleteCounts
  <2>8. CASE CommitCompaction(s)
    <3>1. Fresh(s) /\ Rewrite(CompactSizes) /\ End(s)
      BY <2>8 DEF CommitCompaction
    <3> QED
      BY <3>1, AllOver, RewriteCounts
  <2>9. CASE CreateCheckpoint(s)
    <3>1. Fresh(s) /\ Rewrite(size) /\ End(s) /\ size = CompactSizes
      BY <2>9 DEF CreateCheckpoint
    <3> QED
      BY <3>1, AllOver, RewriteCounts
  <2> QED
    BY <1>3, <2>1, <2>2, <2>3, <2>4, <2>5, <2>6, <2>7, <2>8, <2>9, WriteTimestampCounts, AbortCounts
    DEF Step
<1>4. CASE CloseAndOpen
  <2>1. Rewrite(CompactSizes) /\ \A r \in Sessions : phase[r] = "idle"
    BY <1>4 DEF CloseAndOpen
  <2>2. Writers = {}
    BY <2>1 DEF Writers
  <2>3. undo = NoUndo /\ \A r \in Sessions : put[r].pc = "none"
    BY <2>1, <2>2 DEF CsrInv, PutInv, PutOK
  <2> QED
    BY <2>1, <2>3, RewriteCounts
<1> QED
  BY <1>2, <1>3, <1>4 DEF CNext

(***************************************************************************)
(* compact and open_internal find as many edges as edge_num_ counts and do *)
(* not throw, whatever was put, deleted, undone and rewritten before, as   *)
(* long as CHECKPOINT, which dumps the lists as they are, is not used      *)
(* while they hold deleted entries.                                        *)
(***************************************************************************)
THEOREM CountsAlwaysAgree == ~CheckpointDeleted => (CSpec => []CountsAgree)
<1> SUFFICES ASSUME ~CheckpointDeleted PROVE CSpec => []CountsAgree
  OBVIOUS
<1>1. CInit => CountInv
  BY FS_EmptySet DEF CInit, CountInv
<1>2. CsrInv /\ CountInv /\ [CNext]_cvars => CountInv'
  BY CountNext
<1>3. CountInv => CountsAgree
  BY DEF CountInv, CountsAgree
<1> QED
  BY <1>1, <1>2, <1>3, CsrInvHolds, PTL DEF CSpec
=============================================================================
