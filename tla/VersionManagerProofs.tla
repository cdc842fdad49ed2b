------------------------ MODULE VersionManagerProofs ------------------------
(***************************************************************************)
(* Proofs about VersionManager for every set of sessions, every ring size  *)
(* and every initial timestamp.  The first part is about the gate, the     *)
(* second about the timestamps.                                            *)
(***************************************************************************)
EXTENDS VersionManager, FiniteSetTheorems, TLAPS

(***************************************************************************)
(* index is an index of the ring, and two timestamps less than RingSize    *)
(* apart (ring_index_mask) never share one.                                *)
(***************************************************************************)
LEMMA IndexRange == \A t \in Nat : index(t) \in 0..(RingSize - 1)
  BY RingAssumption DEF index

LEMMA IndexDistinct ==
  ASSUME NEW a \in Nat, NEW b \in Nat, a < b, b - a < RingSize
  PROVE  index(a) # index(b)
<1> DEFINE qa == a \div RingSize
           qb == b \div RingSize
<1>1. /\ qa \in Int /\ a = RingSize * qa + index(a)
      /\ qb \in Int /\ b = RingSize * qb + index(b)
  BY RingAssumption DEF index
<1>2. SUFFICES ASSUME index(a) = index(b) PROVE FALSE
  OBVIOUS
<1> HIDE DEF qa, qb
<1>3. b - a = RingSize * (qb - qa)
  BY <1>1, <1>2, IndexRange, RingAssumption
<1>4. qb - qa >= 1
  BY <1>1, <1>3, RingAssumption
<1>5. RingSize * (qb - qa) >= RingSize
  BY <1>1, <1>4, RingAssumption
<1> QED
  BY <1>3, <1>5, RingAssumption

-----------------------------------------------------------------------------

(***************************************************************************)
(* Counting the sessions in the gate: when a step changes the state of one *)
(* session only, the count changes by that session's part in it.           *)
(***************************************************************************)
Counted == {s \in Sessions : Counts(s)}

LEMMA CountedFinite == IsFiniteSet(Counted) /\ Cardinality(Counted) \in Nat
  BY SessionsAssumption, FS_Subset, FS_CardinalityType DEF Counted

LEMMA ThreadNum == thread_num \in Nat /\ thread_num >= 1
  BY SessionsAssumption, FS_CardinalityType, FS_EmptySet DEF thread_num

LEMMA CountStep ==
  ASSUME NEW s \in Sessions,
         \A r \in Sessions \ {s} : Counts(r)' <=> Counts(r)
  PROVE  Cardinality(Counted') =
           Cardinality(Counted) + (IF Counts(s)' THEN 1 ELSE 0)
                                - (IF Counts(s) THEN 1 ELSE 0)
<1>1. CASE Counts(s)' /\ ~Counts(s)
  <2>1. Counted' = Counted \union {s} /\ s \notin Counted
    BY <1>1 DEF Counted
  <2> QED
    BY <1>1, <2>1, CountedFinite, FS_AddElement
<1>2. CASE ~Counts(s)' /\ Counts(s)
  <2>1. Counted' = Counted \ {s} /\ s \in Counted
    BY <1>2 DEF Counted
  <2> QED
    BY <1>2, <2>1, CountedFinite, FS_RemoveElement
<1>3. CASE Counts(s)' <=> Counts(s)
  <2>1. Counted' = Counted
    BY <1>3 DEF Counted
  <2> QED
    BY <1>3, <2>1, CountedFinite
<1> QED
  BY <1>1, <1>2, <1>3

\* Nobody is counted when the count is zero, and not everybody is counted
\* when some session is not.
LEMMA CountBounds ==
  /\ Cardinality(Counted) = 0 => \A s \in Sessions : ~Counts(s)
  /\ (\E s \in Sessions : ~Counts(s)) => Cardinality(Counted) < thread_num
<1>1. Cardinality(Counted) = 0 => Counted = {}
  BY CountedFinite, FS_EmptySet
<1>2. ASSUME NEW s \in Sessions, ~Counts(s)
      PROVE  Cardinality(Counted) < thread_num
  <2>1. Counted \in SUBSET Sessions /\ Counted # Sessions
    BY <1>2 DEF Counted
  <2> QED
    BY <2>1, SessionsAssumption, FS_Subset, FS_CardinalityType DEF thread_num
<1> QED
  BY <1>1, <1>2 DEF Counted

-----------------------------------------------------------------------------

(***************************************************************************)
(* The inductive invariant of the gate.  UpdateExclusive is not inductive  *)
(* by itself: that nobody enters a closed gate follows from the exact      *)
(* value of pending_reqs_ (GateCount), that only one session closes it     *)
(* from the slot, and that a revert reopens it from UpdateLast.            *)
(***************************************************************************)
ModeOK ==
  \A s \in Sessions :
    /\ pc[s] = "idle" <=> mode[s] = "none"
    /\ pc[s] \in {"gate", "rejected", "asleep", "admitted"} => mode[s] \in {"read", "insert"}
    /\ pc[s] = "leaving" => mode[s] = "insert"
    /\ pc[s] \in {"slot", "close", "drain", "take", "reopen", "free"} => mode[s] = "update"

SlotOK ==
  /\ SlotExclusive
  /\ pending_update_reqs = 0 => \A s \in Sessions : ~InSlot(s)

UpdateLast ==
  \A s \in Sessions : pc[s] = "running" /\ mode[s] = "update" => write_ts = ts[s] + 1

GateInv == TypeOK /\ ModeOK /\ SlotOK /\ GateCount /\ UpdateExclusive /\ UpdateLast

LEMMA GateInit == Init => GateInv
<1> SUFFICES ASSUME Init PROVE GateInv
  OBVIOUS
<1>1. TypeOK /\ ModeOK /\ SlotOK /\ UpdateExclusive /\ UpdateLast
  BY TsAssumption, RingAssumption
  DEF Init, TypeOK, PCs, ModeOK, SlotOK, SlotExclusive, InSlot, UpdateExclusive,
      Updating, UpdateLast
<1>2. {s \in Sessions : Counts(s)} = {} /\ ~ \E s \in Sessions : Closes(s)
  BY DEF Init, Counts, Closes, Inside, Updating
<1>3. GateCount
  BY <1>2, FS_EmptySet DEF Init, GateCount
<1> QED
  BY <1>1, <1>3 DEF GateInv

\* Every step keeps the types.
LEMMA TypeStep ==
  ASSUME TypeOK, ModeOK,
         NEW s \in Sessions, (\E m \in Modes : Begin(s, m)) \/ Step(s)
  PROVE  TypeOK'
<1>1. ASSUME NEW m \in Modes, Begin(s, m) PROVE TypeOK'
  BY <1>1, IndexRange, ThreadNum DEF TypeOK, PCs, Modes, Begin, Goto, Modes
<1>2. CASE EnterGate(s)
  BY <1>2, IndexRange, ThreadNum DEF TypeOK, PCs, Modes, EnterGate, Goto
<1>3. CASE BackOff(s)
  BY <1>3, IndexRange, ThreadNum DEF TypeOK, PCs, Modes, BackOff, Goto
<1>4. CASE Poll(s)
  BY <1>4, IndexRange, ThreadNum DEF TypeOK, PCs, Modes, Poll, Goto
<1>5. CASE ReadSnapshot(s)
  BY <1>5, IndexRange, ThreadNum DEF TypeOK, PCs, Modes, ReadSnapshot, Goto
<1>6. CASE TakeInsertTs(s)
  BY <1>6, IndexRange, ThreadNum DEF TypeOK, PCs, Modes, TakeInsertTs, Goto
<1>7. CASE release_read_timestamp(s)
  BY <1>7, IndexRange, ThreadNum DEF TypeOK, PCs, Modes, release_read_timestamp, Goto, Finish
<1>8. CASE PublishInsert(s)
  <2>1. CASE ts[s] = read_ts + 1
    <3>1. PICK u \in ts[s]..(ts[s] + RingSize) : read_ts' = u /\ buf' = buf \ Passed(ts[s], u)
      BY <1>8, <2>1 DEF PublishInsert
    <3>2. ts[s] \in Nat /\ u \in Nat
      BY RingAssumption DEF TypeOK
    <3>3. buf' \subseteq 0..(RingSize - 1)
      BY <3>1 DEF TypeOK
    <3> QED
      BY <1>8, <3>1, <3>2, <3>3 DEF TypeOK, PCs, Modes, PublishInsert, Goto
  <2>2. CASE ts[s] # read_ts + 1
    BY <1>8, <2>2, IndexRange DEF TypeOK, PCs, Modes, PublishInsert, Goto
  <2> QED
    BY <2>1, <2>2
<1>9. CASE LeaveGate(s)
  BY <1>9, IndexRange, ThreadNum DEF TypeOK, PCs, Modes, LeaveGate, Goto, Finish
<1>10. CASE TakeSlot(s)
  BY <1>10, IndexRange, ThreadNum DEF TypeOK, PCs, Modes, TakeSlot, Goto
<1>11. CASE CloseGate(s)
  BY <1>11, IndexRange, ThreadNum DEF TypeOK, PCs, Modes, CloseGate, Goto
<1>12. CASE Drained(s)
  BY <1>12, IndexRange, ThreadNum DEF TypeOK, PCs, Modes, Drained, Goto
<1>13. CASE TakeUpdateTs(s)
  BY <1>13, IndexRange, ThreadNum DEF TypeOK, PCs, Modes, TakeUpdateTs, Goto
<1>14. CASE PublishUpdate(s)
  BY <1>14, IndexRange, ThreadNum DEF TypeOK, PCs, Modes, PublishUpdate, Goto
<1>15. CASE ReopenGate(s)
  BY <1>15, IndexRange, ThreadNum DEF TypeOK, PCs, Modes, ReopenGate, Goto
<1>16. CASE FreeSlot(s)
  BY <1>16, IndexRange, ThreadNum DEF TypeOK, PCs, Modes, FreeSlot, Goto, Finish
<1>17. CASE RevertUpdate(s)
  BY <1>17, IndexRange, ThreadNum DEF TypeOK, PCs, Modes, RevertUpdate, Goto, Finish
<1> QED
  BY <1>1, <1>2, <1>3, <1>4, <1>5, <1>6, <1>7, <1>8, <1>9, <1>10, <1>11, <1>12, <1>13, <1>14, <1>15, <1>16, <1>17 DEF Step, QueryStep

\* Every step keeps the kind of transaction in line with where it is.
LEMMA ModeStep ==
  ASSUME TypeOK, ModeOK,
         NEW s \in Sessions, (\E m \in Modes : Begin(s, m)) \/ Step(s)
  PROVE  ModeOK'
<1>1. ASSUME NEW m \in Modes, Begin(s, m) PROVE ModeOK'
  BY <1>1 DEF TypeOK, ModeOK, PCs, Modes, Begin, Goto, Modes
<1>2. CASE EnterGate(s)
  BY <1>2 DEF TypeOK, ModeOK, PCs, Modes, EnterGate, Goto
<1>3. CASE BackOff(s)
  BY <1>3 DEF TypeOK, ModeOK, PCs, Modes, BackOff, Goto
<1>4. CASE Poll(s)
  BY <1>4 DEF TypeOK, ModeOK, PCs, Modes, Poll, Goto
<1>5. CASE ReadSnapshot(s)
  BY <1>5 DEF TypeOK, ModeOK, PCs, Modes, ReadSnapshot, Goto
<1>6. CASE TakeInsertTs(s)
  BY <1>6 DEF TypeOK, ModeOK, PCs, Modes, TakeInsertTs, Goto
<1>7. CASE release_read_timestamp(s)
  BY <1>7 DEF TypeOK, ModeOK, PCs, Modes, release_read_timestamp, Goto, Finish
<1>8. CASE PublishInsert(s)
  BY <1>8 DEF TypeOK, ModeOK, PCs, Modes, PublishInsert, Goto
<1>9. CASE LeaveGate(s)
  BY <1>9 DEF TypeOK, ModeOK, PCs, Modes, LeaveGate, Goto, Finish
<1>10. CASE TakeSlot(s)
  BY <1>10 DEF TypeOK, ModeOK, PCs, Modes, TakeSlot, Goto
<1>11. CASE CloseGate(s)
  BY <1>11 DEF TypeOK, ModeOK, PCs, Modes, CloseGate, Goto
<1>12. CASE Drained(s)
  BY <1>12 DEF TypeOK, ModeOK, PCs, Modes, Drained, Goto
<1>13. CASE TakeUpdateTs(s)
  BY <1>13 DEF TypeOK, ModeOK, PCs, Modes, TakeUpdateTs, Goto
<1>14. CASE PublishUpdate(s)
  BY <1>14 DEF TypeOK, ModeOK, PCs, Modes, PublishUpdate, Goto
<1>15. CASE ReopenGate(s)
  BY <1>15 DEF TypeOK, ModeOK, PCs, Modes, ReopenGate, Goto
<1>16. CASE FreeSlot(s)
  BY <1>16 DEF TypeOK, ModeOK, PCs, Modes, FreeSlot, Goto, Finish
<1>17. CASE RevertUpdate(s)
  BY <1>17 DEF TypeOK, ModeOK, PCs, Modes, RevertUpdate, Goto, Finish
<1> QED
  BY <1>1, <1>2, <1>3, <1>4, <1>5, <1>6, <1>7, <1>8, <1>9, <1>10, <1>11, <1>12, <1>13, <1>14, <1>15, <1>16, <1>17 DEF Step, QueryStep

\* The update slot has one owner, and none when pending_update_reqs_ is 0.
LEMMA SlotStep ==
  ASSUME TypeOK, ModeOK, SlotOK, UpdateLast,
         NEW s \in Sessions, (\E m \in Modes : Begin(s, m)) \/ Step(s)
  PROVE  SlotOK'
<1>1. ASSUME NEW m \in Modes, Begin(s, m) PROVE SlotOK'
  BY <1>1 DEF TypeOK, ModeOK, SlotOK, SlotExclusive, InSlot, PCs, Modes, Begin, Goto, Modes
<1>2. CASE EnterGate(s)
  BY <1>2 DEF TypeOK, ModeOK, SlotOK, SlotExclusive, InSlot, PCs, Modes, EnterGate, Goto
<1>3. CASE BackOff(s)
  BY <1>3 DEF TypeOK, ModeOK, SlotOK, SlotExclusive, InSlot, PCs, Modes, BackOff, Goto
<1>4. CASE Poll(s)
  BY <1>4 DEF TypeOK, ModeOK, SlotOK, SlotExclusive, InSlot, PCs, Modes, Poll, Goto
<1>5. CASE ReadSnapshot(s)
  BY <1>5 DEF TypeOK, ModeOK, SlotOK, SlotExclusive, InSlot, PCs, Modes, ReadSnapshot, Goto
<1>6. CASE TakeInsertTs(s)
  BY <1>6 DEF TypeOK, ModeOK, SlotOK, SlotExclusive, InSlot, PCs, Modes, TakeInsertTs, Goto
<1>7. CASE release_read_timestamp(s)
  BY <1>7 DEF TypeOK, ModeOK, SlotOK, SlotExclusive, InSlot, PCs, Modes, release_read_timestamp, Goto, Finish
<1>8. CASE PublishInsert(s)
  BY <1>8 DEF TypeOK, ModeOK, SlotOK, SlotExclusive, InSlot, PCs, Modes, PublishInsert, Goto
<1>9. CASE LeaveGate(s)
  BY <1>9 DEF TypeOK, ModeOK, SlotOK, SlotExclusive, InSlot, PCs, Modes, LeaveGate, Goto, Finish
<1>10. CASE TakeSlot(s)
  BY <1>10 DEF TypeOK, ModeOK, SlotOK, SlotExclusive, InSlot, PCs, Modes, TakeSlot, Goto
<1>11. CASE CloseGate(s)
  BY <1>11 DEF TypeOK, ModeOK, SlotOK, SlotExclusive, InSlot, PCs, Modes, CloseGate, Goto
<1>12. CASE Drained(s)
  BY <1>12 DEF TypeOK, ModeOK, SlotOK, SlotExclusive, InSlot, PCs, Modes, Drained, Goto
<1>13. CASE TakeUpdateTs(s)
  BY <1>13 DEF TypeOK, ModeOK, SlotOK, SlotExclusive, InSlot, PCs, Modes, TakeUpdateTs, Goto
<1>14. CASE PublishUpdate(s)
  BY <1>14 DEF TypeOK, ModeOK, SlotOK, SlotExclusive, InSlot, PCs, Modes, PublishUpdate, Goto
<1>15. CASE ReopenGate(s)
  BY <1>15 DEF TypeOK, ModeOK, SlotOK, SlotExclusive, InSlot, PCs, Modes, ReopenGate, Goto
<1>16. CASE FreeSlot(s)
  BY <1>16 DEF TypeOK, ModeOK, SlotOK, SlotExclusive, InSlot, PCs, Modes, FreeSlot, Goto, Finish
<1>17. CASE RevertUpdate(s)
  BY <1>17 DEF TypeOK, ModeOK, SlotOK, SlotExclusive, InSlot, PCs, Modes, RevertUpdate, Goto, Finish
<1> QED
  BY <1>1, <1>2, <1>3, <1>4, <1>5, <1>6, <1>7, <1>8, <1>9, <1>10, <1>11, <1>12, <1>13, <1>14, <1>15, <1>16, <1>17 DEF Step, QueryStep

\* Whether the gate is closed, as pending_reqs_ has it.
Closed == \E s \in Sessions : Closes(s)

Bit(b) == IF b THEN 1 ELSE 0

\* GateCount survives a step of s that changes pending_reqs_ by what s changes
\* in the gate.
LEMMA GateCountStep ==
  ASSUME TypeOK, GateCount, NEW s \in Sessions,
         \A r \in Sessions \ {s} : Counts(r)' <=> Counts(r),
         pending_reqs' = pending_reqs + Bit(Counts(s)') - Bit(Counts(s))
                           - thread_num * Bit(Closed') + thread_num * Bit(Closed)
  PROVE  GateCount'
<1>1. Cardinality(Counted') = Cardinality(Counted) + Bit(Counts(s)') - Bit(Counts(s))
  BY CountStep DEF Bit
<1>2. Cardinality(Counted) \in Nat /\ Cardinality(Counted') \in Int
  BY <1>1, CountedFinite DEF Bit
<1>3. pending_reqs = Cardinality(Counted) - thread_num * Bit(Closed)
  BY ThreadNum, CountedFinite DEF GateCount, Counted, Closed, Bit
<1>4. pending_reqs' = Cardinality(Counted') - thread_num * Bit(Closed')
  <2> DEFINE c == Cardinality(Counted)
             d == Cardinality(Counted')
             x == thread_num * Bit(Closed)
             y == thread_num * Bit(Closed')
  <2>1. c \in Nat /\ d \in Int /\ x \in Nat /\ y \in Nat
    BY <1>2, ThreadNum DEF Bit
  <2>2. Bit(Counts(s)) \in Nat /\ Bit(Counts(s)') \in Nat
    BY DEF Bit
  <2> HIDE DEF c, d, x, y
  <2>3. pending_reqs = c - x /\ d = c + Bit(Counts(s)') - Bit(Counts(s))
    BY <1>1, <1>3 DEF c, d, x
  <2>4. pending_reqs' = pending_reqs + Bit(Counts(s)') - Bit(Counts(s)) - y + x
    BY DEF x, y
  <2>5. pending_reqs' = d - y
    BY <2>1, <2>2, <2>3, <2>4
  <2> QED
    BY <2>5 DEF d, y
<1> QED
  BY <1>4, ThreadNum, CountedFinite, <1>2 DEF GateCount, Counted, Closed, Bit

\* Every step moves pending_reqs_ by exactly what it changes in the gate.
LEMMA CountsStep ==
  ASSUME TypeOK, ModeOK, SlotOK, UpdateLast, GateCount,
         NEW s \in Sessions, (\E m \in Modes : Begin(s, m)) \/ Step(s)
  PROVE  GateCount'
<1> USE DEF Counts, Closes, Inside, Updating, TypeOK, ModeOK, PCs, Modes, Bit
<1>1. ASSUME NEW m \in Modes, Begin(s, m) PROVE GateCount'
  <2>1. \A r \in Sessions : (Counts(r)' <=> Counts(r)) /\ (Closes(r)' <=> Closes(r))
    BY <1>1 DEF Begin, Goto
  <2> QED
    BY <1>1, <2>1, GateCountStep, ThreadNum DEF Begin, Closed
<1>2. CASE EnterGate(s)
  <2>1. \A r \in Sessions : (r # s => (Counts(r)' <=> Counts(r))) /\ (Closes(r)' <=> Closes(r))
    BY <1>2 DEF EnterGate, Goto
  <2>2. ~Counts(s) /\ Counts(s)'
    BY <1>2 DEF EnterGate, Goto
  <2> QED
    BY <1>2, <2>1, <2>2, GateCountStep, ThreadNum DEF EnterGate, Closed
<1>3. CASE BackOff(s)
  <2>1. \A r \in Sessions : (r # s => (Counts(r)' <=> Counts(r))) /\ (Closes(r)' <=> Closes(r))
    BY <1>3 DEF BackOff, Goto
  <2>2. Counts(s) /\ ~Counts(s)'
    BY <1>3 DEF BackOff, Goto
  <2> QED
    BY <1>3, <2>1, <2>2, GateCountStep, ThreadNum DEF BackOff, Closed
<1>4. CASE Poll(s)
  <2>1. \A r \in Sessions : (Counts(r)' <=> Counts(r)) /\ (Closes(r)' <=> Closes(r))
    BY <1>4 DEF Poll, Goto
  <2> QED
    BY <1>4, <2>1, GateCountStep, ThreadNum DEF Poll, Closed
<1>5. CASE ReadSnapshot(s)
  <2>1. \A r \in Sessions : (Counts(r)' <=> Counts(r)) /\ (Closes(r)' <=> Closes(r))
    BY <1>5 DEF ReadSnapshot, Goto
  <2> QED
    BY <1>5, <2>1, GateCountStep, ThreadNum DEF ReadSnapshot, Closed
<1>6. CASE TakeInsertTs(s)
  <2>1. \A r \in Sessions : (Counts(r)' <=> Counts(r)) /\ (Closes(r)' <=> Closes(r))
    BY <1>6 DEF TakeInsertTs, Goto
  <2> QED
    BY <1>6, <2>1, GateCountStep, ThreadNum DEF TakeInsertTs, Closed
<1>7. CASE release_read_timestamp(s)
  <2>1. \A r \in Sessions : (r # s => (Counts(r)' <=> Counts(r))) /\ (Closes(r)' <=> Closes(r))
    BY <1>7 DEF release_read_timestamp, Goto, Finish
  <2>2. Counts(s) /\ ~Counts(s)'
    BY <1>7 DEF release_read_timestamp, Goto, Finish
  <2> QED
    BY <1>7, <2>1, <2>2, GateCountStep, ThreadNum DEF release_read_timestamp, Closed
<1>8. CASE PublishInsert(s)
  <2>1. \A r \in Sessions : (Counts(r)' <=> Counts(r)) /\ (Closes(r)' <=> Closes(r))
    BY <1>8 DEF PublishInsert, Goto
  <2> QED
    BY <1>8, <2>1, GateCountStep, ThreadNum DEF PublishInsert, Closed
<1>9. CASE LeaveGate(s)
  <2>1. \A r \in Sessions : (r # s => (Counts(r)' <=> Counts(r))) /\ (Closes(r)' <=> Closes(r))
    BY <1>9 DEF LeaveGate, Goto, Finish
  <2>2. Counts(s) /\ ~Counts(s)'
    BY <1>9 DEF LeaveGate, Goto, Finish
  <2> QED
    BY <1>9, <2>1, <2>2, GateCountStep, ThreadNum DEF LeaveGate, Closed
<1>10. CASE TakeSlot(s)
  <2>1. \A r \in Sessions : (Counts(r)' <=> Counts(r)) /\ (Closes(r)' <=> Closes(r))
    BY <1>10 DEF TakeSlot, Goto
  <2> QED
    BY <1>10, <2>1, GateCountStep, ThreadNum DEF TakeSlot, Closed
<1>11. CASE CloseGate(s)
  <2>1. \A r \in Sessions : Counts(r)' <=> Counts(r)
    BY <1>11 DEF CloseGate, Goto
  <2>2. ~Closed /\ Closed'
    BY <1>11 DEF CloseGate, Goto, Closed, SlotOK, SlotExclusive, InSlot
  <2> QED
    BY <1>11, <2>1, <2>2, GateCountStep, ThreadNum DEF CloseGate
<1>12. CASE Drained(s)
  <2>1. \A r \in Sessions : (Counts(r)' <=> Counts(r)) /\ (Closes(r)' <=> Closes(r))
    BY <1>12 DEF Drained, Goto
  <2> QED
    BY <1>12, <2>1, GateCountStep, ThreadNum DEF Drained, Closed
<1>13. CASE TakeUpdateTs(s)
  <2>1. \A r \in Sessions : (Counts(r)' <=> Counts(r)) /\ (Closes(r)' <=> Closes(r))
    BY <1>13 DEF TakeUpdateTs, Goto
  <2> QED
    BY <1>13, <2>1, GateCountStep, ThreadNum DEF TakeUpdateTs, Closed
<1>14. CASE PublishUpdate(s)
  <2>1. \A r \in Sessions : (Counts(r)' <=> Counts(r)) /\ (Closes(r)' <=> Closes(r))
    BY <1>14 DEF PublishUpdate, Goto
  <2> QED
    BY <1>14, <2>1, GateCountStep, ThreadNum DEF PublishUpdate, Closed
<1>15. CASE ReopenGate(s)
  <2>1. \A r \in Sessions : Counts(r)' <=> Counts(r)
    BY <1>15 DEF ReopenGate, Goto
  <2>2. Closed /\ ~Closed'
    BY <1>15 DEF ReopenGate, Goto, Closed, SlotOK, SlotExclusive, InSlot
  <2> QED
    BY <1>15, <2>1, <2>2, GateCountStep, ThreadNum DEF ReopenGate
<1>16. CASE FreeSlot(s)
  <2>1. \A r \in Sessions : (Counts(r)' <=> Counts(r)) /\ (Closes(r)' <=> Closes(r))
    BY <1>16 DEF FreeSlot, Goto, Finish
  <2> QED
    BY <1>16, <2>1, GateCountStep, ThreadNum DEF FreeSlot, Closed
<1>17. CASE RevertUpdate(s)
  <2>1. \A r \in Sessions : (Counts(r)' <=> Counts(r)) /\ (Closes(r)' <=> Closes(r))
    BY <1>17 DEF RevertUpdate, Goto, Finish, UpdateLast
  <2> QED
    BY <1>17, <2>1, GateCountStep, ThreadNum DEF RevertUpdate, Closed
<1> QED
  BY <1>1, <1>2, <1>3, <1>4, <1>5, <1>6, <1>7, <1>8, <1>9, <1>10, <1>11, <1>12, <1>13, <1>14, <1>15, <1>16, <1>17 DEF Step, QueryStep

\* Nobody takes a timestamp while an update transaction holds one.
LEMMA UpdateLastStep ==
  ASSUME TypeOK, ModeOK, SlotOK, UpdateExclusive, UpdateLast,
         NEW s \in Sessions, (\E m \in Modes : Begin(s, m)) \/ Step(s)
  PROVE  UpdateLast'
<1>1. ASSUME NEW m \in Modes, Begin(s, m) PROVE UpdateLast'
  BY <1>1 DEF TypeOK, ModeOK, PCs, Modes, UpdateLast, Begin, Goto, Modes
<1>2. CASE EnterGate(s)
  BY <1>2 DEF TypeOK, ModeOK, PCs, Modes, UpdateLast, EnterGate, Goto
<1>3. CASE BackOff(s)
  BY <1>3 DEF TypeOK, ModeOK, PCs, Modes, UpdateLast, BackOff, Goto
<1>4. CASE Poll(s)
  BY <1>4 DEF TypeOK, ModeOK, PCs, Modes, UpdateLast, Poll, Goto
<1>5. CASE ReadSnapshot(s)
  BY <1>5 DEF TypeOK, ModeOK, PCs, Modes, UpdateLast, ReadSnapshot, Goto
<1>6. CASE TakeInsertTs(s)
  <2>1. \A r \in Sessions : ~Updating(r)
    BY <1>6 DEF TakeInsertTs, Goto, UpdateExclusive, Inside, Updating, ModeOK
  <2> QED
    BY <1>6, <2>1 DEF TypeOK, UpdateLast, Updating, TakeInsertTs, Goto
<1>7. CASE release_read_timestamp(s)
  BY <1>7 DEF TypeOK, ModeOK, PCs, Modes, UpdateLast, release_read_timestamp, Goto, Finish
<1>8. CASE PublishInsert(s)
  BY <1>8 DEF TypeOK, ModeOK, PCs, Modes, UpdateLast, PublishInsert, Goto
<1>9. CASE LeaveGate(s)
  BY <1>9 DEF TypeOK, ModeOK, PCs, Modes, UpdateLast, LeaveGate, Goto, Finish
<1>10. CASE TakeSlot(s)
  BY <1>10 DEF TypeOK, ModeOK, PCs, Modes, UpdateLast, TakeSlot, Goto
<1>11. CASE CloseGate(s)
  BY <1>11 DEF TypeOK, ModeOK, PCs, Modes, UpdateLast, CloseGate, Goto
<1>12. CASE Drained(s)
  BY <1>12 DEF TypeOK, ModeOK, PCs, Modes, UpdateLast, Drained, Goto
<1>13. CASE TakeUpdateTs(s)
  <2>1. \A r \in Sessions : r # s => ~(pc[r] = "running" /\ mode[r] = "update")
    BY <1>13 DEF TakeUpdateTs, Goto, UpdateExclusive, Updating
  <2> QED
    BY <1>13, <2>1 DEF TypeOK, UpdateLast, TakeUpdateTs, Goto
<1>14. CASE PublishUpdate(s)
  BY <1>14 DEF TypeOK, ModeOK, PCs, Modes, UpdateLast, PublishUpdate, Goto
<1>15. CASE ReopenGate(s)
  BY <1>15 DEF TypeOK, ModeOK, PCs, Modes, UpdateLast, ReopenGate, Goto
<1>16. CASE FreeSlot(s)
  BY <1>16 DEF TypeOK, ModeOK, PCs, Modes, UpdateLast, FreeSlot, Goto, Finish
<1>17. CASE RevertUpdate(s)
  <2>1. \A r \in Sessions : r # s => ~(pc[r] = "running" /\ mode[r] = "update")
    BY <1>17 DEF RevertUpdate, Goto, Finish, UpdateExclusive, Updating
  <2> QED
    BY <1>17, <2>1 DEF TypeOK, UpdateLast, RevertUpdate, Goto, Finish
<1> QED
  BY <1>1, <1>2, <1>3, <1>4, <1>5, <1>6, <1>7, <1>8, <1>9, <1>10, <1>11, <1>12, <1>13, <1>14, <1>15, <1>16, <1>17 DEF Step, QueryStep

\* No step lets a session in beside an update transaction.
LEMMA ExclusiveStep ==
  ASSUME TypeOK, ModeOK, SlotOK, GateCount, UpdateExclusive, UpdateLast,
         NEW s \in Sessions, (\E m \in Modes : Begin(s, m)) \/ Step(s)
  PROVE  UpdateExclusive'
<1>1. ASSUME NEW m \in Modes, Begin(s, m) PROVE UpdateExclusive'
  BY <1>1 DEF TypeOK, ModeOK, PCs, Modes, UpdateExclusive, Inside, Updating, Begin, Goto, Modes
<1>2. CASE EnterGate(s)
  <2>1. CASE pending_reqs >= 0
    <3>1. ~Counts(s)
      BY <1>2 DEF EnterGate, Goto, Counts, Inside
    <3>2. Cardinality(Counted) < thread_num
      BY <3>1, CountBounds
    <3>3. \A r \in Sessions : ~Closes(r)
      BY <2>1, <3>2, ThreadNum, CountedFinite DEF GateCount, Counted
    <3> QED
      BY <1>2, <3>3 DEF EnterGate, Goto, TypeOK, UpdateExclusive, Inside, Updating, Closes
  <2>2. CASE ~(pending_reqs >= 0)
    BY <1>2, <2>2 DEF EnterGate, Goto, TypeOK, UpdateExclusive, Inside, Updating
  <2> QED
    BY <2>1, <2>2
<1>3. CASE BackOff(s)
  BY <1>3 DEF TypeOK, ModeOK, PCs, Modes, UpdateExclusive, Inside, Updating, BackOff, Goto
<1>4. CASE Poll(s)
  BY <1>4 DEF TypeOK, ModeOK, PCs, Modes, UpdateExclusive, Inside, Updating, Poll, Goto
<1>5. CASE ReadSnapshot(s)
  BY <1>5 DEF TypeOK, ModeOK, PCs, Modes, UpdateExclusive, Inside, Updating, ReadSnapshot, Goto
<1>6. CASE TakeInsertTs(s)
  BY <1>6 DEF TypeOK, ModeOK, PCs, Modes, UpdateExclusive, Inside, Updating, TakeInsertTs, Goto
<1>7. CASE release_read_timestamp(s)
  BY <1>7 DEF TypeOK, ModeOK, PCs, Modes, UpdateExclusive, Inside, Updating, release_read_timestamp, Goto, Finish
<1>8. CASE PublishInsert(s)
  BY <1>8 DEF TypeOK, ModeOK, PCs, Modes, UpdateExclusive, Inside, Updating, PublishInsert, Goto
<1>9. CASE LeaveGate(s)
  BY <1>9 DEF TypeOK, ModeOK, PCs, Modes, UpdateExclusive, Inside, Updating, LeaveGate, Goto, Finish
<1>10. CASE TakeSlot(s)
  BY <1>10 DEF TypeOK, ModeOK, PCs, Modes, UpdateExclusive, Inside, Updating, TakeSlot, Goto
<1>11. CASE CloseGate(s)
  <2>1. \A r \in Sessions : ~Closes(r)
    BY <1>11 DEF CloseGate, Goto, SlotOK, SlotExclusive, InSlot, Closes, Updating
  <2>2. CASE pending_reqs = 0
    <3>1. \A r \in Sessions : ~Counts(r)
      BY <2>1, <2>2, CountedFinite, CountBounds DEF GateCount, Counted
    <3> QED
      BY <1>11, <2>1, <3>1
      DEF CloseGate, Goto, TypeOK, UpdateExclusive, Inside, Updating, Counts, Closes
  <2>3. CASE pending_reqs # 0
    BY <1>11, <2>3 DEF CloseGate, Goto, TypeOK, UpdateExclusive, Inside, Updating
  <2> QED
    BY <2>2, <2>3
<1>12. CASE Drained(s)
  <2>1. Closes(s)
    BY <1>12 DEF Drained, Goto, Closes
  <2>2. \A r \in Sessions : ~Counts(r)
    BY <1>12, <2>1, ThreadNum, CountedFinite, CountBounds DEF Drained, GateCount, Counted
  <2>3. \A r \in Sessions : r # s => ~Updating(r)
    BY <1>12 DEF Drained, Goto, SlotOK, SlotExclusive, InSlot, Updating
  <2> QED
    BY <1>12, <2>2, <2>3 DEF Drained, Goto, TypeOK, UpdateExclusive, Inside, Updating, Counts
<1>13. CASE TakeUpdateTs(s)
  BY <1>13 DEF TypeOK, ModeOK, PCs, Modes, UpdateExclusive, Inside, Updating, TakeUpdateTs, Goto
<1>14. CASE PublishUpdate(s)
  BY <1>14 DEF TypeOK, ModeOK, PCs, Modes, UpdateExclusive, Inside, Updating, PublishUpdate, Goto
<1>15. CASE ReopenGate(s)
  BY <1>15 DEF TypeOK, ModeOK, PCs, Modes, UpdateExclusive, Inside, Updating, ReopenGate, Goto
<1>16. CASE FreeSlot(s)
  BY <1>16 DEF TypeOK, ModeOK, PCs, Modes, UpdateExclusive, Inside, Updating, FreeSlot, Goto, Finish
<1>17. CASE RevertUpdate(s)
  BY <1>17 DEF TypeOK, ModeOK, PCs, Modes, UpdateExclusive, Inside, Updating, RevertUpdate, Goto, Finish
<1> QED
  BY <1>1, <1>2, <1>3, <1>4, <1>5, <1>6, <1>7, <1>8, <1>9, <1>10, <1>11, <1>12, <1>13, <1>14, <1>15, <1>16, <1>17 DEF Step, QueryStep

-----------------------------------------------------------------------------

LEMMA GateStep == GateInv /\ [Next]_vars => GateInv'
<1> SUFFICES ASSUME GateInv, [Next]_vars PROVE GateInv'
  OBVIOUS
<1>1. CASE Next
  <2>1. PICK s \in Sessions : (\E m \in Modes : Begin(s, m)) \/ Step(s)
    BY <1>1 DEF Next
  <2> QED
    BY <2>1, TypeStep, ModeStep, SlotStep, CountsStep, ExclusiveStep, UpdateLastStep
    DEF GateInv
<1>2. CASE UNCHANGED vars
  BY <1>2
  DEF vars, GateInv, TypeOK, ModeOK, SlotOK, SlotExclusive, InSlot, GateCount, Counts,
      Closes, Inside, Updating, UpdateExclusive, UpdateLast
<1> QED
  BY <1>1, <1>2

(***************************************************************************)
(* Whatever the number of sessions and the size of the ring, the gate      *)
(* keeps its inductive invariant.                                          *)
(***************************************************************************)
THEOREM GateInvariant == Spec => []GateInv
  BY GateInit, GateStep, PTL DEF Spec

(***************************************************************************)
(* The counters, the ring and the sessions keep their types.               *)
(***************************************************************************)
THEOREM TypeCorrect == Spec => []TypeOK
  BY GateInvariant, PTL DEF GateInv

(***************************************************************************)
(* A session that acquire_update_timestamp has let through is alone until  *)
(* it reopens the gate, for every number of sessions.                      *)
(***************************************************************************)
THEOREM UpdateIsExclusive == Spec => []UpdateExclusive
  BY GateInvariant, PTL DEF GateInv

(***************************************************************************)
(* pending_reqs_ is at all times the number of sessions in the gate, less  *)
(* thread_num_ while it is closed: no increment is leaked or lost.         *)
(***************************************************************************)
THEOREM GateCountExact == Spec => []GateCount
  BY GateInvariant, PTL DEF GateInv

-----------------------------------------------------------------------------

(***************************************************************************)
(* The timestamps, as long as the outstanding ones fit in the ring         *)
(* (BoundedSpec): snapshots are complete, the ring is exact, and the whole *)
(* implements SnapshotOracle.                                              *)
(***************************************************************************)

(***************************************************************************)
(* The inductive invariant.  SnapshotComplete is not inductive: that       *)
(* release_insert_timestamp passes released timestamps only needs the      *)
(* exact contents of the ring, those need the held timestamps to be        *)
(* different and between read_ts_ and write_ts_, and FitsRing makes        *)
(* different timestamps different bits.                                    *)
(***************************************************************************)
TsOK ==
  /\ read_ts < write_ts
  /\ \A s \in Sessions : HoldsWriteTs(s) => read_ts < ts[s] /\ ts[s] < write_ts
  /\ \A r, s \in Sessions : HoldsWriteTs(r) /\ HoldsWriteTs(s) /\ r # s => ts[r] # ts[s]
  /\ \A r \in Sessions : pc[r] = "running" /\ mode[r] = "read" => ts[r] <= read_ts

SnapInv == GateInv /\ FitsRing /\ TsOK /\ RingExact

LEMMA SnapInit == Init => SnapInv
<1> SUFFICES ASSUME Init PROVE SnapInv
  OBVIOUS
<1>1. Released = {}
  BY TsAssumption DEF Init, Released
<1>2. FitsRing /\ TsOK /\ RingExact
  BY <1>1, TsAssumption, RingAssumption
  DEF Init, FitsRing, TsOK, RingExact, HoldsWriteTs
<1> QED
  BY <1>2, GateInit DEF SnapInv

\* A step that touches neither the counters nor the ring, and neither takes nor
\* gives back a write timestamp, keeps the timestamps in order.
LEMMA Quiet ==
  ASSUME TsOK, RingExact, UNCHANGED <<write_ts, read_ts, buf>>,
         \A r \in Sessions : HoldsWriteTs(r)' <=> HoldsWriteTs(r),
         \A r \in Sessions : HoldsWriteTs(r) => ts'[r] = ts[r],
         \A r \in Sessions : pc'[r] = "running" /\ mode'[r] = "read" => ts'[r] <= read_ts
  PROVE  TsOK' /\ RingExact'
<1>1. Released' = Released
  BY DEF Released
<1>2. RingExact'
  BY <1>1 DEF RingExact, index
<1>3. TsOK'
  BY DEF TsOK
<1> QED
  BY <1>2, <1>3

\* A transaction that takes the next write timestamp.
LEMMA Taken ==
  ASSUME TypeOK, TsOK, RingExact, NEW s \in Sessions, ~HoldsWriteTs(s), HoldsWriteTs(s)',
         write_ts' = write_ts + 1, UNCHANGED <<read_ts, buf>>,
         ts' = [ts EXCEPT ![s] = write_ts],
         \A r \in Sessions \ {s} : pc'[r] = pc[r] /\ mode'[r] = mode[r]
  PROVE  TsOK' /\ RingExact'
<1>1. \A r \in Sessions \ {s} : HoldsWriteTs(r)' <=> HoldsWriteTs(r)
  BY DEF HoldsWriteTs
<1>2. ts'[s] = write_ts /\ \A r \in Sessions \ {s} : ts'[r] = ts[r]
  BY DEF TypeOK
<1>3. Released' = Released
  <2>1. ASSUME NEW t \in Released PROVE t \in Released'
    BY <2>1, <1>1, <1>2 DEF Released, TypeOK
  <2>2. ASSUME NEW t \in Released' PROVE t \in Released
    BY <2>2, <1>1, <1>2 DEF Released, TypeOK
  <2> QED
    BY <2>1, <2>2
<1>4. RingExact'
  BY <1>3 DEF RingExact, index
<1>5. TsOK'
  BY <1>1, <1>2 DEF TsOK, HoldsWriteTs, TypeOK
<1> QED
  BY <1>4, <1>5

(***************************************************************************)
(* A running update transaction holds the only outstanding timestamp.      *)
(***************************************************************************)
LEMMA UpdateAlone ==
  ASSUME SnapInv, NEW s \in Sessions, pc[s] = "running", mode[s] = "update"
  PROVE  /\ ts[s] = read_ts + 1 /\ write_ts = ts[s] + 1
         /\ buf = {}
         /\ \A r \in Sessions \ {s} : pc[r] # "running"
<1>1. \A r \in Sessions \ {s} : pc[r] # "running"
  BY DEF SnapInv, GateInv, UpdateExclusive, Inside, Updating
<1>2. write_ts = ts[s] + 1 /\ read_ts < ts[s]
  BY DEF SnapInv, GateInv, UpdateLast, TsOK, HoldsWriteTs
<1>3. write_ts \in Nat /\ read_ts \in Nat /\ ts[s] \in Nat
  BY DEF SnapInv, GateInv, TypeOK
<1>4. ts[s] = read_ts + 1
  <2> SUFFICES ASSUME ts[s] # read_ts + 1 PROVE FALSE
    OBVIOUS
  <2>1. read_ts + 1 \in Released
    BY <1>1, <1>2, <1>3 DEF Released, HoldsWriteTs
  <2> QED
    BY <2>1 DEF SnapInv, RingExact
<1>5. Released = {}
  BY <1>2, <1>3, <1>4 DEF Released, HoldsWriteTs
<1> QED
  BY <1>1, <1>2, <1>4, <1>5 DEF SnapInv, RingExact

(***************************************************************************)
(* Two outstanding timestamps with the same bit are the same timestamp.    *)
(***************************************************************************)
LEMMA SameBit ==
  ASSUME TypeOK, FitsRing,
         NEW a \in (read_ts + 1)..write_ts, NEW b \in (read_ts + 1)..write_ts,
         index(a) = index(b)
  PROVE  a = b
<1>1. /\ a \in Nat /\ b \in Nat /\ a - b < RingSize /\ b - a < RingSize
  BY RingAssumption DEF TypeOK, FitsRing
<1>2. ~(a < b)
  BY <1>1, IndexDistinct
<1>3. ~(b < a)
  BY <1>1, IndexDistinct
<1> QED
  BY <1>1, <1>2, <1>3

(***************************************************************************)
(* release_insert_timestamp by the holder of the next timestamp passes     *)
(* exactly the released timestamps up to the first one still held.         *)
(***************************************************************************)
LEMMA Advance ==
  ASSUME SnapInv, NEW s \in Sessions, PublishInsert(s), ts[s] = read_ts + 1
  PROVE  TsOK' /\ RingExact'
<1> DEFINE t == ts[s]
<1>1. PICK u \in t..(t + RingSize) :
        AdvancesTo(t, u) /\ read_ts' = u /\ buf' = buf \ Passed(t, u)
  BY DEF PublishInsert
<1>2. /\ TypeOK /\ FitsRing /\ TsOK /\ RingExact
      /\ HoldsWriteTs(s)
  BY DEF SnapInv, GateInv, PublishInsert, Goto, HoldsWriteTs
<1>3. /\ t \in Nat /\ t = read_ts + 1 /\ t < write_ts /\ read_ts \in Nat /\ write_ts \in Nat
      /\ u \in Nat /\ t <= u
  BY <1>1, <1>2, RingAssumption DEF TypeOK, TsOK
<1>4. /\ write_ts' = write_ts /\ ts' = ts
      /\ \A r \in Sessions : HoldsWriteTs(r)' <=> (HoldsWriteTs(r) /\ r # s)
      /\ \A r \in Sessions : pc'[r] = "running" /\ mode'[r] = "read" =>
                               pc[r] = "running" /\ mode[r] = "read"
  BY <1>2 DEF PublishInsert, Goto, HoldsWriteTs, TypeOK
<1>5. ASSUME NEW v \in (t + 1)..u, v <= write_ts PROVE v \in Released
  <2>1. index(v) \in buf
    BY <1>1, <1>5 DEF AdvancesTo, Passed
  <2>2. PICK r \in Released : index(v) = index(r)
    BY <1>2, <2>1 DEF RingExact
  <2>3. v \in (read_ts + 1)..write_ts /\ r \in (read_ts + 1)..write_ts
    BY <1>3, <1>5, <2>2 DEF Released
  <2>4. v = r
    BY <1>2, <2>2, <2>3, SameBit
  <2> QED
    BY <2>2, <2>4
<1>6. u < write_ts
  <2> SUFFICES ASSUME u >= write_ts PROVE FALSE
    BY <1>3
  <2>1. write_ts \in Released
    BY <1>3, <1>5
  <2> QED
    BY <1>3, <2>1 DEF Released
<1>7. Released' = {r \in Released : r > u}
  <2>1. ASSUME NEW r \in Released' PROVE r \in Released /\ r > u
    BY <1>1, <1>3, <1>4, <1>6, <2>1 DEF Released
  <2>2. ASSUME NEW r \in Released, r > u PROVE r \in Released'
    BY <1>1, <1>3, <1>4, <1>6, <2>2 DEF Released
  <2> QED
    BY <2>1, <2>2
<1>8. t \notin Released
  BY <1>2 DEF Released
<1>9. buf' = {index(r) : r \in Released'}
  <2>1. ASSUME NEW r \in Released, r > u PROVE index(r) \in buf'
    <3>1. index(r) \in buf
      BY <1>2, <2>1 DEF RingExact
    <3>2. index(r) \notin Passed(t, u)
      <4> SUFFICES ASSUME NEW v \in (t + 1)..u, index(r) = index(v) PROVE FALSE
        BY DEF Passed
      <4>1. v \in (read_ts + 1)..write_ts /\ r \in (read_ts + 1)..write_ts
        BY <1>3, <1>6 DEF Released
      <4>2. v = r
        BY <1>2, <4>1, SameBit
      <4> QED
        BY <1>3, <2>1, <4>2
    <3> QED
      BY <1>1, <3>1, <3>2
  <2>2. ASSUME NEW i \in buf' PROVE \E r \in Released : r > u /\ i = index(r)
    <3>1. PICK r \in Released : i = index(r)
      BY <1>1, <1>2, <2>2 DEF RingExact
    <3>2. r \notin (t + 1)..u
      BY <1>1, <2>2, <3>1 DEF Passed
    <3>3. r > u
      BY <1>3, <1>8, <3>1, <3>2 DEF Released
    <3> QED
      BY <3>1, <3>3
  <2> QED
    BY <1>7, <2>1, <2>2
<1>10. u + 1 \notin Released'
  BY <1>1, <1>9 DEF AdvancesTo
<1>11. RingExact'
  BY <1>1, <1>9, <1>10 DEF RingExact, index
<1>12. TsOK'
  <2>1. ASSUME NEW r \in Sessions, HoldsWriteTs(r), r # s PROVE u < ts[r] /\ ts[r] < write_ts
    <3>1. ts[r] \in Nat /\ ts[r] > read_ts /\ ts[r] # t /\ ts[r] < write_ts
      BY <1>2, <2>1 DEF TsOK, TypeOK
    <3>2. ts[r] \notin Released
      BY <2>1 DEF Released
    <3>3. ts[r] \notin (t + 1)..u
      BY <1>3, <1>5, <3>1, <3>2
    <3> QED
      BY <1>3, <3>1, <3>3
  <2>2. \A r \in Sessions : pc[r] = "running" /\ mode[r] = "read" => ts[r] <= u
    BY <1>2, <1>3 DEF TsOK, TypeOK
  <2> QED
    BY <1>1, <1>2, <1>4, <1>6, <2>1, <2>2 DEF TsOK
<1> QED
  BY <1>11, <1>12

\* Every step keeps the timestamps in order and the ring exact.
LEMMA SnapActions ==
  ASSUME SnapInv, NEW s \in Sessions, (\E m \in Modes : Begin(s, m)) \/ Step(s)
  PROVE  TsOK' /\ RingExact'
<1> USE DEF SnapInv, GateInv
<1>1. ASSUME NEW m \in Modes, Begin(s, m) PROVE TsOK' /\ RingExact'
  BY <1>1, Quiet DEF Begin, Goto, HoldsWriteTs, TypeOK, TsOK
<1>2. CASE EnterGate(s)
  BY <1>2, Quiet DEF EnterGate, Goto, HoldsWriteTs, TypeOK, ModeOK, TsOK
<1>3. CASE BackOff(s)
  BY <1>3, Quiet DEF BackOff, Goto, HoldsWriteTs, TypeOK, ModeOK, TsOK
<1>4. CASE Poll(s)
  BY <1>4, Quiet DEF Poll, Goto, HoldsWriteTs, TypeOK, ModeOK, TsOK
<1>5. CASE ReadSnapshot(s)
  BY <1>5, Quiet DEF ReadSnapshot, Goto, HoldsWriteTs, TypeOK, ModeOK, TsOK
<1>6. CASE TakeInsertTs(s)
  BY <1>6, Taken DEF TakeInsertTs, Goto, HoldsWriteTs, TypeOK
<1>7. CASE release_read_timestamp(s)
  BY <1>7, Quiet DEF release_read_timestamp, Goto, Finish, HoldsWriteTs, TypeOK, ModeOK, TsOK
<1>8. CASE PublishInsert(s)
  <2>1. CASE ts[s] = read_ts + 1
    BY <1>8, <2>1, Advance
  <2>2. CASE ts[s] # read_ts + 1
    <3>1. /\ buf' = buf \union {index(ts[s])} /\ UNCHANGED <<read_ts, write_ts, ts>>
          /\ HoldsWriteTs(s)
          /\ \A r \in Sessions : HoldsWriteTs(r)' <=> (HoldsWriteTs(r) /\ r # s)
          /\ \A r \in Sessions : pc'[r] = "running" /\ mode'[r] = "read" =>
                                   pc[r] = "running" /\ mode[r] = "read"
      BY <1>8, <2>2 DEF PublishInsert, Goto, HoldsWriteTs, TypeOK
    <3>2. Released' = Released \union {ts[s]}
      BY <3>1 DEF Released, TsOK, TypeOK
    <3>3. RingExact'
      BY <2>2, <3>1, <3>2 DEF RingExact, index
    <3>4. TsOK'
      BY <3>1 DEF TsOK
    <3> QED
      BY <3>3, <3>4
  <2> QED
    BY <2>1, <2>2
<1>9. CASE LeaveGate(s)
  BY <1>9, Quiet DEF LeaveGate, Goto, Finish, HoldsWriteTs, TypeOK, ModeOK, TsOK
<1>10. CASE TakeSlot(s)
  BY <1>10, Quiet DEF TakeSlot, Goto, HoldsWriteTs, TypeOK, ModeOK, TsOK
<1>11. CASE CloseGate(s)
  BY <1>11, Quiet DEF CloseGate, Goto, HoldsWriteTs, TypeOK, ModeOK, TsOK
<1>12. CASE Drained(s)
  BY <1>12, Quiet DEF Drained, Goto, HoldsWriteTs, TypeOK, ModeOK, TsOK
<1>13. CASE TakeUpdateTs(s)
  BY <1>13, Taken DEF TakeUpdateTs, Goto, HoldsWriteTs, TypeOK, ModeOK
<1>14. CASE PublishUpdate(s)
  <2>1. /\ ts[s] = read_ts + 1 /\ write_ts = ts[s] + 1 /\ buf = {}
        /\ \A r \in Sessions \ {s} : pc[r] # "running"
    BY <1>14, UpdateAlone DEF PublishUpdate, Goto, Finish
  <2>2. /\ read_ts' = ts[s] /\ write_ts' = write_ts /\ buf' = buf
        /\ \A r \in Sessions : pc'[r] # "running"
    BY <1>14, <2>1 DEF PublishUpdate, Goto, Finish, TypeOK
  <2>3. Released' = {}
    BY <2>1, <2>2 DEF Released, TypeOK
  <2>4. RingExact'
    BY <2>1, <2>2, <2>3 DEF RingExact
  <2>5. TsOK'
    BY <2>1, <2>2 DEF TsOK, HoldsWriteTs, TypeOK
  <2> QED
    BY <2>4, <2>5
<1>15. CASE ReopenGate(s)
  BY <1>15, Quiet DEF ReopenGate, Goto, HoldsWriteTs, TypeOK, ModeOK, TsOK
<1>16. CASE FreeSlot(s)
  BY <1>16, Quiet DEF FreeSlot, Goto, Finish, HoldsWriteTs, TypeOK, ModeOK, TsOK
<1>17. CASE RevertUpdate(s)
  <2>1. /\ ts[s] = read_ts + 1 /\ write_ts = ts[s] + 1 /\ buf = {}
        /\ \A r \in Sessions \ {s} : pc[r] # "running"
    BY <1>17, UpdateAlone DEF RevertUpdate, Goto, Finish
  <2>2. /\ read_ts' = read_ts /\ write_ts' = ts[s] /\ buf' = buf
        /\ \A r \in Sessions : pc'[r] # "running"
    BY <1>17, <2>1 DEF RevertUpdate, Goto, Finish, TypeOK
  <2>3. Released' = {}
    BY <2>1, <2>2 DEF Released, TypeOK
  <2>4. RingExact'
    BY <2>1, <2>2, <2>3 DEF RingExact
  <2>5. TsOK'
    BY <2>1, <2>2 DEF TsOK, HoldsWriteTs, TypeOK
  <2> QED
    BY <2>4, <2>5
<1> QED
  BY <1>1, <1>2, <1>3, <1>4, <1>5, <1>6, <1>7, <1>8, <1>9, <1>10, <1>11, <1>12, <1>13,
     <1>14, <1>15, <1>16, <1>17 DEF Step, QueryStep

LEMMA SnapStep == SnapInv /\ [Next /\ FitsRing']_vars => SnapInv'
<1> SUFFICES ASSUME SnapInv, [Next /\ FitsRing']_vars PROVE SnapInv'
  OBVIOUS
<1>1. GateInv'
  BY GateStep DEF SnapInv
<1>2. CASE Next /\ FitsRing'
  <2>1. PICK s \in Sessions : (\E m \in Modes : Begin(s, m)) \/ Step(s)
    BY <1>2 DEF Next
  <2> QED
    BY <1>1, <1>2, <2>1, SnapActions DEF SnapInv
<1>3. CASE UNCHANGED vars
  <2>1. TsOK' /\ RingExact'
    BY <1>3, Quiet DEF SnapInv, vars, HoldsWriteTs, TsOK
  <2>2. FitsRing'
    BY <1>3 DEF SnapInv, vars, FitsRing
  <2> QED
    BY <1>1, <2>1, <2>2 DEF SnapInv
<1> QED
  BY <1>2, <1>3

-----------------------------------------------------------------------------

(***************************************************************************)
(* While the outstanding timestamps fit in the ring, the timestamps stay   *)
(* in order and the ring exact.                                            *)
(***************************************************************************)
THEOREM SnapInvariant == BoundedSpec => []SnapInv
  BY SnapInit, SnapStep, PTL DEF BoundedSpec

(***************************************************************************)
(* Every snapshot that acquire_read_timestamp hands out covers finished    *)
(* transactions only, for every number of sessions and every ring size.    *)
(***************************************************************************)
THEOREM SnapshotsAreComplete == BoundedSpec => []SnapshotComplete
<1>1. SnapInv => SnapshotComplete
  BY DEF SnapInv, GateInv, TypeOK, TsOK, SnapshotComplete, HoldsWriteTs
<1> QED
  BY <1>1, SnapInvariant, PTL

(***************************************************************************)
(* The bits of buf_ are those of the released timestamps beyond read_ts_,  *)
(* and read_ts_ only stops below a timestamp that is still held.           *)
(***************************************************************************)
THEOREM RingIsExact == BoundedSpec => []RingExact
<1>1. SnapInv => RingExact
  BY DEF SnapInv
<1> QED
  BY <1>1, SnapInvariant, PTL

(***************************************************************************)
(* A running update transaction holds the next timestamp and the last one: *)
(* release_update_timestamp needs no ring, and revert_update_timestamp     *)
(* never fails and leaves the gate closed.                                 *)
(***************************************************************************)
THEOREM UpdateHoldsNext == BoundedSpec => []UpdateIsNext
<1>1. SnapInv => UpdateIsNext
  BY UpdateAlone DEF UpdateIsNext, HoldsWriteTs
<1> QED
  BY <1>1, SnapInvariant, PTL

(***************************************************************************)
(* No two transactions hold the same write timestamp, and none holds one   *)
(* that fetch_add is still to hand out.                                    *)
(***************************************************************************)
THEOREM TimestampsAreUnique == BoundedSpec => []UniqueTimestamps
<1>1. SnapInv => UniqueTimestamps
  BY DEF SnapInv, TsOK, UniqueTimestamps
<1> QED
  BY <1>1, SnapInvariant, PTL

(***************************************************************************)
(* When no transaction holds a write timestamp, release_insert_timestamp   *)
(* has brought read_ts_ up to write_ts_ and cleared every bit.             *)
(***************************************************************************)
THEOREM NothingIsStranded == BoundedSpec => []NothingStranded
<1>1. ASSUME SnapInv, \A s \in Sessions : ~HoldsWriteTs(s)
      PROVE  read_ts = write_ts - 1 /\ buf = {}
  <2>1. Released = (read_ts + 1)..(write_ts - 1) /\ read_ts + 1 \notin Released
    BY <1>1 DEF SnapInv, RingExact, Released
  <2>2. read_ts \in Nat /\ write_ts \in Nat /\ read_ts < write_ts
    BY <1>1 DEF SnapInv, GateInv, TypeOK, TsOK
  <2>3. read_ts = write_ts - 1
    BY <2>1, <2>2
  <2>4. Released = {}
    BY <2>1, <2>2, <2>3
  <2> QED
    BY <1>1, <2>3, <2>4 DEF SnapInv, RingExact
<1>2. SnapInv => NothingStranded
  BY <1>1 DEF NothingStranded
<1> QED
  BY <1>2, SnapInvariant, PTL

-----------------------------------------------------------------------------

\* A session that stays where it is keeps its transaction and its timestamp.
LEMMA StaysPut ==
  ASSUME TypeOK, [Next]_vars, NEW r \in Sessions, pc'[r] = pc[r]
  PROVE  mode'[r] = mode[r] /\ ts'[r] = ts[r]
<1>1. CASE UNCHANGED vars
  BY <1>1 DEF vars
<1>2. CASE Next
  <2>1. PICK s \in Sessions : (\E m \in Modes : Begin(s, m)) \/ Step(s)
    BY <1>2 DEF Next
  <2> QED
    BY <2>1
    DEF TypeOK, Step, QueryStep, Goto, Finish, Begin, EnterGate, BackOff, Poll, ReadSnapshot,
        TakeInsertTs, release_read_timestamp, PublishInsert, LeaveGate, TakeSlot, CloseGate,
        Drained, TakeUpdateTs, PublishUpdate, RevertUpdate, ReopenGate, FreeSlot
<1> QED
  BY <1>1, <1>2

(***************************************************************************)
(* read_ts_ never moves back, and moves over a timestamp only in the step  *)
(* in which its holder releases it or later.                               *)
(***************************************************************************)
THEOREM SnapshotOnlyAdvances == BoundedSpec => SnapshotAdvances
<1> DEFINE A == /\ read_ts' >= read_ts
                /\ \A s \in Sessions :
                     HoldsWriteTs(s) /\ read_ts' >= ts[s] => pc'[s] # pc[s]
<1>1. ASSUME SnapInv, SnapInv', [Next /\ FitsRing']_vars PROVE A
  <2>1. read_ts' >= read_ts
    <3>1. CASE UNCHANGED vars
      BY <1>1, <3>1 DEF vars, SnapInv, GateInv, TypeOK
    <3>2. CASE Next
      <4>1. PICK s \in Sessions : (\E m \in Modes : Begin(s, m)) \/ Step(s)
        BY <3>2 DEF Next
      <4>2. read_ts \in Nat /\ RingSize \in Nat /\ \A r \in Sessions : ts[r] \in Nat
        BY <1>1, RingAssumption DEF SnapInv, GateInv, TypeOK
      <4>3. CASE PublishInsert(s)
        BY <4>2, <4>3 DEF PublishInsert
      <4>4. CASE ~PublishInsert(s)
        BY <4>1, <4>2, <4>4
        DEF Step, QueryStep, Begin, EnterGate, BackOff, Poll, ReadSnapshot, TakeInsertTs,
            release_read_timestamp, LeaveGate, TakeSlot, CloseGate, Drained, TakeUpdateTs,
            PublishUpdate, RevertUpdate, ReopenGate, FreeSlot
      <4> QED
        BY <4>3, <4>4
    <3> QED
      BY <1>1, <3>1, <3>2
  <2>2. ASSUME NEW s \in Sessions, HoldsWriteTs(s), read_ts' >= ts[s], pc'[s] = pc[s]
        PROVE  FALSE
    <3>1. mode'[s] = mode[s] /\ ts'[s] = ts[s]
      BY <1>1, <2>2, StaysPut DEF SnapInv, GateInv
    <3>2. read_ts' < ts'[s]
      BY <1>1, <2>2, <3>1 DEF SnapInv, TsOK, HoldsWriteTs
    <3> QED
      BY <1>1, <2>2, <3>1, <3>2 DEF SnapInv, GateInv, TypeOK
  <2> QED
    BY <2>1, <2>2
<1>2. SnapInv /\ SnapInv' /\ [Next /\ FitsRing']_vars => [A]_vars
  BY <1>1
<1> QED
  BY <1>2, SnapInvariant, PTL DEF BoundedSpec, SnapshotAdvances

-----------------------------------------------------------------------------

\* read_ts_ is the newest snapshot that covers finished transactions only.
LEMMA Frontier ==
  ASSUME SnapInv
  PROVE  Oracle!IsFrontier(read_ts)
<1>1. read_ts \in Nat /\ write_ts \in Nat /\ read_ts < write_ts
  BY DEF SnapInv, GateInv, TypeOK, TsOK
<1>2. \A s \in Sessions : HoldsWriteTs(s) <=> pc[s] = "running" /\ mode[s] \in {"insert", "update"}
  BY DEF SnapInv, GateInv, TypeOK, ModeOK, HoldsWriteTs, Modes
<1>3. read_ts + 1 = write_ts \/ \E s \in Sessions : HoldsWriteTs(s) /\ ts[s] = read_ts + 1
  BY <1>1 DEF SnapInv, RingExact, Released
<1>4. \A s \in Sessions : HoldsWriteTs(s) => read_ts < ts[s]
  BY DEF SnapInv, TsOK
<1> QED
  BY <1>1, <1>2, <1>3, <1>4 DEF Oracle!IsFrontier, Oracle!Writers

\* Every step of the version manager is a step of the oracle or invisible to it.
LEMMA OracleActions ==
  ASSUME SnapInv, NEW s \in Sessions, (\E m \in Modes : Begin(s, m)) \/ Step(s)
  PROVE  Oracle!Next \/ UNCHANGED Oracle!vars
<1> USE DEF SnapInv, GateInv, TypeOK, Oracle!vars
<1>1. ASSUME NEW m \in Modes, Begin(s, m)
      PROVE  Oracle!Next \/ UNCHANGED Oracle!vars
  BY <1>1 DEF Begin, Goto
<1>2. CASE EnterGate(s)
  BY <1>2 DEF EnterGate, Goto
<1>3. CASE BackOff(s)
  BY <1>3 DEF BackOff, Goto
<1>4. CASE Poll(s)
  BY <1>4 DEF Poll, Goto
<1>5. CASE ReadSnapshot(s)
  <2>1. /\ pc[s] = "admitted" /\ mode[s] = "read" /\ write_ts' = write_ts /\ mode' = mode
        /\ pc' = [pc EXCEPT ![s] = "running"] /\ ts' = [ts EXCEPT ![s] = read_ts]
    BY <1>5 DEF ReadSnapshot, Goto
  <2>2. \A r \in Sessions : ~(pc[r] = "running" /\ mode[r] = "update")
    BY <2>1 DEF UpdateExclusive, Inside, Updating
  <2>3. read_ts \in 0..write_ts
    BY DEF TsOK
  <2>4. Oracle!IsFrontier(read_ts)
    BY Frontier
  <2>5. Oracle!BeginRead(s)
    BY <2>1, <2>2, <2>3, <2>4 DEF Oracle!BeginRead, Oracle!Start
  <2> QED
    BY <2>5 DEF Oracle!Next
<1>6. CASE TakeInsertTs(s)
  <2>1. \A r \in Sessions : ~(pc[r] = "running" /\ mode[r] = "update")
    BY <1>6 DEF TakeInsertTs, Goto, UpdateExclusive, Inside, Updating
  <2>2. Oracle!BeginInsert(s)
    BY <1>6, <2>1 DEF TakeInsertTs, Goto, Oracle!BeginInsert, Oracle!Start
  <2> QED
    BY <2>2 DEF Oracle!Next
<1>7. CASE release_read_timestamp(s)
  <2>1. Oracle!End(s)
    BY <1>7 DEF release_read_timestamp, Goto, Finish, Oracle!End
  <2> QED
    BY <2>1 DEF Oracle!Next
<1>8. CASE PublishInsert(s)
  <2>1. Oracle!End(s)
    BY <1>8 DEF PublishInsert, Goto, Oracle!End
  <2> QED
    BY <2>1 DEF Oracle!Next
<1>9. CASE LeaveGate(s)
  BY <1>9 DEF LeaveGate, Goto, Finish
<1>10. CASE TakeSlot(s)
  BY <1>10 DEF TakeSlot, Goto
<1>11. CASE CloseGate(s)
  BY <1>11 DEF CloseGate, Goto
<1>12. CASE Drained(s)
  BY <1>12 DEF Drained, Goto
<1>13. CASE TakeUpdateTs(s)
  <2>1. \A r \in Sessions : pc[r] # "running"
    BY <1>13 DEF TakeUpdateTs, Goto, UpdateExclusive, Inside, Updating
  <2>2. Oracle!BeginUpdate(s)
    BY <1>13, <2>1 DEF TakeUpdateTs, Goto, ModeOK, Oracle!BeginUpdate, Oracle!Start
  <2> QED
    BY <2>2 DEF Oracle!Next
<1>14. CASE PublishUpdate(s)
  <2>1. Oracle!End(s)
    BY <1>14 DEF PublishUpdate, Goto, Oracle!End
  <2> QED
    BY <2>1 DEF Oracle!Next
<1>15. CASE ReopenGate(s)
  BY <1>15 DEF ReopenGate, Goto
<1>16. CASE FreeSlot(s)
  BY <1>16 DEF FreeSlot, Goto, Finish
<1>17. CASE RevertUpdate(s)
  <2>1. pc[s] = "running" /\ mode[s] = "update"
    BY <1>17 DEF RevertUpdate, Goto, Finish
  <2>2. write_ts = ts[s] + 1
    BY <2>1 DEF UpdateLast
  <2>3. Oracle!Revert(s)
    BY <1>17, <2>1, <2>2 DEF RevertUpdate, Goto, Oracle!Revert
  <2> QED
    BY <2>3 DEF Oracle!Next
<1> QED
  BY <1>1, <1>2, <1>3, <1>4, <1>5, <1>6, <1>7, <1>8, <1>9, <1>10, <1>11, <1>12, <1>13,
     <1>14, <1>15, <1>16, <1>17 DEF Step, QueryStep

(***************************************************************************)
(* The gate, the counters and the ring implement SnapshotOracle for every  *)
(* number of sessions and every ring size.                                 *)
(***************************************************************************)
THEOREM RefinesOracle == BoundedSpec => ImplementsOracle
<1>1. Init => Oracle!Init
  BY DEF Init, Oracle!Init
<1>2. ASSUME SnapInv, [Next /\ FitsRing']_vars PROVE [Oracle!Next]_(Oracle!vars)
  <2>1. CASE Next
    BY <1>2, <2>1, OracleActions DEF Next
  <2>2. CASE UNCHANGED vars
    BY <2>2 DEF vars, Oracle!vars
  <2> QED
    BY <1>2, <2>1, <2>2
<1>3. SnapInv /\ [Next /\ FitsRing']_vars => [Oracle!Next]_(Oracle!vars)
  BY <1>2
<1> QED
  BY <1>1, <1>3, SnapInvariant, PTL DEF BoundedSpec, ImplementsOracle, Oracle!Spec
=============================================================================
