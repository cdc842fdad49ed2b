--------------------------- MODULE VersionManager ---------------------------
(***************************************************************************)
(* TPVersionManager: the timestamp oracle and admission gate of the        *)
(* transactional service (src/transaction/version_manager.cc).             *)
(*                                                                         *)
(* Every session runs at most one transaction at a time.  Read and insert  *)
(* transactions pass the gate together; an update transaction closes the   *)
(* gate (it subtracts thread_num_ from pending_reqs_) and waits until      *)
(* everyone has left.  One step of the model is one access to a shared     *)
(* atomic.  The sections under lock_ are one step each: buf_ is only       *)
(* touched under lock_, and read_ts_ is stored once, at their end.         *)
(***************************************************************************)
EXTENDS Integers, FiniteSets

CONSTANTS
  Sessions,   \* the sessions of the pool; thread_num_ is their number
  RingSize,   \* ring_buf_size, the number of bits of buf_
  InitTs,     \* db_.last_ts_, the timestamp recovery ended with
  MaxTs       \* bound: no write transaction begins once write_ts_ exceeds it

ASSUME SessionsAssumption == IsFiniteSet(Sessions) /\ Sessions # {}
ASSUME RingAssumption == RingSize \in Nat \ {0}
ASSUME TsAssumption == InitTs \in Nat /\ MaxTs \in Nat

VARIABLES
  write_ts,             \* next timestamp to hand to a writer
  read_ts,              \* snapshot handed to readers
  pending_reqs,         \* sessions in the gate, minus thread_num_ while closed
  pending_update_reqs,  \* 1 while an update transaction owns the update slot
  buf,                  \* indices of the set bits of buf_
  pc,                   \* where each session is
  mode,                 \* the kind of transaction it runs
  ts                    \* the timestamp it was given, 0 after its release

vars == <<write_ts, read_ts, pending_reqs, pending_update_reqs, buf, pc, mode, ts>>

thread_num == Cardinality(Sessions)

Modes == {"read", "insert", "update"}

\* gate      about to fetch_add pending_reqs_
\* rejected  saw a negative count, about to take its increment back
\* asleep    polling pending_reqs_ every 100us
\* admitted  in the gate, its timestamp not read yet
\* running   holds its timestamp
\* leaving   an insert that published its timestamp and is still counted
\* slot      about to compare-and-swap pending_update_reqs_
\* close     about to subtract thread_num_
\* drain     waiting for pending_reqs_ = -thread_num_
\* take      alone, about to fetch its timestamp
\* reopen    an update that published, about to add thread_num_ back
\* free      about to clear pending_update_reqs_
PCs == {"idle", "gate", "rejected", "asleep", "admitted", "running", "leaving",
        "slot", "close", "drain", "take", "reopen", "free"}

index(t) == t % RingSize

(***************************************************************************)
(* TPVersionManager() followed by init_ts(last_ts_, thread_num).           *)
(***************************************************************************)
Init ==
  /\ write_ts = InitTs + 1
  /\ read_ts = InitTs
  /\ pending_reqs = 0
  /\ pending_update_reqs = 0
  /\ buf = {}
  /\ pc = [s \in Sessions |-> "idle"]
  /\ mode = [s \in Sessions |-> "none"]
  /\ ts = [s \in Sessions |-> 0]

Goto(s, from, to) ==
  /\ pc[s] = from
  /\ pc' = [pc EXCEPT ![s] = to]

\* The transaction forgets its timestamp (INVALID_TIMESTAMP) and is over.
Finish(s, from) ==
  /\ Goto(s, from, "idle")
  /\ mode' = [mode EXCEPT ![s] = "none"]
  /\ ts' = [ts EXCEPT ![s] = 0]

(***************************************************************************)
(* NeugDBSession::Eval picks the transaction by the access mode and calls  *)
(* the matching acquire function.                                          *)
(***************************************************************************)
Begin(s, m) ==
  /\ m # "read" => write_ts <= MaxTs
  /\ Goto(s, "idle", IF m = "update" THEN "slot" ELSE "gate")
  /\ mode' = [mode EXCEPT ![s] = m]
  /\ UNCHANGED <<write_ts, read_ts, pending_reqs, pending_update_reqs, buf, ts>>

(***************************************************************************)
(* acquire_read_timestamp and acquire_insert_timestamp                     *)
(***************************************************************************)
EnterGate(s) ==
  /\ Goto(s, "gate", IF pending_reqs >= 0 THEN "admitted" ELSE "rejected")
  /\ pending_reqs' = pending_reqs + 1
  /\ UNCHANGED <<write_ts, read_ts, pending_update_reqs, buf, mode, ts>>

\* Fault: a rejected session keeps its increment.
BackOff_KeepsCount(s) ==
  /\ Goto(s, "rejected", "asleep")
  /\ UNCHANGED <<write_ts, read_ts, pending_reqs, pending_update_reqs, buf, mode, ts>>

BackOff(s) ==
  /\ Goto(s, "rejected", "asleep")
  /\ pending_reqs' = pending_reqs - 1
  /\ UNCHANGED <<write_ts, read_ts, pending_update_reqs, buf, mode, ts>>

Poll(s) ==
  /\ pending_reqs >= 0
  /\ Goto(s, "asleep", "gate")
  /\ UNCHANGED <<write_ts, read_ts, pending_reqs, pending_update_reqs, buf, mode, ts>>

ReadSnapshot(s) ==
  /\ mode[s] = "read"
  /\ Goto(s, "admitted", "running")
  /\ ts' = [ts EXCEPT ![s] = read_ts]
  /\ UNCHANGED <<write_ts, read_ts, pending_reqs, pending_update_reqs, buf, mode>>

TakeInsertTs(s) ==
  /\ mode[s] = "insert"
  /\ Goto(s, "admitted", "running")
  /\ ts' = [ts EXCEPT ![s] = write_ts]
  /\ write_ts' = write_ts + 1
  /\ UNCHANGED <<read_ts, pending_reqs, pending_update_reqs, buf, mode>>

release_read_timestamp(s) ==
  /\ mode[s] = "read"
  /\ Finish(s, "running")
  /\ pending_reqs' = pending_reqs - 1
  /\ UNCHANGED <<write_ts, read_ts, pending_update_reqs, buf>>

(***************************************************************************)
(* release_insert_timestamp: the holder of the next timestamp advances     *)
(* read_ts_ over every timestamp whose bit is set, clearing the bits; any  *)
(* other holder leaves its bit behind.  The loop clears what it passes, so *)
(* it runs at most RingSize times.                                         *)
(***************************************************************************)
Passed(t, u) == {index(v) : v \in (t + 1)..u}

AdvancesTo(t, u) ==
  /\ Passed(t, u) \subseteq buf
  /\ index(u + 1) \notin buf \ Passed(t, u)

\* Fault: the while loop over the released timestamps is missing.
PublishInsert_NoLoop(s) ==
  /\ mode[s] = "insert"
  /\ Goto(s, "running", "leaving")
  /\ IF ts[s] = read_ts + 1
     THEN read_ts' = ts[s] /\ UNCHANGED buf
     ELSE buf' = buf \union {index(ts[s])} /\ UNCHANGED read_ts
  /\ UNCHANGED <<write_ts, pending_reqs, pending_update_reqs, mode, ts>>

\* Fault: every insert stores its own timestamp, in whatever order they end.
PublishInsert_OutOfOrder(s) ==
  /\ mode[s] = "insert"
  /\ Goto(s, "running", "leaving")
  /\ read_ts' = ts[s]
  /\ UNCHANGED <<write_ts, pending_reqs, pending_update_reqs, buf, mode, ts>>

PublishInsert(s) ==
  /\ mode[s] = "insert"
  /\ Goto(s, "running", "leaving")
  /\ IF ts[s] = read_ts + 1
     THEN \E u \in ts[s]..(ts[s] + RingSize) :
            /\ AdvancesTo(ts[s], u)
            /\ read_ts' = u
            /\ buf' = buf \ Passed(ts[s], u)
     ELSE /\ buf' = buf \union {index(ts[s])}
          /\ UNCHANGED read_ts
  /\ UNCHANGED <<write_ts, pending_reqs, pending_update_reqs, mode, ts>>

LeaveGate(s) ==
  /\ Finish(s, "leaving")
  /\ pending_reqs' = pending_reqs - 1
  /\ UNCHANGED <<write_ts, read_ts, pending_update_reqs, buf>>

(***************************************************************************)
(* acquire_update_timestamp                                                *)
(***************************************************************************)
TakeSlot(s) ==
  /\ pending_update_reqs = 0
  /\ Goto(s, "slot", "close")
  /\ pending_update_reqs' = 1
  /\ UNCHANGED <<write_ts, read_ts, pending_reqs, buf, mode, ts>>

CloseGate(s) ==
  /\ Goto(s, "close", IF pending_reqs = 0 THEN "take" ELSE "drain")
  /\ pending_reqs' = pending_reqs - thread_num
  /\ UNCHANGED <<write_ts, read_ts, pending_update_reqs, buf, mode, ts>>

\* Fault: the wait ends as soon as the gate is closed.
Drained_Early(s) ==
  /\ pending_reqs < 0
  /\ Goto(s, "drain", "take")
  /\ UNCHANGED <<write_ts, read_ts, pending_reqs, pending_update_reqs, buf, mode, ts>>

Drained(s) ==
  /\ pending_reqs = -thread_num
  /\ Goto(s, "drain", "take")
  /\ UNCHANGED <<write_ts, read_ts, pending_reqs, pending_update_reqs, buf, mode, ts>>

TakeUpdateTs(s) ==
  /\ Goto(s, "take", "running")
  /\ ts' = [ts EXCEPT ![s] = write_ts]
  /\ write_ts' = write_ts + 1
  /\ UNCHANGED <<read_ts, pending_reqs, pending_update_reqs, buf, mode>>

(***************************************************************************)
(* release_update_timestamp and revert_update_timestamp.  A revert whose   *)
(* compare-and-swap fails returns without reopening the gate.              *)
(***************************************************************************)
PublishUpdate(s) ==
  /\ mode[s] = "update"
  /\ Goto(s, "running", "reopen")
  /\ IF ts[s] = read_ts + 1
     THEN read_ts' = ts[s] /\ UNCHANGED buf
     ELSE buf' = buf \union {index(ts[s])} /\ UNCHANGED read_ts
  /\ UNCHANGED <<write_ts, pending_reqs, pending_update_reqs, mode, ts>>

\* Fault: the timestamp is not given back.
RevertUpdate_KeepsTs(s) ==
  /\ mode[s] = "update"
  /\ Goto(s, "running", "reopen")
  /\ UNCHANGED <<write_ts, read_ts, pending_reqs, pending_update_reqs, buf, mode, ts>>

RevertUpdate(s) ==
  /\ mode[s] = "update"
  /\ IF write_ts = ts[s] + 1
     THEN Goto(s, "running", "reopen") /\ write_ts' = ts[s] /\ UNCHANGED <<mode, ts>>
     ELSE Finish(s, "running") /\ UNCHANGED write_ts
  /\ UNCHANGED <<read_ts, pending_reqs, pending_update_reqs, buf>>

\* Fault: thread_num_ is not added back.
ReopenGate_Missing(s) ==
  /\ Goto(s, "reopen", "free")
  /\ UNCHANGED <<write_ts, read_ts, pending_reqs, pending_update_reqs, buf, mode, ts>>

ReopenGate(s) ==
  /\ Goto(s, "reopen", "free")
  /\ pending_reqs' = pending_reqs + thread_num
  /\ UNCHANGED <<write_ts, read_ts, pending_update_reqs, buf, mode, ts>>

FreeSlot(s) ==
  /\ Finish(s, "free")
  /\ pending_update_reqs' = 0
  /\ UNCHANGED <<write_ts, read_ts, pending_reqs, buf>>

-----------------------------------------------------------------------------

\* The steps of a query's transaction once it has begun.
QueryStep(s) ==
  \/ EnterGate(s) \/ BackOff(s) \/ Poll(s)
  \/ ReadSnapshot(s) \/ TakeInsertTs(s)
  \/ release_read_timestamp(s) \/ PublishInsert(s) \/ LeaveGate(s)
  \/ TakeSlot(s) \/ CloseGate(s) \/ Drained(s) \/ TakeUpdateTs(s)
  \/ PublishUpdate(s) \/ ReopenGate(s) \/ FreeSlot(s)

\* Only an aborted CompactTransaction reverts; its committed form, which also
\* resets the manager, is in AutoCompaction.
Step(s) == QueryStep(s) \/ RevertUpdate(s)

Next == \E s \in Sessions : (\E m \in Modes : Begin(s, m)) \/ Step(s)

Spec == Init /\ [][Next]_vars

(***************************************************************************)
(* The ring holds one bit per outstanding timestamp.  BoundedSpec is the   *)
(* behaviour in which the outstanding timestamps fit in it; the code does  *)
(* not enforce this (ring_buf_size is 2^20).                               *)
(***************************************************************************)
FitsRing == write_ts - read_ts <= RingSize

BoundedSpec == Init /\ [][Next /\ FitsRing']_vars

(***************************************************************************)
(* A thread that runs keeps running, and transactions end: ReadTransaction,*)
(* InsertTransaction and UpdateTransaction release in their destructors.   *)
(* Nothing makes a client begin a transaction.                             *)
(***************************************************************************)
Fairness == \A s \in Sessions : WF_vars(Step(s) /\ FitsRing')

FairSpec == BoundedSpec /\ Fairness

-----------------------------------------------------------------------------

TypeOK ==
  /\ write_ts \in Nat
  /\ read_ts \in Nat
  /\ pending_reqs \in Int
  /\ pending_update_reqs \in {0, 1}
  /\ buf \subseteq 0..(RingSize - 1)
  /\ pc \in [Sessions -> PCs]
  /\ mode \in [Sessions -> Modes \union {"none"}]
  /\ ts \in [Sessions -> Nat]

\* Counted as a reader or an inserter that may touch the graph.
Inside(s) == pc[s] \in {"admitted", "leaving"} \/ (pc[s] = "running" /\ mode[s] # "update")

\* Past the wait of acquire_update_timestamp and not yet released.
Updating(s) == pc[s] \in {"take", "reopen"} \/ (pc[s] = "running" /\ mode[s] = "update")

\* Holds a timestamp that it has neither published nor reverted.
HoldsWriteTs(s) == pc[s] = "running" /\ mode[s] # "read"

\* From the compare-and-swap that takes the update slot to its store of 0.
InSlot(s) ==
  \/ pc[s] \in {"close", "drain", "take", "reopen", "free"}
  \/ pc[s] = "running" /\ mode[s] = "update"

(***************************************************************************)
(* The compare-and-swap on pending_update_reqs_ admits one update          *)
(* transaction at a time, from before it closes the gate until after it    *)
(* has reopened it.                                                        *)
(***************************************************************************)
SlotExclusive == \A r, s \in Sessions : InSlot(r) /\ InSlot(s) => r = s

(***************************************************************************)
(* acquire_update_timestamp returns only when the session is alone, and it *)
(* stays alone until the gate is reopened: a running update transaction    *)
(* never overlaps a read, an insert or another update, whatever increments *)
(* rejected sessions leave in pending_reqs_ for a while.                   *)
(***************************************************************************)
UpdateExclusive ==
  \A s, r \in Sessions : Updating(s) /\ r # s => ~Inside(r) /\ ~Updating(r)

(***************************************************************************)
(* A read timestamp covers finished work only: every transaction that      *)
(* still holds a write timestamp is newer than read_ts_ and than every     *)
(* snapshot handed to a running reader, and the next one will be too.      *)
(***************************************************************************)
SnapshotComplete ==
  /\ read_ts < write_ts
  /\ \A s \in Sessions : HoldsWriteTs(s) => read_ts < ts[s]
  /\ \A r, s \in Sessions :
       pc[r] = "running" /\ mode[r] = "read" /\ HoldsWriteTs(s) => ts[r] < ts[s]

(***************************************************************************)
(* No two transactions hold the same write timestamp, and none holds one   *)
(* that is still to be handed out.                                         *)
(***************************************************************************)
UniqueTimestamps ==
  \A r, s \in Sessions :
    HoldsWriteTs(r) /\ HoldsWriteTs(s) => ts[r] < write_ts /\ (r # s => ts[r] # ts[s])

(***************************************************************************)
(* release_insert_timestamp leaves no timestamp behind: whenever no        *)
(* transaction holds a write timestamp, read_ts_ has caught up with        *)
(* write_ts_ and every bit of the ring is clear again.                     *)
(***************************************************************************)
NothingStranded ==
  (\A s \in Sessions : ~HoldsWriteTs(s)) => read_ts = write_ts - 1 /\ buf = {}

(***************************************************************************)
(* A running update transaction holds exactly the next timestamp, so the   *)
(* "read ts is expected to be" branch of release_update_timestamp is never *)
(* taken and revert_update_timestamp never fails (a failed revert would    *)
(* leave the gate closed for good).                                        *)
(***************************************************************************)
UpdateIsNext ==
  \A s \in Sessions :
    HoldsWriteTs(s) /\ mode[s] = "update" => ts[s] = read_ts + 1 /\ write_ts = ts[s] + 1

\* Its increment of pending_reqs_ is in force.
Counts(s) == Inside(s) \/ pc[s] = "rejected"

\* Its subtraction of thread_num_ is in force.
Closes(s) == Updating(s) \/ pc[s] = "drain"

(***************************************************************************)
(* pending_reqs_ is the number of sessions counted in the gate, less       *)
(* thread_num_ while an update transaction keeps it closed: no path        *)
(* through the retries, the rejections and the two kinds of release leaks  *)
(* an increment.                                                           *)
(***************************************************************************)
GateCount ==
  pending_reqs =
    Cardinality({s \in Sessions : Counts(s)})
      - (IF \E s \in Sessions : Closes(s) THEN thread_num ELSE 0)

\* The timestamps handed out beyond read_ts_ that nobody holds any more.
Released ==
  {t \in (read_ts + 1)..(write_ts - 1) :
     \A s \in Sessions : HoldsWriteTs(s) => ts[s] # t}

(***************************************************************************)
(* The set bits of the ring are those of the released timestamps beyond    *)
(* read_ts_, and read_ts_ only stops below a timestamp that is still held. *)
(***************************************************************************)
RingExact ==
  /\ buf = {index(t) : t \in Released}
  /\ read_ts + 1 \notin Released

(***************************************************************************)
(* read_ts_ never moves back and never skips a timestamp that a            *)
(* transaction still holds.                                                *)
(***************************************************************************)
SnapshotAdvances ==
  [][/\ read_ts' >= read_ts
     /\ \A s \in Sessions : HoldsWriteTs(s) /\ read_ts' >= ts[s] => pc'[s] # pc[s]]_vars

(***************************************************************************)
(* An update transaction that has closed the gate gets its timestamp:      *)
(* rejected sessions take their increments back and stay out.              *)
(***************************************************************************)
UpdateDrains == \A s \in Sessions : pc[s] = "drain" ~> pc[s] = "running"

(***************************************************************************)
(* A session turned away from the gate gets in once update transactions    *)
(* stop coming (while they keep coming, the poll can miss every opening).  *)
(***************************************************************************)
GateReopens ==
  <>[](\A s \in Sessions : ~InSlot(s))
    => \A s \in Sessions : pc[s] = "asleep" ~> pc[s] = "running"

(***************************************************************************)
(* The gate, the counters and the ring implement the oracle: with the      *)
(* running sessions seen as its transactions, every step is a step of      *)
(* SnapshotOracle or changes nothing in it.  In particular the read_ts_    *)
(* that the ring yields is the newest complete snapshot, never an older    *)
(* one.                                                                    *)
(***************************************************************************)
Oracle == INSTANCE SnapshotOracle WITH
  next <- write_ts,
  phase <- [s \in Sessions |-> IF pc[s] = "running" THEN mode[s] ELSE "idle"],
  at <- [s \in Sessions |-> IF pc[s] = "running" THEN ts[s] ELSE 0]

ImplementsOracle == Oracle!Spec
=============================================================================
