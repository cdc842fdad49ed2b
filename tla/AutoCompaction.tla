--------------------------- MODULE AutoCompaction ---------------------------
(***************************************************************************)
(* The version manager with the compaction thread of NeugDBService beside  *)
(* the sessions.  A compaction is an update transaction that, after        *)
(* release_update_timestamp has let everyone back in, resets the version   *)
(* manager with clear(), one store at a time                               *)
(* (src/transaction/compact_transaction.cc).                               *)
(***************************************************************************)
EXTENDS VersionManager

CONSTANT NoSession

VARIABLES
  compactor,  \* the session whose transaction is the compaction
  committed   \* the compaction committed; clear() is still to finish

cvars == <<vars, compactor, committed>>

CInit == Init /\ compactor = NoSession /\ committed = FALSE

\* startCompactThreadIfNeeded and GetCompactTransaction: there is one thread.
BeginCompact(s) ==
  /\ compactor = NoSession
  /\ Begin(s, "update")
  /\ compactor' = s
  /\ UNCHANGED committed

\* CompactTransaction::Commit up to release_update_timestamp.
CommitCompact(s) ==
  /\ s = compactor
  /\ PublishUpdate(s)
  /\ committed' = TRUE
  /\ UNCHANGED compactor

\* CompactTransaction::Abort, after a failed append to the log.
AbortCompact(s) ==
  /\ s = compactor
  /\ RevertUpdate(s)
  /\ compactor' = IF pc'[s] = "idle" THEN NoSession ELSE s
  /\ UNCHANGED committed

\* The last store of release_update_timestamp or revert_update_timestamp.
FreeCompact(s) ==
  /\ s = compactor
  /\ IF committed
     THEN Goto(s, "free", "clear_write_ts") /\ UNCHANGED <<mode, ts, compactor>>
     ELSE Finish(s, "free") /\ compactor' = NoSession
  /\ pending_update_reqs' = 0
  /\ UNCHANGED <<write_ts, read_ts, pending_reqs, buf, committed>>

\* clear(): four stores.
clear(s) ==
  \/ /\ Goto(s, "clear_write_ts", "clear_read_ts")
     /\ write_ts' = 1
     /\ UNCHANGED <<read_ts, pending_reqs, pending_update_reqs, buf, mode, ts,
                    compactor, committed>>
  \/ /\ Goto(s, "clear_read_ts", "clear_pending_reqs")
     /\ read_ts' = 0
     /\ UNCHANGED <<write_ts, pending_reqs, pending_update_reqs, buf, mode, ts,
                    compactor, committed>>
  \/ /\ Goto(s, "clear_pending_reqs", "clear_buf")
     /\ pending_reqs' = 0
     /\ UNCHANGED <<write_ts, read_ts, pending_update_reqs, buf, mode, ts,
                    compactor, committed>>
  \/ /\ Finish(s, "clear_buf")
     /\ buf' = {}
     /\ compactor' = NoSession
     /\ committed' = FALSE
     /\ UNCHANGED <<write_ts, read_ts, pending_reqs, pending_update_reqs>>

\* The steps a compaction shares with every update transaction.
AcquireOrReopen(s) ==
  /\ TakeSlot(s) \/ CloseGate(s) \/ Drained(s) \/ TakeUpdateTs(s) \/ ReopenGate(s)
  /\ UNCHANGED <<compactor, committed>>

Query(s) ==
  /\ s # compactor
  /\ (\E m \in Modes : Begin(s, m)) \/ QueryStep(s)
  /\ UNCHANGED <<compactor, committed>>

CNext ==
  \E s \in Sessions :
    \/ Query(s)
    \/ BeginCompact(s)
    \/ s = compactor /\ AcquireOrReopen(s)
    \/ CommitCompact(s)
    \/ AbortCompact(s)
    \/ FreeCompact(s)
    \/ clear(s)

CSpec == CInit /\ [][CNext]_cvars
=============================================================================
