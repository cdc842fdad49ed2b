--------------------------- MODULE SnapshotOracle ---------------------------
(***************************************************************************)
(* What the version manager promises its sessions, without gate, counters  *)
(* or ring: writers get increasing timestamps, a reader's snapshot is the  *)
(* newest timestamp below which nothing is unfinished, and an update       *)
(* transaction runs alone.                                                 *)
(***************************************************************************)
EXTENDS Integers

CONSTANTS Sessions, InitTs

VARIABLES
  next,   \* the next write timestamp
  phase,  \* the transaction each session runs, or "idle"
  at      \* its timestamp, 0 when idle

vars == <<next, phase, at>>

Writers == {s \in Sessions : phase[s] \in {"insert", "update"}}

\* The newest snapshot that covers finished transactions only.
IsFrontier(f) ==
  /\ f < next
  /\ \A s \in Writers : f < at[s]
  /\ f + 1 = next \/ \E s \in Writers : f + 1 = at[s]

Init ==
  /\ next = InitTs + 1
  /\ phase = [s \in Sessions |-> "idle"]
  /\ at = [s \in Sessions |-> 0]

Start(s, p, t) ==
  /\ phase[s] = "idle"
  /\ phase' = [phase EXCEPT ![s] = p]
  /\ at' = [at EXCEPT ![s] = t]

BeginRead(s) ==
  /\ \A r \in Sessions : phase[r] # "update"
  /\ \E f \in 0..next : IsFrontier(f) /\ Start(s, "read", f)
  /\ UNCHANGED next

BeginInsert(s) ==
  /\ \A r \in Sessions : phase[r] # "update"
  /\ Start(s, "insert", next)
  /\ next' = next + 1

BeginUpdate(s) ==
  /\ \A r \in Sessions : phase[r] = "idle"
  /\ Start(s, "update", next)
  /\ next' = next + 1

End(s) ==
  /\ phase[s] # "idle"
  /\ phase' = [phase EXCEPT ![s] = "idle"]
  /\ at' = [at EXCEPT ![s] = 0]
  /\ UNCHANGED next

\* An update gives its timestamp back: it is the last one handed out.
Revert(s) ==
  /\ phase[s] = "update"
  /\ phase' = [phase EXCEPT ![s] = "idle"]
  /\ at' = [at EXCEPT ![s] = 0]
  /\ next' = at[s]

Next ==
  \E s \in Sessions :
    BeginRead(s) \/ BeginInsert(s) \/ BeginUpdate(s) \/ End(s) \/ Revert(s)

Spec == Init /\ [][Next]_vars
=============================================================================
