----------------------------- MODULE VertexMap -----------------------------
(***************************************************************************)
(* What the timestamps of a vertex table promise: every vertex has one,    *)
(* the timestamp it appeared at, or DELETED.  A reset, which compactions   *)
(* and checkpoints make, shows the vertices that are there to everybody    *)
(* and changes nothing else.                                               *)
(***************************************************************************)
EXTENDS Integers

CONSTANTS Limit, DELETED

VARIABLE vts

Vids == 0..(Limit - 1)
Times == 0..(DELETED - 1)

MInit == vts = [v \in Vids |-> DELETED]

Insert(v, ts) ==
  /\ vts[v] = DELETED
  /\ vts' = [vts EXCEPT ![v] = ts]

Remove(v) ==
  /\ vts[v] # DELETED
  /\ vts' = [vts EXCEPT ![v] = DELETED]

ResetAll == vts' = [v \in Vids |-> IF vts[v] = DELETED THEN DELETED ELSE 0]

MNext ==
  \/ \E v \in Vids : (\E ts \in Times : Insert(v, ts)) \/ Remove(v)
  \/ ResetAll

MSpec == MInit /\ [][MNext]_vts
=============================================================================
