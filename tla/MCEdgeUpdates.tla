--------------------------- MODULE MCEdgeUpdates ---------------------------
(* Instances of EdgeUpdates: one edge table within a label, or between two. *)
EXTENDS EdgeUpdates

MCWithin == {<<"A", "A">>}

MCBetween == {<<"A", "B">>}
=============================================================================
