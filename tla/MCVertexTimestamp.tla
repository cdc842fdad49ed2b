------------------------- MODULE MCVertexTimestamp -------------------------
(***************************************************************************)
(* VertexTimestamp for TLC: a table for a few vertices.                    *)
(***************************************************************************)
EXTENDS VertexTimestamp
=============================================================================
