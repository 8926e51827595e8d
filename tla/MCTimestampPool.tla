--------------------------- MODULE MCTimestampPool ---------------------------
(* Instances of TimestampPool for TLC. *)
EXTENDS TimestampPool

CONSTANTS c1, c2, c3, i1

MCChunk == {c1, c2, c3}
MCIndex == {i1}
=============================================================================
