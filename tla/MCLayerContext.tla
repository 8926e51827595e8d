--------------------------- MODULE MCLayerContext ---------------------------
(* Instances of LayerContext for TLC. *)
EXTENDS LayerContext, TLC

CONSTANTS t1, t2, instance, d1, d2, p1, p2

MCThread == {t1, t2}
MCOwner == {instance, d1, d2}
MCInstance == {instance}
MCPart == {p1, p2}
MCSymmetry ==
  Permutations(MCThread) \union Permutations({d1, d2}) \union Permutations(MCPart)
=============================================================================
