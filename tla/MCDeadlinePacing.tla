-------------------------- MODULE MCDeadlinePacing --------------------------
(* Instances of DeadlinePacing for TLC. *)
EXTENDS DeadlinePacing

MCRefresh == {2, 3}
MCWork == {1, 2}
MCSkew == {0, 6}
=============================================================================
