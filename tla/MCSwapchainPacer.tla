-------------------------- MODULE MCSwapchainPacer --------------------------
(* Instances of SwapchainPacer for TLC. *)
EXTENDS SwapchainPacer

CONSTANTS s1, s2, q1, q2, x1, x2, x3

MCSwapchain == {s1, s2}

MCQueue == {q1, q2}
MCThreeSpans == {x1, x2, x3}
MCBothModes == {"off", "paced"}
=============================================================================
