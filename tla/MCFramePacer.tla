---------------------------- MODULE MCFramePacer ----------------------------
(* Instances of FramePacer for TLC. *)
EXTENDS FramePacer

CONSTANTS t1, t2, s1, s2

MCThread == {t1, t2}
MCOneThread == {t1}
MCSwapchain == {s1, s2}
MCOneSwapchain == {s1}

\* Presents of one swapchain, of either, and of both.
MCOneOnly == {<<s1>>}
MCAll == {<<s1>>, <<s2>>, <<s1, s2>>}
=============================================================================
