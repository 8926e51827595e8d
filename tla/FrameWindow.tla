----------------------------- MODULE FrameWindow -----------------------------
(***************************************************************************)
(* What pacing promises for one swapchain (swapchain_pacer.hh and          *)
(* config.hh, queue_depth): the application starts a frame only while at   *)
(* most Depth of the frames it has presented are unfinished on the GPU.    *)
(* Nothing is said of queues, spans, or of how the layer waits.            *)
(***************************************************************************)
EXTENDS Naturals, FiniteSets

CONSTANTS
  Frame,         \* identities of frames
  Depth          \* queue_depth

VARIABLES
  outstanding,   \* frames presented, counted, and unfinished on the GPU
  blocked,       \* the application is inside vkQueuePresentKHR
  enabled        \* the effect is switched on

vars == <<outstanding, blocked, enabled>>

Init ==
  /\ outstanding = {}
  /\ blocked = FALSE
  /\ enabled \in BOOLEAN

Toggle ==
  /\ enabled' = ~enabled
  /\ UNCHANGED <<outstanding, blocked>>

Begin ==
  /\ ~blocked
  /\ blocked' = TRUE
  /\ UNCHANGED <<outstanding, enabled>>

\* One frame is counted for one present; none if the GPU has already done it.
Count(f) ==
  /\ blocked
  /\ f \notin outstanding
  /\ outstanding' = outstanding \union {f}
  /\ UNCHANGED <<blocked, enabled>>

Finish(f) ==
  /\ f \in outstanding
  /\ outstanding' = outstanding \ {f}
  /\ UNCHANGED <<blocked, enabled>>

Resume ==
  /\ blocked
  /\ Cardinality(outstanding) <= Depth
  /\ blocked' = FALSE
  /\ UNCHANGED <<outstanding, enabled>>

\* A present finds the effect switched off, or the swapchain is replaced
\* between two presents: counting starts anew.
Abandon ==
  /\ blocked => ~enabled
  /\ outstanding' = {}
  /\ blocked' = FALSE
  /\ UNCHANGED enabled

Next ==
  \/ Begin \/ Resume \/ Abandon \/ Toggle
  \/ \E f \in Frame : Count(f) \/ Finish(f)

Spec == Init /\ [][Next]_vars
=============================================================================
