--------------------------- MODULE SwapchainPacer ---------------------------
(***************************************************************************)
(* The bound on outstanding GPU work: queues collect what is submitted     *)
(* into spans, a present takes the spans of all queues as its frame, and   *)
(* SwapchainPacer::pace lets the application go on once the frame that is   *)
(* queue_depth presents back has completed.  The hotkey thread switches    *)
(* the effect on and off; each swapchain is presented by one thread at a   *)
(* time, and different swapchains by different threads.                    *)
(*                                                                         *)
(* A span is what TimestampPool calls a span.  Only its state matters      *)
(* here: `running' holds the spans with a submission the GPU has not       *)
(* completed.                                                              *)
(*                                                                         *)
(* Abstracted: times and what is computed from them (the measured work,    *)
(* the hold that follows a present that went through), display feedback    *)
(* (FramePacer), and the locks, none of which the steps below hold while   *)
(* they wait except FramePacer::mutex, shared.                             *)
(***************************************************************************)
EXTENDS Naturals, Sequences, FiniteSets

CONSTANTS
  Swapchain,
  Queue,         \* the graphics queues, which are the ones tracked
  Span,          \* identities of spans
  QueueDepth,    \* config.queue_depth
  Mode,          \* the values config.mode may have: "off" and "paced"
  NoSpan

ASSUME PacerAssumption ==
  /\ QueueDepth \in Nat
  /\ Mode \subseteq {"off", "paced"}
  /\ NoSpan \notin Span

VARIABLES
  mode,      \* config.mode; any pacing mode other than Off is "paced"
  enabled,   \* LayerContext::effect_enabled
  tracked,   \* QueueTracker::span of each queue
  running,   \* the spans the GPU has not completed
  pc,        \* where the thread that presents a swapchain is
  frame,     \* the work the present under way has collected
  pending,   \* SwapchainPacer::pending
  waiting,   \* the frame popped from it that is being waited for
  outstanding  \* history: the frames it has taken up since it was created or
               \* switched off, and the GPU has not completed

deviceVars == <<mode, enabled, tracked, running>>
pacerVars == <<pc, frame, pending, waiting>>
vars == <<deviceVars, pacerVars, outstanding>>

Held(s) ==
  frame[s] \union waiting[s] \union UNION {pending[s][i] : i \in DOMAIN pending[s]}
Tracked == {tracked[q] : q \in Queue} \ {NoSpan}

\* A span object that exists, or whose work still runs.
InUse == running \union Tracked \union UNION {Held(s) : s \in Swapchain}

Init ==
  /\ mode \in Mode
  /\ enabled \in BOOLEAN
  /\ tracked = [q \in Queue |-> NoSpan]
  /\ running = {}
  /\ pc = [s \in Swapchain |-> "app"]
  /\ frame = [s \in Swapchain |-> {}]
  /\ pending = [s \in Swapchain |-> <<>>]
  /\ waiting = [s \in Swapchain |-> {}]
  /\ outstanding = [s \in Swapchain |-> {}]

Goto(s, where) == pc' = [pc EXCEPT ![s] = where]

-----------------------------------------------------------------------------
\* Wrong on purpose: the span is updated even where there is none yet.
SubmitUpdateOnly(q) ==
  /\ enabled
  /\ running' = running \union {tracked[q]}
  /\ UNCHANGED <<mode, enabled, tracked, pacerVars, outstanding>>

\* vkQueueSubmit: with the effect on, the submission joins the span of its
\* queue.  With the effect off it is passed on untouched and nobody will know
\* of it, so there is no step for it.
Submit(q) ==
  /\ enabled
  /\ \E x \in IF tracked[q] = NoSpan THEN Span \ InUse ELSE {tracked[q]} :
       /\ tracked' = [tracked EXCEPT ![q] = x]
       /\ running' = running \union {x}
  /\ UNCHANGED <<mode, enabled, pacerVars, outstanding>>

\* The GPU (external) completes all that a span stands for.
GpuFinish(x) ==
  /\ x \in running
  /\ running' = running \ {x}
  /\ outstanding' = [s \in Swapchain |->
                       {w \in outstanding[s] : w \intersect running' # {}}]
  /\ UNCHANGED <<mode, enabled, tracked, pacerVars>>

\* The hotkey is pressed.
Toggle ==
  /\ enabled' = ~enabled
  /\ UNCHANGED <<mode, tracked, running, pacerVars, outstanding>>

-----------------------------------------------------------------------------
(* vkQueuePresentKHR, once the driver has answered. *)

\* Wrong on purpose: the spans are copied, not taken.
CollectCopies(s) ==
  /\ pc[s] = "app"
  /\ Goto(s, "pacing")
  /\ frame' = [frame EXCEPT ![s] = Tracked]
  /\ UNCHANGED <<deviceVars, pending, waiting, outstanding>>

\* Wrong on purpose: only one of the queues contributes to the frame.
CollectOneQueue(s) ==
  /\ pc[s] = "app"
  /\ Goto(s, "pacing")
  /\ frame' = [frame EXCEPT ![s] = {tracked[CHOOSE q \in Queue : TRUE]} \ {NoSpan}]
  /\ tracked' = [q \in Queue |-> NoSpan]
  /\ UNCHANGED <<mode, enabled, running, pending, waiting, outstanding>>

\* FramePacer::collect_work takes the spans of every queue, whichever swapchain
\* is presented.
Collect(s) ==
  /\ pc[s] = "app"
  /\ Goto(s, "pacing")
  /\ frame' = [frame EXCEPT ![s] = Tracked]
  /\ tracked' = [q \in Queue |-> NoSpan]
  /\ UNCHANGED <<mode, enabled, running, pending, waiting, outstanding>>

\* With pacing off the frame is dropped.
PaceOff(s) ==
  /\ pc[s] = "pacing"
  /\ mode = "off"
  /\ Goto(s, "app")
  /\ frame' = [frame EXCEPT ![s] = {}]
  /\ UNCHANGED <<deviceVars, pending, waiting, outstanding>>

\* With the effect switched off it is dropped with all that is pending.
PaceDisabled(s) ==
  /\ pc[s] = "pacing"
  /\ mode # "off"
  /\ ~enabled
  /\ Goto(s, "app")
  /\ frame' = [frame EXCEPT ![s] = {}]
  /\ pending' = [pending EXCEPT ![s] = <<>>]
  /\ outstanding' = [outstanding EXCEPT ![s] = {}]
  /\ UNCHANGED <<deviceVars, waiting>>

\* Otherwise it joins the pending frames, even if nothing was submitted.
Push(s) ==
  /\ pc[s] = "pacing"
  /\ mode # "off"
  /\ enabled
  /\ Goto(s, "bounding")
  /\ pending' = [pending EXCEPT ![s] = Append(@, frame[s])]
  /\ frame' = [frame EXCEPT ![s] = {}]
  /\ outstanding' = [outstanding EXCEPT ![s] =
                       @ \union {w \in {frame[s]} : w \intersect running # {}}]
  /\ UNCHANGED <<deviceVars, waiting>>

\* One turn of the loop: take the oldest frame ...
Pop(s) ==
  /\ pc[s] = "bounding"
  /\ Len(pending[s]) > QueueDepth
  /\ Goto(s, "waiting")
  /\ waiting' = [waiting EXCEPT ![s] = Head(pending[s])]
  /\ pending' = [pending EXCEPT ![s] = Tail(@)]
  /\ UNCHANGED <<deviceVars, frame, outstanding>>

\* Wrong on purpose: the wait ends with the first span.
AwaitAnyWork(s) ==
  /\ pc[s] = "waiting"
  /\ waiting[s] = {} \/ waiting[s] \ running # {}
  /\ Goto(s, "bounding")
  /\ waiting' = [waiting EXCEPT ![s] = {}]
  /\ UNCHANGED <<deviceVars, frame, pending, outstanding>>

\* Wrong on purpose: a frame nothing was submitted for is waited for as well.
AwaitSomeWork(s) ==
  /\ pc[s] = "waiting"
  /\ waiting[s] # {} /\ waiting[s] \intersect running = {}
  /\ Goto(s, "bounding")
  /\ waiting' = [waiting EXCEPT ![s] = {}]
  /\ UNCHANGED <<deviceVars, frame, pending, outstanding>>

\* ... and wait for each of its spans.
AwaitWork(s) ==
  /\ pc[s] = "waiting"
  /\ waiting[s] \intersect running = {}
  /\ Goto(s, "bounding")
  /\ waiting' = [waiting EXCEPT ![s] = {}]
  /\ UNCHANGED <<deviceVars, frame, pending, outstanding>>

\* Few enough are left: the application is released, after a hold of bounded
\* length if the present went through.
Release(s) ==
  /\ pc[s] = "bounding"
  /\ Len(pending[s]) <= QueueDepth
  /\ Goto(s, "app")
  /\ UNCHANGED <<deviceVars, frame, pending, waiting, outstanding>>

\* The swapchain is destroyed and one is created in its place: its pacer goes,
\* with the frames that were pending.
Recreate(s) ==
  /\ pc[s] = "app"
  /\ pending' = [pending EXCEPT ![s] = <<>>]
  /\ outstanding' = [outstanding EXCEPT ![s] = {}]
  /\ UNCHANGED <<deviceVars, pc, frame, waiting>>

-----------------------------------------------------------------------------
Pace(s) ==
  \/ PaceOff(s) \/ PaceDisabled(s) \/ Push(s)
  \/ Pop(s) \/ AwaitWork(s) \/ Release(s)

Next ==
  \/ \E q \in Queue : Submit(q)
  \/ \E x \in Span : GpuFinish(x)
  \/ Toggle
  \/ \E s \in Swapchain : Collect(s) \/ Pace(s) \/ Recreate(s)

Spec == Init /\ [][Next]_vars

(* The GPU completes what it was given, and a thread inside pace() runs.    *)
Fairness ==
  /\ \A x \in Span : WF_vars(GpuFinish(x))
  /\ \A s \in Swapchain : WF_vars(Pace(s))

FairSpec == Spec /\ Fairness

-----------------------------------------------------------------------------
(* Properties. *)

TypeOK ==
  /\ mode \in Mode
  /\ enabled \in BOOLEAN
  /\ tracked \in [Queue -> Span \union {NoSpan}]
  /\ running \subseteq Span
  /\ pc \in [Swapchain -> {"app", "pacing", "bounding", "waiting"}]
  /\ frame \in [Swapchain -> SUBSET Span]
  /\ pending \in [Swapchain -> Seq(SUBSET Span)]
  /\ waiting \in [Swapchain -> SUBSET Span]
  /\ outstanding \in [Swapchain -> SUBSET SUBSET Span]

\* The bound the layer exists for, for each swapchain: whatever other threads
\* submit, present or toggle, its application is released only with at most
\* queue_depth of the frames its pacer has taken up unfinished.
Window(s) == INSTANCE FrameWindow
  WITH Frame <- SUBSET Span, Depth <- QueueDepth,
       outstanding <- outstanding[s], blocked <- (pc[s] # "app")
WindowContract ==
  /\ \A s \in Swapchain : Window(s)!Init
  /\ [][\A s \in Swapchain : Window(s)!Next \/ UNCHANGED Window(s)!vars]_vars

\* Work submitted while the effect is on is in one place only: no two frames
\* wait for it, and no present releases what another still waits for.
SpanInOnePlace ==
  /\ \A q, r \in Queue : q # r /\ tracked[q] # NoSpan => tracked[q] # tracked[r]
  /\ \A s \in Swapchain :
       /\ Held(s) \intersect Tracked = {}
       /\ \A r \in Swapchain \ {s} : Held(s) \intersect Held(r) = {}
       /\ \A i, j \in DOMAIN pending[s] :
            i # j => pending[s][i] \intersect pending[s][j] = {}
       /\ \A i \in DOMAIN pending[s] :
            pending[s][i] \intersect (waiting[s] \union frame[s]) = {}

\* Work the GPU has not completed stays with the layer until it is waited for:
\* no submission is lost between a queue, the present that collects it and the
\* pending frames, unless pacing is off or a swapchain is replaced.
WorkIsKept ==
  [][/\ Tracked \subseteq Tracked' \union UNION {Held(s)' : s \in Swapchain}
     /\ \A s \in Swapchain :
          mode = "paced" /\ enabled /\ pc[s] # "app"
            => Held(s) \intersect running \subseteq Held(s)']_vars

\* A present returns, however often the effect is toggled meanwhile.
PresentReturns ==
  \A s \in Swapchain : (pc[s] # "app") ~> (pc[s] = "app")
=============================================================================
