--------------------------- MODULE DeadlinePacing ---------------------------
(***************************************************************************)
(* Pacing one swapchain to the refresh of its display.  The driver reports *)
(* when presents became visible and what the refresh interval is; the      *)
(* application's thread, inside SwapchainPacer::pace, polls those reports, *)
(* waits for the GPU, and holds the application so that its next frame is  *)
(* done just before a refresh.  The driver goes on reporting, and may      *)
(* change mode, between any two of the thread's calls.                     *)
(*                                                                         *)
(* The application's own GPU work is abstracted to the time at which a     *)
(* frame was done (SwapchainPacer models who waits for what).  The hotkey  *)
(* thread flips the effect at any time, and pace reads the flag once.      *)
(***************************************************************************)
EXTENDS VblankModel, Sequences

CONSTANTS
  Margin,           \* config.margin
  MinFrametime,     \* config.min_frametime(), 0 for no limit
  QueueDepth,       \* config.queue_depth
  MaxPollFailures,
  Refresh,          \* refresh durations the driver may report, 0 for none
  Work,             \* what a frame may take, from release to done on the GPU
  Skew,             \* errors the conversion of a report's time may make
  MaxTime, MaxPresent, MaxModes   \* bounds of the instance

ASSUME DeadlineAssumption ==
  /\ Margin \in Nat /\ MinFrametime \in Nat /\ QueueDepth \in Nat
  /\ MaxPollFailures \in Nat
  /\ Refresh \subseteq Nat /\ Work \subseteq Nat /\ Skew \subseteq Nat
  /\ MaxTime \in Nat /\ MaxPresent \in Nat /\ MaxModes \in Nat

VARIABLES
  now,          \* CLOCK_MONOTONIC
  effect_enabled, \* LayerContext: the flag that the hotkey flips
  modes,        \* driver: the refresh durations so far; the last is current,
                \* and the length is the driver's timingPropertiesCounter
  shown,        \* driver: ids presented, not reported yet
  reports,      \* driver: reports nobody has read
  pc,           \* where the presenting thread is
  presented,    \* this present went through
  asked,        \* poll: the number of reports the driver announced
  scratch,      \* the reports fetched, less those given to vblank
  feedback,     \* PresentTimingFeedback
  vblank,       \* VblankModel
  nextId,       \* next_present_id
  pending,      \* when the application was released for each pending frame
  lastWork, lastRelease,
  began,        \* pace: hold_began
  aimed,        \* deadline_release: the time it read
  deadline,     \* deadline_release: its result
  wakeAt,       \* pace: release_at
  polled,       \* history: length of modes at this present's good poll, or 0
  ranOff,       \* history: the effect has been off since this present began
  unpacedAt     \* history: when a present last returned for which that held

driverVars == <<modes, shown, reports>>
holdVars == <<began, aimed, deadline, wakeAt>>
workVars == <<pending, lastWork, lastRelease>>
effectVars == <<effect_enabled, ranOff, unpacedAt>>
vars == <<now, effectVars, driverVars, pc, presented, asked, scratch, feedback,
          vblank, nextId, workVars, holdVars, polled>>

Source == [on : BOOLEAN, failures : Nat, cached : Nat \union {None}, counter : Nat]

\* With `on' FALSE: no display feedback for this present mode, surface or
\* device, or it has been dropped.
NewSource(on) == [on |-> on, failures |-> 0, cached |-> None, counter |-> 0]

\* A report's time on the layer's clock.
Placed(at) == {at + error : error \in Skew}

Init ==
  /\ now = 0
  /\ \E d \in Refresh : modes = <<d>>
  /\ shown = {}
  /\ reports = <<>>
  /\ pc = "app"
  /\ presented = TRUE
  /\ asked = 0
  /\ scratch = <<>>
  /\ \E on \in BOOLEAN : feedback = NewSource(on)
  /\ vblank = NewModel
  /\ nextId = 1
  /\ pending = <<>>
  /\ lastWork = None /\ lastRelease = None
  /\ began = 0 /\ aimed = 0 /\ deadline = None /\ wakeAt = 0
  /\ polled = 0
  /\ effect_enabled \in BOOLEAN
  /\ ranOff = FALSE
  /\ unpacedAt = 0

-----------------------------------------------------------------------------
(* The world: time, and the driver (external). *)

\* The clock stops at the bound unless the thread sleeps.  No call between the
\* driver's answer to a present and the wait for the GPU blocks, nor reads it.
Tick ==
  /\ pc \in {"app", "bounding", "aiming", "holding"}
  /\ now < MaxTime \/ (pc = "holding" /\ now < wakeAt)
  /\ now' = now + 1
  /\ UNCHANGED <<effectVars, driverVars, pc, presented, asked, scratch,
                 feedback, vblank, nextId, workVars, holdVars, polled>>

\* A present becomes visible.  Reports may come in any order.
Display(id) ==
  /\ id \in shown
  /\ shown' = shown \ {id}
  /\ \E at \in Placed(now) : reports' = Append(reports, [id |-> id, at |-> at])
  /\ UNCHANGED <<now, effectVars, modes, pc, presented, asked, scratch,
                 feedback, vblank, nextId, workVars, holdVars, polled>>

ChangeMode ==
  /\ Len(modes) < MaxModes
  /\ \E d \in Refresh : modes' = Append(modes, d)
  /\ UNCHANGED <<now, effectVars, shown, reports, pc, presented, asked, scratch,
                 feedback, vblank, nextId, workVars, holdVars, polled>>

\* The hotkey's thread, whatever the presenting one is doing.
Toggle ==
  /\ effect_enabled' = ~effect_enabled
  /\ ranOff' = FALSE
  /\ UNCHANGED <<now, driverVars, pc, presented, asked, scratch, feedback,
                 vblank, nextId, workVars, holdVars, polled, unpacedAt>>

-----------------------------------------------------------------------------
(* vkQueuePresentKHR up to pace(). *)

\* What the driver answers; only a present that asked for timings can find the
\* queue for them full, and that drops the source.
Present(answer) ==
  LET on == feedback.on /\ answer # "queueFull"
  IN  /\ pc = "app"
      /\ now < MaxTime
      /\ feedback.on => nextId <= MaxPresent
      /\ answer = "queueFull" => feedback.on
      /\ presented' = (answer = "presented")
      /\ IF feedback.on
           THEN nextId' = nextId + 1 /\ shown' = shown \union
                  (IF answer = "presented" THEN {nextId} ELSE {})
           ELSE UNCHANGED <<nextId, shown>>
      /\ IF on THEN UNCHANGED feedback ELSE feedback' = NewSource(FALSE)
      /\ LET kept == IF feedback.on /\ ~on THEN NewModel ELSE vblank
         IN  vblank' = IF presented' THEN kept ELSE ResetPhase(kept)
      /\ pc' = IF on THEN "polling" ELSE "pacing"
      /\ ranOff' = ~effect_enabled
      /\ UNCHANGED <<now, modes, reports, asked, polled, scratch, workVars,
                     holdVars, effect_enabled, unpacedAt>>

-----------------------------------------------------------------------------
(* PresentTimingFeedback::poll: ask how many reports there are, then fetch   *)
(* that many.                                                                *)

PollFails ==
  /\ pc \in {"polling", "fetching"}
  /\ feedback' = [feedback EXCEPT !.failures = @ + 1]
  /\ pc' = "reading"
  /\ asked' = 0
  /\ UNCHANGED <<now, effectVars, driverVars, presented, scratch, vblank,
                 nextId, workVars, holdVars, polled>>

\* A changed counter makes the cached interval void.
Recheck(source) ==
  [source EXCEPT !.cached = IF Len(modes) # source.counter THEN None ELSE @]

\* Wrong on purpose: a poll without reports does not look at the counter.
PollEmptyTrusts ==
  /\ pc = "polling"
  /\ reports = <<>>
  /\ polled' = Len(modes)
  /\ pc' = "reading"
  /\ UNCHANGED <<now, effectVars, driverVars, presented, asked, scratch,
                 feedback, vblank, nextId, workVars, holdVars>>

PollEmpty ==
  /\ pc = "polling"
  /\ reports = <<>>
  /\ feedback' = Recheck(feedback)
  /\ polled' = Len(modes)
  /\ pc' = "reading"
  /\ UNCHANGED <<now, effectVars, driverVars, presented, asked, scratch, vblank,
                 nextId, workVars, holdVars>>

PollAnnounced ==
  /\ pc = "polling"
  /\ reports # <<>>
  /\ asked' = Len(reports)
  /\ pc' = "fetching"
  /\ UNCHANGED <<now, effectVars, driverVars, presented, scratch, feedback,
                 vblank, nextId, workVars, holdVars, polled>>

PollFetched ==
  /\ pc = "fetching"
  /\ Len(reports) = asked
  /\ feedback' = Recheck([feedback EXCEPT !.failures = 0])
  /\ scratch' = reports
  /\ reports' = <<>>
  /\ polled' = Len(modes)
  /\ pc' = "feeding"
  /\ asked' = 0
  /\ UNCHANGED <<now, effectVars, modes, shown, presented, vblank, nextId,
                 workVars, holdVars>>

Feed ==
  /\ pc = "feeding"
  /\ \/ vblank' = AddSample(vblank, Head(scratch))
     \/ UNCHANGED vblank        \* incomplete, or of a time that cannot be placed
  /\ scratch' = Tail(scratch)
  /\ pc' = IF scratch' = <<>> THEN "reading" ELSE "feeding"
  /\ UNCHANGED <<now, effectVars, driverVars, presented, asked, feedback,
                 nextId, workVars, holdVars, polled>>

\* A report that arrived since makes the driver answer VK_INCOMPLETE, which
\* counts as a failure: the reports it did hand out are lost.
PollIncomplete ==
  /\ pc = "fetching"
  /\ Len(reports) > asked
  /\ reports' = SubSeq(reports, asked + 1, Len(reports))
  /\ feedback' = [feedback EXCEPT !.failures = @ + 1]
  /\ pc' = "reading"
  /\ asked' = 0
  /\ UNCHANGED <<now, effectVars, modes, shown, presented, scratch, vblank,
                 nextId, workVars, holdVars, polled>>

-----------------------------------------------------------------------------
(* refresh_interval, and the end of a source that has failed too often. *)

\* A source that stopped working is dropped, with the model built from it.
SettleWith(source, interval) ==
  IF source.failures < MaxPollFailures
    THEN feedback' = source /\ vblank' = SetNominal(vblank, interval)
    ELSE feedback' = NewSource(FALSE) /\ vblank' = NewModel

ReadCached ==
  /\ pc = "reading"
  /\ feedback.cached # None
  /\ SettleWith(feedback, feedback.cached)
  /\ pc' = "pacing"
  /\ UNCHANGED <<now, effectVars, driverVars, presented, asked, scratch, nextId,
                 workVars, holdVars, polled>>

ReadDriver ==
  /\ pc = "reading"
  /\ feedback.cached = None
  /\ LET current == modes[Len(modes)]
         interval == IF current = 0 THEN None ELSE current
     IN  SettleWith([feedback EXCEPT !.cached = interval,
                                     !.counter = Len(modes)], interval)
  /\ pc' = "pacing"
  /\ UNCHANGED <<now, effectVars, driverVars, presented, asked, scratch, nextId,
                 workVars, holdVars, polled>>

\* The driver has no answer.
ReadFails ==
  /\ pc = "reading"
  /\ feedback.cached = None
  /\ SettleWith(feedback, None)
  /\ pc' = "pacing"
  /\ UNCHANGED <<now, effectVars, driverVars, presented, asked, scratch, nextId,
                 workVars, holdVars, polled>>

-----------------------------------------------------------------------------
(* The rest of pace(). *)

Return ==
  /\ pc' = "app" /\ presented' = TRUE /\ polled' = 0
  /\ unpacedAt' = IF ranOff THEN now ELSE unpacedAt
  /\ ranOff' = FALSE

\* Wrong on purpose: what was pending stays across the gap.
PaceDisabledKeepsPending ==
  /\ pc = "pacing"
  /\ ~effect_enabled
  /\ lastRelease' = None /\ lastWork' = None
  /\ Return
  /\ UNCHANGED <<now, effect_enabled, driverVars, asked, scratch, feedback,
                 vblank, nextId, pending, holdVars>>

\* The effect is found switched off: the measurements go with the pending frames.
PaceDisabled ==
  /\ pc = "pacing"
  /\ ~effect_enabled
  /\ pending' = <<>>
  /\ lastRelease' = None /\ lastWork' = None
  /\ Return
  /\ UNCHANGED <<now, effect_enabled, driverVars, asked, scratch, feedback,
                 vblank, nextId, holdVars>>

Push ==
  /\ pc = "pacing"
  /\ effect_enabled
  /\ pending' = Append(pending, IF lastRelease = None THEN now ELSE lastRelease)
  /\ pc' = "bounding"
  /\ UNCHANGED <<now, effectVars, driverVars, presented, asked, scratch,
                 feedback, vblank, nextId, lastWork, lastRelease, holdVars,
                 polled>>

\* The oldest frame took `work' from the release of the application, or
\* contributed nothing that can be measured.
Await(work) ==
  /\ pc = "bounding"
  /\ Len(pending) > QueueDepth
  /\ work # None => Head(pending) + work <= now
  /\ pending' = Tail(pending)
  /\ lastWork' = IF work # None THEN work ELSE lastWork
  /\ UNCHANGED <<now, effectVars, driverVars, pc, presented, asked, scratch,
                 feedback, vblank, nextId, lastRelease, holdVars, polled>>

SkipHold ==
  /\ pc = "bounding"
  /\ Len(pending) <= QueueDepth
  /\ ~presented
  /\ lastRelease' = now
  /\ Return
  /\ UNCHANGED <<now, effect_enabled, driverVars, asked, scratch, feedback,
                 vblank, nextId, pending, lastWork, holdVars>>

BeginHold ==
  /\ pc = "bounding"
  /\ Len(pending) <= QueueDepth
  /\ presented
  /\ began' = now
  /\ wakeAt' = IF /\ MinFrametime > 0 /\ lastRelease # None
                  /\ lastRelease + MinFrametime > now
                 THEN lastRelease + MinFrametime ELSE now
  /\ pc' = "aiming"
  /\ UNCHANGED <<now, effectVars, driverVars, presented, asked, scratch,
                 feedback, vblank, nextId, workVars, aimed, deadline, polled>>

\* effective_mode(), for the swapchains that may have a deadline.
DeadlineMode == feedback.on /\ IsUsable(vblank) /\ lastWork # None

\* Wrong on purpose: however late the boundary, the hold lasts until it.
DeadlineReleaseUnbounded(time) ==
  LET need == lastWork + Margin
  IN  BoundaryAtOrAfter(vblank, time + need) - need

\* deadline_release(): the first refresh that can still be made, less what the
\* frame needs; nothing if that is more than an interval away.
DeadlineRelease(time) ==
  LET need == lastWork + Margin
      release == BoundaryAtOrAfter(vblank, time + need) - need
  IN  IF release > time + vblank.nominal THEN None ELSE release

Aim ==
  /\ pc = "aiming"
  /\ aimed' = now
  /\ deadline' = IF DeadlineMode THEN DeadlineRelease(now) ELSE None
  /\ wakeAt' = IF deadline' # None /\ deadline' > wakeAt THEN deadline' ELSE wakeAt
  /\ pc' = "holding"
  /\ UNCHANGED <<now, effectVars, driverVars, presented, asked, scratch,
                 feedback, vblank, nextId, workVars, began, polled>>

\* precise_wait_until has returned, or there was nothing to wait for.
Release ==
  /\ pc = "holding"
  /\ now >= wakeAt
  /\ lastRelease' = now
  /\ Return
  /\ began' = 0 /\ aimed' = 0 /\ deadline' = None /\ wakeAt' = 0
  /\ UNCHANGED <<now, effect_enabled, driverVars, asked, scratch, feedback,
                 vblank, nextId, pending, lastWork>>

-----------------------------------------------------------------------------
Next ==
  \/ Tick \/ Toggle \/ ChangeMode \/ (\E id \in shown : Display(id))
  \/ \E answer \in {"presented", "failed", "queueFull"} : Present(answer)
  \/ PollFails \/ PollEmpty \/ PollAnnounced \/ PollFetched \/ Feed
  \/ PollIncomplete
  \/ ReadCached \/ ReadDriver \/ ReadFails
  \/ PaceDisabled \/ Push \/ (\E work \in Work \union {None} : Await(work))
  \/ SkipHold \/ BeginHold \/ Aim \/ Release

Spec == Init /\ [][Next]_vars

-----------------------------------------------------------------------------
(* Properties. *)

TypeOK ==
  /\ now \in Nat
  /\ modes \in Seq(Refresh) /\ modes # <<>>
  /\ shown \subseteq Nat
  /\ reports \in Seq([id : Nat, at : Nat])
  /\ pc \in {"app", "polling", "fetching", "feeding", "reading", "pacing",
             "bounding", "aiming", "holding"}
  /\ presented \in BOOLEAN
  /\ asked \in Nat
  /\ scratch \in Seq([id : Nat, at : Nat])
  /\ pc = "feeding" => scratch # <<>>
  /\ feedback \in Source
  /\ vblank \in Model
  /\ nextId \in Nat
  /\ pending \in Seq(Nat)
  /\ lastWork \in Nat \union {None}
  /\ lastRelease \in Nat \union {None}
  /\ began \in Nat /\ aimed \in Nat /\ wakeAt \in Nat
  /\ deadline \in Nat \union {None}
  /\ polled \in Nat
  /\ effect_enabled \in BOOLEAN /\ ranOff \in BOOLEAN /\ unpacedAt \in Nat

Need == lastWork + Margin

\* The application is never held for more than one refresh interval, or until
\* the frame limiter allows the next frame, whichever is later: a stale phase
\* or a report from the future cannot stall it.
HoldIsBounded ==
  pc = "holding" =>
    \/ wakeAt = began
    \/ MinFrametime > 0 /\ lastRelease # None /\ wakeAt = lastRelease + MinFrametime
    \/ vblank.nominal # None /\ wakeAt <= aimed + vblank.nominal

\* A hold for a deadline aims at a refresh of the measured grid, the first one
\* the frame can still make: it neither misses one it could have made nor asks
\* for a release in the past.
AimsAtFirstReachableRefresh ==
  pc = "holding" /\ deadline # None =>
    LET hit == deadline + Need
    IN  /\ deadline >= aimed
        /\ (hit - vblank.displayed) % vblank.nominal = 0
        /\ hit > vblank.displayed => hit - vblank.nominal < aimed + Need

\* An interval that a frame is paced with is one the driver stated, and has not
\* been superseded by the time of that frame's poll: a change of mode between
\* any two of the calls to the driver is caught by the next poll that works.
IntervalIsFresh ==
  pc \in {"pacing", "bounding", "aiming", "holding"} /\ vblank.nominal # None =>
    /\ feedback.on
    /\ vblank.nominal = modes[feedback.counter]
    /\ feedback.counter >= polled

\* No measurement spans a present during the whole of which the effect was off:
\* the releases that work is measured from are later than it returned, and so is
\* what they give, whenever else the hotkey was hit.  (Off and on again between
\* two reads of the flag is a time in which no present went unpaced, and what is
\* measured from before it is kept.)
MeasurementsArePaced ==
  /\ \A i \in DOMAIN pending : pending[i] >= unpacedAt
  /\ lastRelease # None => lastRelease >= unpacedAt
  /\ lastWork # None => lastWork <= now - unpacedAt
=============================================================================
