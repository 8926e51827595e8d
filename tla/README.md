# low_latency_layer: a TLA+ model of the layer, its checks and its proofs

The program is a Vulkan layer. It sits between an application and the driver,
times the application's GPU work with queries it injects into every submission,
and holds the application's thread in `vkQueuePresentKHR` so that it never runs
more than `queue_depth` frames ahead of the GPU and, where the display can be
measured, releases it just in time for a refresh. It has no state on disk and
no peers; what makes it hard is that four kinds of threads (the application's,
one reaper per queue, the hotkey poller, the clock calibrator) and two
asynchronous parties (the GPU and the display) share objects with intricate
lifetimes, and that every one of its waits is on a path the application calls.

All paths below are relative to `src/src/` of the repository.

## 1. Inventory

| Component | State it keeps | Operations | Talks to |
|---|---|---|---|
| Timestamp pool, spans, trackers (`timestamp_pool.*`, `submission_span.*`, `queue_tracker.*`) | chunks of query pairs, free indices, the queue of dropped handles; the span of the current frame of a queue | `acquire`, `notify_submit`, `take`, `await_completed`, the reaper's loop, destruction | submit hooks, swapchain pacer, GPU |
| Submission hooks (`layer.cc` `QueueSubmit*`, `queue_context.*`) | the handles of the call under way | inject, submit, notify | pool, tracker, driver |
| Frame pacer and present hook (`frame_pacer.*`, `layer.cc` `QueuePresentKHR`) | the pacers by swapchain, the patch chained into a present, the ids in flight; two mutexes | `begin_present`, `finish`, creation and destruction of swapchains | swapchain pacers, driver |
| Swapchain pacer (`swapchain_pacer.*`) | pending frames, last release and measured work, present ids, its feedback and vblank model | `pace`, `await_work`, `deadline_release`, `disable_feedback` | spans, feedback, vblank model |
| Display feedback (`display_feedback.*`) | failures, cached refresh interval with the driver's counter, calibration | `create`, `fill_timing_info`, `poll`, `refresh_interval` | driver, device clock |
| Vblank model (`vblank_model.*`) | interval, last visible time and id, number of samples | `set_nominal_interval`, `add_sample`, `reset_phase`, `boundary_at_or_after` | swapchain pacer |
| Hotkey monitor (`hotkey.*`, `LayerContext::ensure_hotkey`) | open devices, whether the combination was down; flips `effect_enabled` | poll, callback, destruction | every submit and present reads the flag |
| Context registry (`layer_context.*`, `layer.cc`, `device_context.*`, ...) | a map from dispatchable handles to contexts, under one mutex; queues of a device | create, look up and destroy instances, devices, queues | every hook |
| Device clock (`device_clock.*`) | one calibrated pair of readings | `calibrate` once a second, `ticks_to_time` | spans, feedback |
| Negotiation (`layer.cc` `CreateInstance`, `CreateDevice`, `physical_device_context.*`) | none after creation | choose extensions and features, retry without them | driver |
| Configuration (`config.*`), dispatch tables, helpers, debug report | constants | parse, look up, print | all |

What is hard, by component, and what makes it right:

* **Pool.** A handle's `shared_ptr` travels from the submitting thread to the
  tracker, the presenting thread, the queue of dropped handles and the reaper,
  while the GPU writes its queries at any time. Right means: an index has one
  owner, is free only when the GPU is done with it, comes back when dropped, and
  the destruction of a device neither loses a handle nor hangs.
* **Presents.** One patch buffer and one list of ids serve every present of a
  device, across a driver call. Right means: a present sees its own patch, ids
  increase, an error the layer causes never reaches the application, and every
  call returns although `finish` holds a shared lock while it waits.
* **Queue depth.** Every present takes the work of every queue, so threads that
  present different swapchains take each other's. Right means: the application
  is released only with at most `queue_depth` of the counted frames unfinished,
  and no work is lost or waited for twice.
* **Deadline.** The phase, the interval and the frame time come from three
  sources that are each late. Right means: a hold is bounded, aims at a refresh
  that can be made, and uses neither a superseded interval nor a measurement
  across a present during which the effect was off.
* **Registry.** A handle is only a pointer, which the driver gives out again as
  soon as its object is destroyed, and queues are obtained by several threads.
  Right means: a look-up meets the context of the object behind the handle, and
  the map and each device's list of its queues agree, as destruction goes by the
  list.
* **Clock and reports.** A pair of readings is replaced while others convert
  with it, ticks lie before as well as after it, and a swapchain's own clock
  drifts between polls. Right means: a time that is converted is close to the
  time at which the thing happened, by a bound that can be stated, if it is of a
  clock that was measured.
* **Negotiation.** What the layer adds to a creation depends on what the driver
  has, what the application brings and what an earlier stage found. Right means:
  a creation fails or succeeds exactly as it would without the layer, and what
  is used later was enabled before.
* **Hotkey.** Key states are read device by device while keys move. Right means:
  one press is one toggle, a held combination is not missed, and destruction
  waits for the thread before it takes the descriptors away.

## 2. Modules

| Module | Models | Composes / implements |
|---|---|---|
| `TimestampPool` | pool, spans, tracker, submit hooks, reaper, device destruction, GPU | implements `QueryLease` |
| `QueryLease` | the contract in the comments of `timestamp_pool.hh` | abstract |
| `TimestampPoolProofs` | | theorems about `TimestampPool` |
| `FramePacer` | presents and swapchain calls of several threads, both locks, ids, the driver's timing queue | |
| `FramePacerProofs` | | theorems about `FramePacer` |
| `SwapchainPacer` | the queue-depth bound, spans of several queues, toggles | implements `FrameWindow` for each swapchain |
| `SwapchainPacerProofs` | | theorems about `SwapchainPacer`, with the refinement |
| `FrameWindow` | the promise of `queue_depth` in `config.hh` and `swapchain_pacer.hh` | abstract |
| `VblankModel` | the class, as operators on a record | |
| `DeadlinePacing` | polling, the refresh interval, measured work, frame limit, deadline and hold; the driver's reports and mode changes | extends `VblankModel` |
| `DeadlineProofs` | | theorems about `DeadlinePacing` |
| `Hotkey` | the polling thread, the callback, the destructor, keys on several devices | |
| `HotkeyProofs` | | theorems about `Hotkey` |
| `LayerContext` | the map from handles to contexts: creation, look-up, registration, destruction; the driver's handles | |
| `LayerContextProofs` | | theorems about `LayerContext` |
| `Negotiation` | what is asked of the driver at the creation of instance, device and swapchain; capabilities; `DisplayFeedback::create` | |
| `NegotiationProofs` | | theorems about `Negotiation` |
| `DeviceClock` | the pair of readings, the calibration thread, the conversion of ticks | |
| `ReportTimes` | time domains of reports, the calibration of a swapchain's own clock, `to_time_point` | extends `DeviceClock` |
| `DeviceClockProofs` | | theorems about `DeviceClock` and `ReportTimes` |
| `MC...` | instances of the above for TLC | |

### How state and actions correspond to the code

**TimestampPool.** A slot is a (chunk, index) pair; a `Handle` exists exactly
while its slot is not free, so the slot's name stands for the handle and each
variable is a place its `shared_ptr` can be: `handles` (the vector local to
`QueueSubmit`), `span` (tracker), `work` and `pacing` (the pacer), `expiring`
(`expiring_handles`), `reaping` (the reaper's local). `Acquire` is one call of
`TimestampPool::acquire` with the reset and recording done in the handle's
constructor. `SubmitOk` and `SubmitFail` are the two ends of the driver call,
`Notify` one turn of the loop after it, `Track` is `notify_submit`. `Take`,
`BeginAwait`, `EndAwait`, `BeginClear` and `Clear` are the presenting thread;
`ReaperPop`, `ReaperRecycle`, `ReaperExit` the loop of `do_reaper`; the three
`Destroy...` actions are the destructors in the order the members of
`DeviceContext`, `QueueContext` and `TimestampPool` give. Releases that one
thread makes with nothing in between are one step. `GpuWrite` and `GpuRetire`
are the GPU; no order between slots is assumed.

**FramePacer.** The program counter of each thread walks through
`QueuePresentKHR`: `LockPresent` (`present_mutex`), `Patch` (the rest of
`begin_present`, under the shared lock, which blocks on nothing), `DriverPresent`,
`FinishPatch` (`finish` up to the unlock), `BeginPace`/`EndPace` (the shared
section in which the thread waits; the early return for a swapchain without a
pacer has no step, since only a swapchain that `vkCreateSwapchainKHR` has
returned can be presented). `Create`/`NotifyCreate` and
`Destroy`/`NotifyDestroy`/`DriverDestroy` are the swapchain hooks. The exclusive
sections of `FramePacer::mutex` are one step, enabled when no thread is in the
shared section that is held while waiting. The driver keeps a queue of timing
requests per swapchain and refuses a present when one is full. What nobody reads
any more is cleared where the code leaves it (`ForgetPatch`, and the driver's
side of a destroyed swapchain), which joins states that do not differ.

**SwapchainPacer.** A span is an identity; `running` holds those the GPU has
not completed. `Collect` is `collect_work` (all queues), `PaceOff`,
`PaceDisabled`, `Push`, `Pop`, `AwaitWork` and `Release` are `pace` in its
order. `outstanding` is a history variable with the frames the pacer has
counted and the GPU has not finished; it is what `FrameWindow` speaks of.

**DeadlinePacing.** Here the same `pace` is seen from its clock. `Present` is
what `begin_present` and the driver do before it; `PollFails`, `PollEmpty`,
`PollAnnounced`, `PollFetched`, `PollIncomplete` and `Feed` are `poll` with its
two driver calls as two steps, so that reports may arrive in between (the
driver then answers `VK_INCOMPLETE`, which the code counts as a failure);
`ReadCached`, `ReadDriver`, `ReadFails` are `refresh_interval`, with
`SettleWith` for what `pace` does of its result; `PaceDisabled` to `Release`
are the rest of `pace`, with a step for each reading of the clock that matters.
`Feed` skips a report that is incomplete or cannot be placed. `Display` appends
reports in any order, with a time that may be off by a member of `Skew`
(`ReportTimes` says how far off a time can be), and `ChangeMode` bumps the counter.
`Toggle` is the callback of the hotkey, on its own thread and at any time: within
a wait, within a poll, or several times between two presents. `pace` reads the
flag once, at `PaceDisabled` or `Push`. `ranOff` and `unpacedAt` are history
variables that follow the flag itself and not what `pace` has read of it: a
present that began with the effect off, and during which it stayed off, ran
unpaced, and no measurement may begin before it returned.
The GPU's end time is taken to be no later than the clock at which the wait for
it ends.

**Hotkey.** `Read` is one `EVIOCGKEY`, `Decide` the comparison and the
callback, `Close`, `RequestStop` and `Join` the destructor: C++ runs its body,
which closes the descriptors, before it destroys the `jthread` member. A read
of a closed descriptor may return any keys, as its number may have been reused.

**LayerContext.** An owner stands for an instance or a device, a part for a
physical device or a queue; the hooks treat the two pairs alike. `object`
numbers what is behind a handle, so that a context can be told from its
successor's. A call is two steps where another thread may come between: `Create`
(the driver) and `Insert` (the map); `Obtain` (look-up and driver) and
`Register`; `BeginDestroy` (the application gives up the handle), `Erase` (the
section under the lock, with the destructors it runs) and `DriverDestroy`. An
instance's parts are enumerated together, a device's are obtained one by one.
The application keeps Vulkan's rule that nothing else is done with an owner that
is being destroyed.

**Negotiation.** `config` and `driver` are chosen once and do not change; each
other variable is what one stage has left for the next. `CreateInstance` holds
the retry of `layer.cc`, which is all or nothing: if the driver lacks one of the
layer's extensions, none is added. `EnumeratePhysicalDevices` is the constructor
of `PhysicalDeviceContext`, `CreateDevice` the choice of extensions and the
walk over the feature structures (`next_chain`: a bit is set where its structure
is found, of the core version or of its own, and a structure is added
otherwise), `CreateSwapchain` the flag, the query of the surface and
`DisplayFeedback::create`. A `pNext` chain is a function from the structures in
it to the bits that are set. The loader's structure is always in it, so that
the comment at `layer.cc:440` about a chain that is not empty holds.

**DeviceClock and ReportTimes.** `Calibrate` is the driver's call; `StoreTicks`
and `StoreHost` are the exclusive section after it, which replaces one reading of
the pair after the other. `exclusive` says that the section is under way. A
conversion is made under the same mutex, shared, so it happens in a state in
which `exclusive` is false; that nobody meets half a pair is then a property and
not a matter of the model's steps. The constructor's calibration is in `Init`.
`Fail` ends the process, as the exception leaves the thread's function.
`ticks_to_time` has the subtraction with its sign, the half that is added and
the truncation toward zero of the code.

The swapchain has several clocks (`LocalClock`): the present stage's and its own,
and one for each `timeDomainId`. Each shows its own time (`LocalTime`) and has its
own distance from the host's. `time_domain` is the domain that `create` chose;
`calibrate` measures that clock, while `to_time_point` goes by the domain of the
report and adds the measured offset to a report of any local clock, as
`display_feedback.cc:342-348` does. `Poll` is `poll` from `needs_calibration` to
`to_time_point`, for one report of any domain and any earlier moment; if the
driver fails the poll goes on with what it has. `placed` is what that report
became, until the caller has it (`Hand`); what is done with it is
`DeadlinePacing`'s.

In every module a definition whose comment begins "Wrong on purpose" is a
plausible bug. None is used by a specification; each is there to show that the
property it is paired with in `PROJECT.json` would catch it.

## 3. Runs

| Run | Question | Instance | States |
|---|---|---|---|
| `pool` | Do slots keep one owner and stay idle when free, whatever the threads and the GPU interleave, up to and through destruction? Does the pool implement `QueryLease`? Do dropped handles come back, waits end, destructions end? | 3 chunks of 1 slot, 2 submissions per call, 2 spans held | 88,818 |
| `presents` | Patch, ids, pacers, the full timing queue and the locks, with two threads | 2 threads, 2 swapchains, presents of either and of both, ids to 2 (the application's own only for the first), queue of 1, 2 failures | 304,377 |
| `depth` | Does each swapchain keep its bound (`FrameWindow`) when threads take each other's work, queues are several, the effect toggles and swapchains are replaced? | 2 swapchains, 2 queues, 3 spans, depth 1 | 126,224 |
| `deadline` | Are holds bounded and on the grid, the interval current and the measurements free of gaps, while the driver reports late, wrongly or not at all? | 2 presents, 2 modes, 3 units of time for the application, intervals 2 and (implausible) 3, the effect switched at any time | 4,836,376 |
| `hotkey` | Does one press toggle once, is a held combination seen, does destruction end? | 2 devices, 4 key events | 22,068 |
| `registry` | Does a look-up find the context of the object behind its handle, and do the map and the owners' lists agree, with handles given out again and threads obtaining one part at once? | 2 threads, 1 instance, 2 devices, 2 parts, 4 creations | 20,427 |
| `negotiation` | Is every creation answered as it would be without the layer, and is feedback built only on what was enabled? | all drivers that keep Vulkan's rules over the extensions and bits the layer asks about; applications of two versions; 4 chains | 553,216 |
| `clock` | How far from the truth can a converted tick and a placed report be, in the domain that was asked for and in another, while pairs are replaced and clocks drift? | ticks of 1.5 ns, a counter of 8 values, deviation 1, two clocks of the swapchain, one that gains and one that loses one in three | 675,558 |
| `pool_command_buffers`, `mixed_ids`, `hotkey_close`, `surface_support` | One statement of a comment each, which the code does not keep (section 6) | small instances | violated |

Why the bounds are enough:

* **Pool.** Three slots of one chunk each make the pool grow and then reuse,
  and let a call of two submissions run beside a third handle that the reaper or
  the pacer has; two submissions per call let a call replace a tail it made
  itself; two held spans let the pacer choose. Nothing is declared symmetric, as
  the run also checks liveness. A chunk of several indices adds only that a
  growth brings more than one free slot; section 5 covers any number.
* **Presents.** Every interaction is between two threads, over one swapchain or
  two; presents of either let both threads be in a present at once; a queue of one request is full at the second present, which is
  the shortest way to the case the real queue of 8 reaches. `MaxRefused` only
  stops counting. Starvation of a writer by two overlapping readers needs a
  third thread and is not in the instance; section 5 says what holds for any
  number.
* **Depth.** With depth 1 and three spans a frame can be pending, waited for
  and collected at once, and a fourth adds no new relation between them.
* **Deadline.** The margin, the work and the intervals are of the size of the
  clock's unit, so that a need is less than, equal to and more than an interval;
  `Skew` of 0 and 6 places reports truthfully and three intervals ahead. The
  clock stops at `MaxTime` except for a thread that sleeps, so all holds end.
  Three units of time are enough for a release, a present that runs with the
  effect off, and a later frame that could be measured across it. The toggles
  are not bounded.
  The theorems of section 5 remove these bounds.
* **Hotkey.** Four events are the shortest sequence that presses a combination
  over two devices and releases it, during one poll or across two.
* **Negotiation.** The state has no counters: every combination of the finite
  sets in `MCNegotiation` is checked, and they hold each extension, structure and
  bit the code names, present and absent.
* **Clock.** A period that is not a whole number of nanoseconds gives every way
  of rounding; the counter starts over after 12 ns, so that instants fall into
  two laps; the instants have gaps shorter and longer than the calibration
  period of 4, and the drift shows in both. Two local clocks are one that is
  asked for and one that is not; a third would be like the second.
* **Registry.** Four creations of three owners give one handle out again while
  others live, and two threads race in every pair of steps; two parts move from
  one owner to another. Section 5 removes the bounds.

`LayerContext.cfg` switches the deadlock check off: an application that has
destroyed everything after its last creation simply stops, and there the model
has no step. In all other passing runs the check is on; a destroyed pool and a
destroyed hotkey monitor have an explicit stuttering step. In `deadline` it says
nothing, since the hotkey can be hit in every state.

### Properties

*Safety.* `NoWriteToFreeSlot`, `OneOwner`, `OnlySubmittedWorkIsTracked`,
`NothingIsLeftBehind` (pool); `PatchIsOwn`, `PacersAreOfLiveSwapchains`,
`IdsIncrease`, `FullQueueIsAbsorbed`, `FirstSwapchainIsRead` (presents);
`SpanInOnePlace` (depth); `HoldIsBounded`, `AimsAtFirstReachableRefresh`,
`IntervalIsFresh`, `MeasurementsArePaced` (deadline); `HoldTogglesOnce`
(hotkey); `LookUpIsOwn`, `NewHandleIsUnknown`, `MapsAgree` (registry);
`CreationIsTransparent`, `FeedbackIsUsable` (negotiation); `ConversionIsClose`,
`SampleIsClose` (clock). *Steps.* `WorkIsKept` (depth). *Refinement.*
`LeaseContract` (`TimestampPool` implements `QueryLease`), `WindowContract`
(`SwapchainPacer` implements `FrameWindow` for each swapchain). *Liveness.*
`DroppedHandleIsRecycled`, `AwaitedFrameCompletes`, `DestructionCompletes`
(pool), `CallsReturn` (presents), `PresentReturns` (depth),
`HeldCombinationIsSeen`, `DestructionEnds` (hotkey).
Each is stated in words above its definition. Each of the modules has one type
invariant, `TypeOK` (`ReportTypeOK` for the module that extends another).

For `IdsIncrease`, the passing run has an application that may stop labelling
its presents but not start again (`Relabels = FALSE`); the run `mixed_ids` has
one that does both, and finds what the code leaves open.

## 4. Fairness

Liveness is checked only under these assumptions, none of which asks the
application to do anything it has not begun:

* the GPU finishes what it has accepted (`GpuWrite`, `GpuRetire`, `GpuFinish`):
  Vulkan requires it for work without unsatisfied dependencies. Work that waits
  for a semaphore the application signals only after its present would break
  it, and so would the layer;
* the reaper, the hotkey worker and a thread inside a loop of the layer run:
  the operating system schedules them, and none is blocked on anything else
  than what its action's guard says;
* a thread that waits for a mutex and finds it free again and again gets it
  (strong fairness of `LockPresent`, `NotifyCreate`, `NotifyDestroy`), since
  neither `std::mutex` nor `std::shared_mutex` queues its waiters;
* a destruction that has begun goes on.

The proofs state the same fairness with the guard of the action where `WF` and
`SF` have `ENABLED`, which the prover does not reach. Every action concerned
changes its state whenever its guard holds, so the guard is `ENABLED <<A>>_vars`;
TLC found the two equal in all states of `pool`, `presents`, `depth` and
`hotkey` when the guards were written.

## 5. Proofs

`TimestampPoolProofs` proves, for any chunks, indices and bounds:

* `TypeCorrect`, `FreeSlotsAreIdle` (`NoWriteToFreeSlot`), `OwnersAreUnique`
  (`OneOwner`), `TrackedWorkIsSubmitted` (`OnlySubmittedWorkIsTracked`),
  `DestructionIsSafe` (`NothingIsLeftBehind`);
* `Refinement`: `Spec => LeaseContract`.

None of these is inductive alone. `IInv` adds what each owner implies of its
queries: handles being built have no query the GPU could write, handles in the
tracker or the pacer were submitted, and a dropped handle that was not submitted
has nothing outstanding while one that was is written or will be. That is what
makes the reaper's test of one flag and one query enough: an end query is
written only after its start, so an index whose end is available has no write
left. It also ties the phases of a destruction to the places that must be empty
by then. The refinement proof uses it at `ReaperRecycle` (a returned slot is not
outstanding) and at `Acquire` (a free slot is neither leased nor outstanding).

* `DroppedWorkIsWritten`: a dropped handle whose flag is set is one whose queries
  are written or will be (`DroppedInv`);
* `AwaitsComplete`: `AwaitedFrameCompletes`, from the fairness of the GPU
  (`GpuGoesOn`) and of the thread that waits (`AwaitsGoOn`);
* `HandlesMoveUp`: with `GpuGoesOn` and `ReaperGoesOn`, a dropped handle at place
  n + 1 of the queue comes to place n, and from place 1 its index goes back;
* `DestructionProceeds`: with `DestructionGoesOn` too, a destruction with n steps
  left comes to fewer. The measure `Left` counts five for each span still held,
  two for each dropped handle, and the steps of the destructors.

Only a slot without an owner has its queries reset (`ResetFacts`), so what is
known of the queries of an owned slot stays known (`QueriesStay`), and of a slot
that is waited for the start is written, and then the end (`SlotsAreWritten`).
That ends a present's wait as well as the reaper's, which is therefore between
two handles again and again (`ReaperComesBack`), and the queue moves.

`DeadlineProofs` proves, for all times, intervals, margins, skews and bounds:

* `TypeCorrect`, `HoldBounded` (`HoldIsBounded`), `AimsRight`
  (`AimsAtFirstReachableRefresh`), `IntervalFresh` (`IntervalIsFresh`),
  `MeasurementsPaced` (`MeasurementsArePaced`).

Its `IInv` adds `SourceInv` (a cached interval is the driver's at the cached
counter, which a poll that works has made at least as recent as itself; a
dropped source leaves no interval), `HoldInv` (what the frame limiter alone
asks for between `BeginHold` and `Aim`) and `EffectInv` (while `ranOff` holds the
effect is off and the thread has not passed the reading of the flag, so it is
bound to find it off and to drop what it has measured). The arithmetic of the grid is in
`DivisionFacts`, `MultipleFacts` and `FirstBoundaryFacts`: rounding up by
`(elapsed + step - 1) / step` gives the first multiple that is not before the
point, and it is less than a step after it. `HoldIsBounded` and the aim follow
from those and from the code's own bound on the release.

`LayerContextProofs` proves, for any threads, handles and number of creations:

* `TypeCorrect`, `LookUpCorrect` (`LookUpIsOwn`), `InsertInserts`
  (`NewHandleIsUnknown`, the asserts of `layer.cc:161` and `:471`), `Consistent`
  (`MapsAgree`).

Its `IInv` adds what each call under way has in common with the driver
(`ThreadInv`: a thread that creates or destroys an owner has it to itself, one
that registers has found the context of the object that is still there) and the
two directions of `MapsAgree` with the owner of each part as the driver has it
(`OwnerInv`, `PartInv`). That a context is erased before the driver destroys its
object is what makes a new handle unknown.

`SwapchainPacerProofs` proves, for any swapchains, queues, spans and depth:

* `TypeCorrect`, `OnePlace` (`SpanInOnePlace`), `Kept` (`WorkIsKept`);
* `WindowRefinement`: `Spec => WindowContract`.

Its `IInv` adds `PcInv` (a swapchain has a frame only between collecting and
pushing it, and waits for one only after it has popped it) and `OutInv` (a frame
that counts is one that is pending or waited for, and the GPU has not completed
it). The refinement rests on `OutInv`: at `Release` every frame that counts is
among the pending ones, of which there are at most `queue_depth`, so the set has
at most that many members (`BoundFacts`, from a surjection of an interval onto
the set). That spans are in one place is what keeps a thread from ending a wait
that is another's.

Further:

* `QueueIsShort` (`ShortInv`): one frame more than `queue_depth` is pending at
  most, and only within the loop; so a present waits for one frame at most;
* `Ahead` (`DepthIsKept`): an application that is not inside a present has at
  most `queue_depth` frames that the GPU has not finished;
* `PresentsReturn`: `PresentReturns`, for a finite set of queues, from
  `ThreadsGoOn` and `GpuCompletes` (any finite work that is not added to is
  completed). A frame is finite (`FiniteInv`), and no queue adds to one that is
  waited for (`WaitIsNotExtended`), so toggles and other threads cannot make a
  wait longer.

`FramePacerProofs` proves, for any threads, swapchains, lists of swapchains,
queue size and number of failures:

* `TypeCorrect`, `PatchKept` (`PatchIsOwn`), `PacersLive`
  (`PacersAreOfLiveSwapchains`), `FullQueueAbsorbed` (`FullQueueIsAbsorbed`),
  `FirstRead` (`FirstSwapchainIsRead`);
* `IdsGrow`: `IdsIncrease`, for an application that does not label again what it
  has left to the layer. The run `mixed_ids` shows that it needs this.

Its `IInv` says that calls under way share no swapchain (`CallInv`, Vulkan's own
rule), that only the holder of `present_mutex` is between the patch and the
answer (`LockInv`), that a new swapchain has nothing of a predecessor
(`PacerInv`), and what is behind each count: a pacer that has been refused has
given up, or the thread that was refused is about to see to it (`RefusalInv`);
what has been asked for and not polled will be polled by the thread that asked
(`ReadInv`). The ids need a further invariant, `IdInv`: the driver's last id, the
id in flight and the pacer's next id increase in this order.

`FramePacerProofs` proves also that calls return, for any number of threads:

* `DeadlockFree`: in no state is every call under way blocked (`NobodyIsStuck`).
  The holder of `present_mutex` is always on the way to its release
  (`ServedInv`), and a thread that holds the other mutex waits for the GPU only;
* `PresentsDoReturn`: every present returns, if threads go on (`ThreadsGoOn`) and
  a thread that finds its lock free again and again gets it (`LocksAreGiven`).
  `present_mutex` is released again and again (`MutexIsReleased`);
* `CallsDoReturn`: `CallsReturn`, if moreover the readers of `FramePacer::mutex`
  leave it free again and again while a writer waits (`ReadersMakeRoom`). The
  code does not see to that: with three threads, presents that overlap could
  hold off the creation or destruction of a swapchain for as long as they do;
* `TwoThreadsReturn`: of two threads every call returns without that condition.

`HotkeyProofs` proves, for any devices and number of key events, `TypeCorrect`
and `TogglesOnce` (`HoldTogglesOnce`). Its `CleanInv` says that after a callback
a poll has seen exactly the keys that are down on the devices it has read, until
a key moves; a combination that is still down has therefore been noticed, and no
second callback follows.

For a finite set of devices it proves also `DestructionProceeds` (a destruction
with n steps left comes to fewer: the destructor's turn until it has requested
the stop, then the worker's until it has left its loop) and `CombinationIsNoticed`
(between two key events a poll that notices a held combination, or that it was
let go, comes closer). The measure of the second, `PollLeft`, is the rest of the
poll under way if that will notice it (`Notices`), and otherwise a whole poll
more: what has been read may be out of date, but the next poll begins with
nothing seen.

`NegotiationProofs` proves, for any drivers that keep the rules of
`NegotiationAssumption` and for any requests, surfaces and domains,
`TypeCorrect`, `Transparent` (`CreationIsTransparent`) and `FeedbackUsable`
(`FeedbackIsUsable`). Its `IInv` says of each stage that what it left is still
what the code would compute, since no later stage changes what it was computed
from. `Transparent` then is one fact about the driver: an extension that is
there supports the bits the layer sets for it.

`DeviceClockProofs` proves, for any instants, period, width, deviation and any
clocks whose drift is bounded, `ConversionCorrect` (`ConversionIsClose`),
`ReportTypeCorrect` (`ReportTypeOK`) and `SamplesAreClose` (`SampleIsClose`: a report
in a clock of the swapchain that was not asked for is off by `Misplaced`, the
distance of the two clocks, every other one by no more than its clock's error).
Its `PairInv` says that the stored pair is two readings of one moment, except
between `StoreTicks` and `StoreHost`, where the mutex is held exclusively;
`OffsetInv` that the measured offset is that of the clock that was asked for.
The bound on a conversion is the deviation, one tick and 1.5 ns. A bound of 1 ns
in place of the 1.5 does not hold: the code adds one half and truncates toward
zero, which rounds a positive difference to the nearest but moves a negative one
up by as much as 1.5. Between two timestamps converted with one pair
the deviation cancels: `ConversionKeepsOrder` (a later tick is not converted to
an earlier time) and `DurationsAreClose` (the time between them is right within
2 ns) are about the operator, in any state of the invariant.

The proofs assume only the named `ASSUME`s of the modules: an index set that is
not empty, bounds that are positive, a null slot that is not a slot; naturals
for the constants of the deadline, a positive least interval, and `None` not a
number; for the registry, that owners and parts are different handles; for
presents, that a list names swapchains and is not empty; for the negotiation,
Vulkan's rules for drivers and chains; for the clock, a positive period and a
drift of at most one in `DriftDen`. Every run evaluates them. Where a theorem
needs more (fairness, a finite set of queues or devices), its statement says so.

What is proved of liveness is proved of any number of threads, slots, swapchains
or devices, from fairness with guards (section 4). The prover has no induction
over a temporal formula, as its induction theorems take an operator. Four
theorems therefore stop at the step: `HandlesMoveUp`, the two
`DestructionProceeds` and `CombinationIsNoticed` say that a natural number
falls, and that it falls to the end is left to the reader. That makes
`DroppedHandleIsRecycled`, `DestructionCompletes`, `DestructionEnds` and
`HeldCombinationIsSeen` the properties that only TLC checks as they stand. Every
other property of a passing run is proved: the invariants, the steps and the
refinements as they stand, and `AwaitedFrameCompletes`, `CallsReturn` and
`PresentReturns` under the conditions above.

## 6. Where the code and its comments differ

| Run | What the comment says | What the code does |
|---|---|---|
| `pool_command_buffers` | `timestamp_pool.hh:104-106`: an index is returned "only when Vulkan is done with it" | the reaper waits for the end query; the command buffer that wrote it is pending until its batch completes, and the next `acquire` may re-record it |
| `mixed_ids` | `frame_pacer.cc:96-97`: ids "have to increase strictly" | an application that labels a present after one the layer labelled passes an id the layer has used |
| `hotkey_close` | `hotkey.cc:90-91`: the worker has been stopped and joined before the descriptors are closed | a destructor's body runs before its members are destroyed |
| `surface_support` | `display_feedback.hh:38-40`: using the capabilities on a surface without them "is invalid regardless of what the physical device says" | the swapchain's flag is set from the device's features; the surface is asked after the swapchain has been created |

Seen while reading, and in the modules as the code has them, but without a run:

* `swapchain_pacer.cc:256-260` drops measurements so that they are not "stitched
  across a gap in which the application ran unpaced". The flag is read once in
  each present, so an effect that is off and on again between two readings leaves
  no trace: the time is measured across. No present has run unpaced in it, and
  `MeasurementsArePaced` claims no more than that.
* `display_feedback.cc:275-276` says that one pair of readings "is enough to place
  every later sample". The pair is of the clock that `create` chose, while
  `to_time_point` goes by the domain of each report and expects domains that were
  not asked for (line 350): one of the other local domain is placed with the same
  offset, and is off by the distance between the two clocks (`Misplaced`, which
  `SampleIsClose` takes into account and nothing bounds).
* `display_feedback.cc:169-170` says of the swapchain-local domains that "they are
  no use for pacing"; the code below it chooses one when there is nothing better,
  and calibrates it. `to_time_point` does not look at `timeDomainId` either.
* `vblank_model.cc:51-54` wraps where its comment says "saturate" (`CountUp`),
  and `reset_phase` keeps the sample count, so that the trust of `MIN_SAMPLES`
  is not earned again after an interruption (`ResetPhase`).
* `display_feedback.hh:115` calls failures "consecutive" that empty polls do not
  interrupt (`PollEmpty`).
* `frame_pacer.cc:193-194` says of a refused present that "it does not repeat".
  That holds for a pacer (`FullQueueIsAbsorbed`); the swapchain the application
  then creates has a new pacer, which asks for timings again.
* `display_feedback.hh:115-117` calls timings that are requested and never read
  "actively harmful"; they are requested for every swapchain of a present and
  read for the first one (`FirstSwapchainIsRead` is about that one only).
* The bound of `config.hh:82-85` holds for each swapchain, not for a device with
  several.
* `CreateDevice` enables `present_id2` and `present_timing` for a device whose
  application did not ask for `VK_KHR_swapchain`, and `CreateSwapchainKHR` never
  sets the flag that belongs to `present_id2`; `uses_present_id2` has no caller.
* A timestamp of a queue with fewer than 64 valid bits starts over;
  `ticks_to_time` does not know the width, so `ConversionIsClose` speaks only of
  ticks of the calibration's own lap.
* `error_bound` of `device_clock.hh` is written and never read, and a failed
  calibration in the thread ends the process.

## 7. Not modelled, and what is left

Not modelled: the parsing of environment variables (`config.*`), which happens
once, when the layer is loaded, and whose results are constants and initial
values here; dispatch tables, helpers, output and the debug figures, which have
no state of their own. Left out of modelled parts: an application that itself
requests present timings; the content of command buffers; a `vkQueueSubmit` on
one queue by two threads (Vulkan forbids it); input devices that come and go;
GPU work that waits for a submission not yet made; `VK_INCOMPLETE` as the answer
to an enumeration of physical devices (`layer.cc:205` would leave those
unregistered, but the loader, which alone calls the hook, asks for all); the
precision of `double` in the conversion of differences of more than 2^53 ticks.

What could be added: a property of what the display feedback promises
about failures, once the code's comment and its counter agree; `TimestampPool`
and `SwapchainPacer` composed, so that a span of the second is the slots of the
first (today the contract between them is `AwaitedFrameCompletes` on one side
and the fairness of `GpuFinish` on the other).
