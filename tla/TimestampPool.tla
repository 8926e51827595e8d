---------------------------- MODULE TimestampPool ----------------------------
(***************************************************************************)
(* One queue's timestamp pool with the threads that share it: the thread   *)
(* that submits, the thread that presents and waits for frames, the pool's *)
(* reaper thread, and the GPU.                                             *)
(*                                                                         *)
(* A slot is a pair of queries (and the two command buffers that write     *)
(* them) of one chunk; timestamp_pool.cc names it by its even index.  A    *)
(* Handle object exists exactly while its slot is not free, so the handle  *)
(* and the slot share a name here.  A shared_ptr<Handle> has one owner at  *)
(* a time, and the variables below are the places that owner can be.       *)
(*                                                                         *)
(* Abstracted: the tick values, what is recorded in the command buffers,   *)
(* and the order the pacer picks frames in (SwapchainPacer's business).    *)
(* Each release of a shared_ptr takes the pool's mutex on its own in the   *)
(* code; releases one thread makes with nothing in between are one step.   *)
(***************************************************************************)
EXTENDS Naturals, Sequences, FiniteSets

CONSTANTS
  Chunk,       \* the query chunks the pool may come to allocate
  Index,       \* the start indices of a chunk (CHUNK_SIZE / 2 of them)
  MaxSubmit,   \* bound: VkSubmitInfos in one vkQueueSubmit
  MaxWork,     \* bound: spans the present side holds at once
  NoSlot

Slot == Chunk \X Index

ASSUME PoolAssumption ==
  /\ Index # {}
  /\ MaxSubmit \in Nat \ {0}
  /\ MaxWork \in Nat \ {0}
  /\ NoSlot \notin Slot

VARIABLES
  chunks,        \* query_chunks: the chunks allocated so far
  free,          \* the union of their free_indices
  submitPc,      \* where the submitting thread is: "building" or "notifying"
  handles,       \* the handles vector of the vkQueueSubmit under way
  wasSubmitted,  \* the handles whose was_submitted flag is set
  span,          \* QueueTracker::span
  work,          \* the spans the pacer took and has not released
  pacing,        \* the span the pacer is waiting for
  clearing,      \* the pacer is emptying `work' without waiting
  expiring,      \* expiring_handles
  reaping,       \* the handle the reaper popped and waits for
  reaperDone,    \* do_reaper has returned
  phase,         \* how far the destruction of the device has come
  available,     \* the queries whose result has been written since their reset
  unwritten,     \* the queries the GPU has accepted and not yet written
  executing      \* the slots whose command buffers Vulkan still uses

clientVars == <<submitPc, handles, wasSubmitted, span, work, pacing, clearing>>
poolVars == <<chunks, free, expiring, reaping, reaperDone>>
gpuVars == <<available, unwritten, executing>>
vars == <<clientVars, poolVars, gpuVars, phase>>

NoSpan == [head |-> NoSlot, tail |-> NoSlot]
Span == [head : Slot, tail : Slot \union {NoSlot}]

RangeOf(q) == {q[i] : i \in DOMAIN q}
SpanSlots(w) == {w.head, w.tail} \ {NoSlot}

\* The destructor of a span releases its tail, then its head.
Released(w) == IF w.tail = NoSlot THEN <<w.head>> ELSE <<w.tail, w.head>>

\* The two queries of a slot: TOP_OF_PIPE at offset 0, BOTTOM_OF_PIPE at 1.
Queries(s) == {s} \X {0, 1}
StartWritten(s) == <<s, 0>> \in available
EndWritten(s) == <<s, 1>> \in available

Init ==
  /\ chunks = {}
  /\ free = {}
  /\ submitPc = "building"
  /\ handles = <<>>
  /\ wasSubmitted = {}
  /\ span = NoSpan
  /\ work = {}
  /\ pacing = NoSpan
  /\ clearing = FALSE
  /\ expiring = <<>>
  /\ reaping = NoSlot
  /\ reaperDone = FALSE
  /\ phase = "alive"
  /\ available = {}
  /\ unwritten = {}
  /\ executing = {}

-----------------------------------------------------------------------------
(* The submitting thread. *)

\* Any chunk with a free index serves; only when none has one is a new chunk
\* allocated, with all of its indices free.
TakeFree(s) ==
  IF free # {}
  THEN /\ s \in free
       /\ free' = free \ {s}
       /\ UNCHANGED chunks
  ELSE /\ s[1] \notin chunks
       /\ chunks' = chunks \union {s[1]}
       /\ free' = ({s[1]} \X Index) \ {s}

\* TimestampPool::acquire, called once for each VkSubmitInfo.  The Handle's
\* constructor resets both queries and re-records both command buffers.
Acquire(s) ==
  /\ phase = "alive"
  /\ submitPc = "building"
  /\ Len(handles) < MaxSubmit
  /\ TakeFree(s)
  /\ handles' = Append(handles, s)
  /\ wasSubmitted' = wasSubmitted \ {s}
  /\ available' = available \ Queries(s)
  /\ UNCHANGED <<submitPc, span, work, pacing, clearing, expiring, reaping,
                 reaperDone, unwritten, executing, phase>>

\* Wrong on purpose: only the first VkSubmitInfo gets its command buffers.
SubmitOkFirstOnly ==
  /\ submitPc = "building"
  /\ handles # <<>>
  /\ submitPc' = "notifying"
  /\ unwritten' = unwritten \union Queries(Head(handles))
  /\ executing' = executing \union {Head(handles)}
  /\ UNCHANGED <<handles, wasSubmitted, span, work, pacing, clearing,
                 poolVars, available, phase>>

\* The driver accepts the batch: from here on the GPU writes the queries.
SubmitOk ==
  /\ submitPc = "building"
  /\ handles # <<>>
  /\ submitPc' = "notifying"
  /\ unwritten' = unwritten \union UNION {Queries(s) : s \in RangeOf(handles)}
  /\ executing' = executing \union RangeOf(handles)
  /\ UNCHANGED <<handles, wasSubmitted, span, work, pacing, clearing,
                 poolVars, available, phase>>

\* The driver refuses: the handles are dropped with was_submitted unset.
SubmitFail ==
  /\ submitPc = "building"
  /\ handles # <<>>
  /\ expiring' = expiring \o handles
  /\ handles' = <<>>
  /\ UNCHANGED <<submitPc, wasSubmitted, span, work, pacing, clearing, chunks,
                 free, reaping, reaperDone, gpuVars, phase>>

\* Wrong on purpose: the tail that is replaced is not handed back.
TrackLosesTail(s) ==
  /\ span' = IF span = NoSpan THEN [head |-> s, tail |-> NoSlot]
                              ELSE [span EXCEPT !.tail = s]
  /\ UNCHANGED expiring

\* QueueTracker::notify_submit with SubmissionSpan::update: the first handle
\* of a frame becomes the head for good, a later one replaces the tail.
Track(s) ==
  IF span = NoSpan
  THEN /\ span' = [head |-> s, tail |-> NoSlot]
       /\ UNCHANGED expiring
  ELSE /\ span' = [span EXCEPT !.tail = s]
       /\ expiring' = IF span.tail = NoSlot THEN expiring
                                            ELSE Append(expiring, span.tail)

\* Wrong on purpose: the tracker hears of a handle before the submission.
NotifyEarly ==
  /\ handles # <<>>
  /\ wasSubmitted' = wasSubmitted \union {Head(handles)}
  /\ Track(Head(handles))
  /\ handles' = Tail(handles)
  /\ submitPc' = IF Tail(handles) = <<>> THEN "building" ELSE submitPc
  /\ UNCHANGED <<work, pacing, clearing, chunks, free, reaping, reaperDone,
                 gpuVars, phase>>

\* One turn of the loop that follows a successful submission.
Notify ==
  /\ submitPc = "notifying"
  /\ wasSubmitted' = wasSubmitted \union {Head(handles)}
  /\ Track(Head(handles))
  /\ handles' = Tail(handles)
  /\ submitPc' = IF Tail(handles) = <<>> THEN "building" ELSE "notifying"
  /\ UNCHANGED <<work, pacing, clearing, chunks, free, reaping, reaperDone,
                 gpuVars, phase>>

-----------------------------------------------------------------------------
(* The presenting thread. *)

\* FramePacer::collect_work takes the span of the queue.
Take ==
  /\ phase = "alive"
  /\ pacing = NoSpan
  /\ ~clearing
  /\ span # NoSpan
  /\ Cardinality(work) < MaxWork
  /\ work' = work \union {span}
  /\ span' = NoSpan
  /\ UNCHANGED <<submitPc, handles, wasSubmitted, pacing, clearing, poolVars,
                 gpuVars, phase>>

\* SwapchainPacer::await_work starts to wait for a frame it took.
BeginAwait(w) ==
  /\ phase = "alive"
  /\ pacing = NoSpan
  /\ ~clearing
  /\ pacing' = w
  /\ UNCHANGED <<submitPc, handles, wasSubmitted, span, work, clearing,
                 poolVars, gpuVars, phase>>

\* SubmissionSpan::await_completed returns, and the frame is released.
EndAwait ==
  /\ pacing # NoSpan
  /\ StartWritten(pacing.head)
  /\ EndWritten(IF pacing.tail = NoSlot THEN pacing.head ELSE pacing.tail)
  /\ work' = work \ {pacing}
  /\ pacing' = NoSpan
  /\ expiring' = expiring \o Released(pacing)
  /\ UNCHANGED <<submitPc, handles, wasSubmitted, span, clearing, chunks, free,
                 reaping, reaperDone, gpuVars, phase>>

\* Wrong on purpose: cleared although another thread waits for a frame.
BeginClearWhilePacing ==
  /\ phase = "alive"
  /\ ~clearing
  /\ work # {}
  /\ clearing' = TRUE
  /\ UNCHANGED <<submitPc, handles, wasSubmitted, span, work, pacing, poolVars,
                 gpuVars, phase>>

\* The effect is toggled off, or the swapchain goes: pending is cleared.
BeginClear ==
  /\ phase = "alive"
  /\ pacing = NoSpan
  /\ ~clearing
  /\ work # {}
  /\ clearing' = TRUE
  /\ UNCHANGED <<submitPc, handles, wasSubmitted, span, work, pacing, poolVars,
                 gpuVars, phase>>

Clear(w) ==
  /\ clearing
  /\ work' = work \ {w}
  /\ clearing' = (work' # {})
  /\ expiring' = expiring \o Released(w)
  /\ UNCHANGED <<submitPc, handles, wasSubmitted, span, pacing, chunks, free,
                 reaping, reaperDone, gpuVars, phase>>

-----------------------------------------------------------------------------
(* The reaper thread: do_reaper. *)

ReaperPop ==
  /\ ~reaperDone
  /\ reaping = NoSlot
  /\ expiring # <<>>
  /\ reaping' = Head(expiring)
  /\ expiring' = Tail(expiring)
  /\ UNCHANGED <<clientVars, chunks, free, reaperDone, gpuVars, phase>>

\* Wrong on purpose: an index is returned without waiting.
RecycleAtOnce ==
  /\ reaping # NoSlot
  /\ free' = free \union {reaping}
  /\ reaping' = NoSlot
  /\ UNCHANGED <<clientVars, chunks, expiring, reaperDone, gpuVars, phase>>

\* Wrong on purpose: the reaper waits for the first query only.
RecycleAfterStart ==
  /\ reaping # NoSlot
  /\ reaping \in wasSubmitted => StartWritten(reaping)
  /\ free' = free \union {reaping}
  /\ reaping' = NoSlot
  /\ UNCHANGED <<clientVars, chunks, expiring, reaperDone, gpuVars, phase>>


\* Wrong on purpose: the reaper waits for handles that were never submitted.
RecycleSubmittedOnly ==
  /\ reaping # NoSlot
  /\ EndWritten(reaping)
  /\ free' = free \union {reaping}
  /\ reaping' = NoSlot
  /\ UNCHANGED <<clientVars, chunks, expiring, reaperDone, gpuVars, phase>>

\* await_end returns (or is skipped), and the index goes back to its chunk.
ReaperRecycle ==
  /\ reaping # NoSlot
  /\ reaping \in wasSubmitted => EndWritten(reaping)
  /\ free' = free \union {reaping}
  /\ reaping' = NoSlot
  /\ UNCHANGED <<clientVars, chunks, expiring, reaperDone, gpuVars, phase>>

\* Stop was requested and nothing is left to free.
ReaperExit ==
  /\ phase = "stopping"
  /\ ~reaperDone
  /\ reaping = NoSlot
  /\ expiring = <<>>
  /\ reaperDone' = TRUE
  /\ UNCHANGED <<clientVars, chunks, free, expiring, reaping, gpuVars, phase>>

-----------------------------------------------------------------------------
(* Destruction of the device: vkDestroyDevice may not run beside another   *)
(* call on the device.  ~DeviceContext destroys the pacer before the       *)
(* queues, ~QueueContext the tracker before the pool, and ~TimestampPool   *)
(* joins the reaper before it destroys the chunks.                         *)

DestroyPacer ==
  /\ phase = "alive"
  /\ handles = <<>>
  /\ pacing = NoSpan
  /\ ~clearing
  /\ phase' = "noPacer"
  /\ clearing' = (work # {})
  /\ UNCHANGED <<submitPc, handles, wasSubmitted, span, work, pacing, poolVars,
                 gpuVars>>

\* Wrong on purpose: the reaper is joined before it is asked to stop.
DestroyTrackerJoinsFirst ==
  /\ phase = "noPacer"
  /\ ~clearing
  /\ reaperDone
  /\ phase' = "stopping"
  /\ span' = NoSpan
  /\ expiring' = IF span = NoSpan THEN expiring ELSE expiring \o Released(span)
  /\ UNCHANGED <<submitPc, handles, wasSubmitted, work, pacing, clearing,
                 chunks, free, reaping, reaperDone, gpuVars>>

DestroyTracker ==
  /\ phase = "noPacer"
  /\ ~clearing
  /\ phase' = "stopping"
  /\ span' = NoSpan
  /\ expiring' = IF span = NoSpan THEN expiring ELSE expiring \o Released(span)
  /\ UNCHANGED <<submitPc, handles, wasSubmitted, work, pacing, clearing,
                 chunks, free, reaping, reaperDone, gpuVars>>

\* Wrong on purpose: the chunks go without the reaper being joined.
DestroyChunksUnjoined ==
  /\ phase = "stopping"
  /\ phase' = "destroyed"
  /\ chunks' = {}
  /\ free' = {}
  /\ UNCHANGED <<clientVars, expiring, reaping, reaperDone, gpuVars>>

DestroyChunks ==
  /\ phase = "stopping"
  /\ reaperDone
  /\ phase' = "destroyed"
  /\ chunks' = {}
  /\ free' = {}
  /\ UNCHANGED <<clientVars, expiring, reaping, reaperDone, gpuVars>>

-----------------------------------------------------------------------------
(* The GPU (external).  A slot's start is written before its end; the      *)
(* model assumes no order between slots.  The command buffers stay pending *)
(* until the whole batch has completed, which is after its last query.     *)

GpuWrite(s) ==
  \E offset \in {0, 1} :
    /\ <<s, offset>> \in unwritten
    /\ offset = 1 => StartWritten(s)
    /\ unwritten' = unwritten \ {<<s, offset>>}
    /\ available' = available \union {<<s, offset>>}
    /\ UNCHANGED <<clientVars, poolVars, executing, phase>>

GpuRetire(s) ==
  /\ s \in executing
  /\ StartWritten(s) /\ EndWritten(s)
  /\ executing' = executing \ {s}
  /\ UNCHANGED <<clientVars, poolVars, available, unwritten, phase>>

-----------------------------------------------------------------------------
(* The next-state relation. *)

Submitter == (\E s \in Slot : Acquire(s)) \/ SubmitOk \/ SubmitFail \/ Notify
Pacer ==
  \/ Take \/ EndAwait \/ BeginClear
  \/ \E w \in work : BeginAwait(w) \/ Clear(w)
Reaper == ReaperPop \/ ReaperRecycle \/ ReaperExit
Destroyer == DestroyPacer \/ DestroyTracker \/ DestroyChunks
Gpu == \E s \in Slot : GpuWrite(s) \/ GpuRetire(s)

Terminated == phase = "destroyed" /\ UNCHANGED vars

Next == Submitter \/ Pacer \/ Reaper \/ Destroyer \/ Gpu \/ Terminated

Spec == Init /\ [][Next]_vars

(* The GPU finishes what it accepted, the reaper runs, and a loop a thread *)
(* is inside goes on.  Nothing makes the application submit, present or    *)
(* destroy the device; once begun, a destruction goes through.             *)
Fairness ==
  /\ \A s \in Slot : WF_vars(GpuWrite(s)) /\ WF_vars(GpuRetire(s))
  /\ WF_vars(Reaper)
  /\ WF_vars(Notify)
  /\ WF_vars(EndAwait)
  /\ WF_vars(\E w \in work : Clear(w))
  /\ WF_vars(DestroyTracker)
  /\ WF_vars(DestroyChunks)

FairSpec == Spec /\ Fairness
-----------------------------------------------------------------------------
(* Properties. *)

SpansSlots(W) == UNION {SpanSlots(w) : w \in W}

TypeOK ==
  /\ chunks \subseteq Chunk
  /\ free \subseteq Slot
  /\ submitPc \in {"building", "notifying"}
  /\ handles \in Seq(Slot)
  /\ wasSubmitted \subseteq Slot
  /\ span \in Span \union {NoSpan}
  /\ work \subseteq Span
  /\ pacing \in work \union {NoSpan}
  /\ clearing \in BOOLEAN
  /\ expiring \in Seq(Slot)
  /\ reaping \in Slot \union {NoSlot}
  /\ reaperDone \in BOOLEAN
  /\ phase \in {"alive", "noPacer", "stopping", "destroyed"}
  /\ available \subseteq Slot \X {0, 1}
  /\ unwritten \subseteq Slot \X {0, 1}
  /\ executing \subseteq Slot

\* The slots of the handles that exist, wherever the shared_ptr is.
Leased ==
  RangeOf(handles) \union SpanSlots(span) \union SpansSlots(work)
    \union RangeOf(expiring) \union ({reaping} \ {NoSlot})

\* The slots with a query the GPU has still to write.
Outstanding == {s \in Slot : Queries(s) \intersect unwritten # {}}

\* An index in free_indices is one the GPU will not write any more: the next
\* acquire resets its queries and records over its command buffers, and a late
\* timestamp of the old frame would be read as the new one's.
NoWriteToFreeSlot == free \intersect Outstanding = {}

\* Whatever the threads do, a slot of an allocated chunk is in exactly one
\* place: free, or with one owner of its handle.  An index in no place is lost
\* for good, one in two places is handed to two submissions.
NoDuplicates(q) == \A i, j \in DOMAIN q : i # j => q[i] # q[j]
Places == <<free, RangeOf(handles), SpanSlots(span), SpansSlots(work),
            RangeOf(expiring), {reaping} \ {NoSlot}>>
OneOwner ==
  /\ \A i, j \in 1..6 : i # j => Places[i] \intersect Places[j] = {}
  /\ \A w, x \in work : w # x => SpanSlots(w) \intersect SpanSlots(x) = {}
  /\ \A w \in work \union {span} : w # NoSpan => w.head # w.tail
  /\ NoDuplicates(handles) /\ NoDuplicates(expiring)
  /\ free \union Leased = {s \in Slot : s[1] \in chunks}

\* "We have to notify after we submit - otherwise we have a race where we wait
\* for work that wasn't submitted": every handle the presenting thread can
\* reach is one whose queries the GPU writes or has written.
OnlySubmittedWorkIsTracked ==
  \A s \in SpanSlots(span) \union SpansSlots(work) :
    /\ s \in wasSubmitted
    /\ Queries(s) \subseteq available \union unwritten

\* A destruction is complete: no handle exists after the reaper has left its
\* loop, so none can be dropped into a queue that nobody reads, and the GPU
\* writes no query of a chunk that is destroyed.
NothingIsLeftBehind ==
  /\ reaperDone => Leased = {}
  /\ phase = "destroyed" => Outstanding = {}

\* A handle that was dropped comes back: the reaper is never stuck behind a
\* query that nobody writes, and never forgets one.
DroppedHandleIsRecycled ==
  \A s \in Slot : (s \in RangeOf(expiring)) ~> (s \in free)

\* The present that waits for a frame returns.
AwaitedFrameCompletes == (pacing # NoSpan) ~> (pacing = NoSpan)

\* "Keep going and free everything before destructing": a destruction that has
\* begun ends.
DestructionCompletes == (phase # "alive") ~> (phase = "destroyed")

\* timestamp_pool.hh:103-106 says of a handle that its index is returned "only
\* when Vulkan is done with it"; the command buffers are in use until their
\* batch has completed, and acquire resets them.
CommandBuffersAreDone == free \intersect executing = {}

\* The pool implements the contract its header states.
Lease == INSTANCE QueryLease WITH leased <- Leased, outstanding <- Outstanding
LeaseContract == Lease!Spec
=============================================================================
