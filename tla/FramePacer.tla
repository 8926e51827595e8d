----------------------------- MODULE FramePacer -----------------------------
(***************************************************************************)
(* The presents of one device: application threads that present, create    *)
(* and destroy swapchains, FramePacer's two locks, the ids and timing      *)
(* requests it chains into a present, and the driver that consumes them.   *)
(*                                                                         *)
(* FramePacer::mutex is a shared_mutex.  Its exclusive sections and the    *)
(* short shared ones block on nothing and are one step each; only the      *)
(* shared section of PresentScope::finish is held while a thread waits     *)
(* (for the GPU, then for the release time), so the threads whose pc is    *)
(* "pacing" are the readers an exclusive section has to wait for.          *)
(*                                                                         *)
(* Abstracted: what is waited for while pacing (TimestampPool models the   *)
(* wait), the content of a timing result, and the results other than       *)
(* success, out of date and a full timing queue.                           *)
(***************************************************************************)
EXTENDS Naturals, Sequences, FiniteSets

CONSTANTS
  Thread,            \* application threads
  Swapchain,         \* the handles the driver gives to swapchains
  TimingQueueSize,   \* TIMING_QUEUE_SIZE
  MaxPollFailures,   \* MAX_POLL_FAILURES
  Labelled,          \* swapchain lists presented with ids of the application
  Unlabelled,        \* swapchain lists presented without
  Relabels,          \* it may label again after a present it did not label
  MaxId,             \* bound: largest present id
  MaxRefused,        \* bound: no present begins after so many were refused
  NoThread, NoPacer

\* What matters of a SwapchainPacer here.
Pacer == {p \in [feedback : BOOLEAN, nextId : Nat, failures : 0..MaxPollFailures] :
            p.feedback => p.failures < MaxPollFailures}

ASSUME FramePacerAssumption ==
  /\ Labelled \union Unlabelled \subseteq Seq(Swapchain) \ {<<>>}
  /\ TimingQueueSize \in Nat \ {0}
  /\ MaxPollFailures \in Nat \ {0}
  /\ MaxId \in Nat /\ MaxRefused \in Nat
  /\ Relabels \in BOOLEAN
  /\ NoThread \notin Thread /\ NoPacer \notin Pacer

VARIABLES
  pc,          \* where each thread is
  chains,      \* the swapchains its call is about
  appIds,      \* the ids the application gave its present, or <<>>
  requested,   \* the swapchains the present in flight asks timings for
  result,      \* what the driver, then the layer, answers
  pacers,      \* FramePacer::pacers
  holder,      \* the thread that holds present_mutex
  patchOwner,  \* whose present the patch and in_flight_ids describe
  inFlight,    \* in_flight_ids, by swapchain; 0 for no id
  live,        \* the driver's swapchains
  lastId,      \* the driver's last present id of each
  queued,      \* timing requests the display has not answered
  complete,    \* timing results nobody has read
  appLast,     \* the application's own last id for each swapchain
  unpolled,    \* presents with a timing request since the last poll
  refused,     \* presents refused for a full queue since the pacer was made
  refusedEver  \* presents refused for a full queue

layerVars == <<pacers, holder, patchOwner, inFlight>>
\* The swapchain lists a present may name.
Presents == Labelled \union Unlabelled

threadVars == <<pc, chains, appIds, requested, result>>
driverVars == <<live, lastId, queued, complete>>
historyVars == <<appLast, unpolled, refused, refusedEver>>
vars == <<threadVars, layerVars, driverVars, historyVars>>

NewPacer(feedback) == [feedback |-> feedback, nextId |-> 1, failures |-> 0]

Named(t) == {chains[t][i] : i \in DOMAIN chains[t]}
First(t) == Head(chains[t])
HasPacer(s) == pacers[s] # NoPacer
HasFeedback(s) == HasPacer(s) /\ pacers[s].feedback
Readers == {t \in Thread : pc[t] = "pacing"}

\* Vulkan leaves a swapchain to one call at a time.
InUse == UNION {Named(t) : t \in {u \in Thread : pc[u] # "idle"}}

Init ==
  /\ pc = [t \in Thread |-> "idle"]
  /\ chains = [t \in Thread |-> <<>>]
  /\ appIds = [t \in Thread |-> <<>>]
  /\ requested = [t \in Thread |-> {}]
  /\ result = [t \in Thread |-> "none"]
  /\ pacers = [s \in Swapchain |-> NoPacer]
  /\ holder = NoThread
  /\ patchOwner = NoThread
  /\ inFlight = [s \in Swapchain |-> 0]
  /\ live = {}
  /\ lastId = [s \in Swapchain |-> 0]
  /\ queued = [s \in Swapchain |-> 0]
  /\ complete = [s \in Swapchain |-> 0]
  /\ appLast = [s \in Swapchain |-> 0]
  /\ unpolled = [s \in Swapchain |-> 0]
  /\ refused = [s \in Swapchain |-> 0]
  /\ refusedEver = 0

Goto(t, where) == pc' = [pc EXCEPT ![t] = where]
Return(t) ==
  /\ Goto(t, "idle")
  /\ chains' = [chains EXCEPT ![t] = <<>>]
  /\ appIds' = [appIds EXCEPT ![t] = <<>>]
  /\ requested' = [requested EXCEPT ![t] = {}]
  /\ result' = [result EXCEPT ![t] = "none"]

-----------------------------------------------------------------------------
(* vkQueuePresentKHR. *)

\* The application presents, with ids of its own or without.  Its ids grow
\* from present to present; it knows nothing of the layer's.
MayPresent(s) ==
  /\ s \in live \ InUse
  /\ HasPacer(s) => pacers[s].nextId <= MaxId
Labels(list) == {ids \in [DOMAIN list -> 1..MaxId] :
                   \A i \in DOMAIN list : ids[i] > appLast[list[i]]}

Present(t, list) ==
  /\ pc[t] = "idle"
  /\ \A i \in DOMAIN list : MayPresent(list[i])
  /\ refusedEver < MaxRefused
  /\ Goto(t, "locking")
  /\ chains' = [chains EXCEPT ![t] = list]
  /\ \/ /\ list \in Unlabelled
        /\ UNCHANGED <<appIds, appLast>>
     \/ /\ list \in Labelled
        /\ Relabels \/ \A i \in DOMAIN list : lastId[list[i]] = appLast[list[i]]
        /\ \E ids \in Labels(list) :
             /\ appIds' = [appIds EXCEPT ![t] = ids]
             /\ appLast' = [s \in Swapchain |->
                  IF \E i \in DOMAIN list : list[i] = s
                  THEN ids[CHOOSE i \in DOMAIN list : list[i] = s]
                  ELSE appLast[s]]
  /\ UNCHANGED <<requested, result, layerVars, driverVars, unpolled, refused,
                 refusedEver>>

\* Wrong on purpose: present_mutex is not waited for.
LockPresentAnyway(t) ==
  /\ pc[t] = "locking"
  /\ holder' = t
  /\ Goto(t, "patching")
  /\ UNCHANGED <<chains, appIds, requested, result, pacers, patchOwner,
                 inFlight, driverVars, historyVars>>

\* begin_present takes present_mutex first ...
LockPresent(t) ==
  /\ pc[t] = "locking"
  /\ holder = NoThread
  /\ holder' = t
  /\ Goto(t, "patching")
  /\ UNCHANGED <<chains, appIds, requested, result, pacers, patchOwner,
                 inFlight, driverVars, historyVars>>

\* ... then, under the shared lock, gives each swapchain that has a pacer the
\* application's id or one of the layer's own, and asks for timings wherever
\* there is feedback.
IdOf(t, s) ==
  LET i == CHOOSE j \in DOMAIN chains[t] : chains[t][j] = s
  IN IF ~HasPacer(s) THEN 0
     ELSE IF appIds[t] # <<>> THEN appIds[t][i]
     ELSE IF pacers[s].feedback THEN pacers[s].nextId ELSE 0
Larger(a, b) == IF a > b THEN a ELSE b

\* Wrong on purpose: an id of the application is used but not adopted.
PatchForgetsAppIds(t) ==
  /\ pc[t] = "patching"
  /\ Goto(t, "presenting")
  /\ patchOwner' = t
  /\ inFlight' = [s \in Swapchain |-> IF s \in Named(t) THEN IdOf(t, s) ELSE 0]
  /\ pacers' = [s \in Swapchain |->
       IF s \in Named(t) /\ IdOf(t, s) # 0 /\ appIds[t] = <<>>
       THEN [pacers[s] EXCEPT !.nextId = @ + 1] ELSE pacers[s]]
  /\ requested' = [requested EXCEPT ![t] = {s \in Named(t) : HasFeedback(s)}]
  /\ UNCHANGED <<chains, appIds, result, holder, driverVars, historyVars>>

Patch(t) ==
  /\ pc[t] = "patching"
  /\ Goto(t, "presenting")
  /\ patchOwner' = t
  /\ inFlight' = [s \in Swapchain |-> IF s \in Named(t) THEN IdOf(t, s) ELSE 0]
  /\ pacers' = [s \in Swapchain |->
       IF s \in Named(t) /\ IdOf(t, s) # 0
       THEN [pacers[s] EXCEPT !.nextId = Larger(@, IdOf(t, s) + 1)]
       ELSE pacers[s]]
  /\ requested' = [requested EXCEPT ![t] = {s \in Named(t) : HasFeedback(s)}]
  /\ UNCHANGED <<chains, appIds, result, holder, driverVars, historyVars>>

\* The driver (external) refuses a present whose timing request finds the
\* queue of its swapchain full, and otherwise presents it or finds it out of
\* date.  It reads the patch buffer during the call.
IsFull(s) == queued[s] + complete[s] >= TimingQueueSize
Refused(t) == {s \in requested[t] : \E r \in requested[t] : IsFull(r)}

DriverPresent(t) ==
  /\ pc[t] = "presenting"
  /\ Goto(t, "finishing")
  /\ lastId' = [s \in Swapchain |->
       IF s \in Named(t) /\ inFlight[s] # 0 THEN inFlight[s] ELSE lastId[s]]
  /\ unpolled' = [s \in Swapchain |->
       IF s \in requested[t] THEN unpolled[s] + 1 ELSE unpolled[s]]
  /\ refused' = [s \in Swapchain |->
       IF s \in Refused(t) THEN refused[s] + 1 ELSE refused[s]]
  /\ \/ /\ Refused(t) # {}
        /\ result' = [result EXCEPT ![t] = "queueFull"]
        /\ refusedEver' = refusedEver + 1
        /\ UNCHANGED queued
     \/ /\ Refused(t) = {}
        /\ result' = [result EXCEPT ![t] = "success"]
        /\ queued' = [s \in Swapchain |->
             IF s \in requested[t] THEN queued[s] + 1 ELSE queued[s]]
        /\ UNCHANGED refusedEver
     \/ /\ Refused(t) = {}
        /\ result' = [result EXCEPT ![t] = "outOfDate"]
        /\ UNCHANGED <<queued, refusedEver>>
  /\ UNCHANGED <<chains, appIds, requested, layerVars, live, complete, appLast>>

\* The first half of PresentScope::finish: a full queue costs every swapchain
\* of the present its feedback and is reported as out of date, unless the
\* present was not patched.  Then present_mutex is released.
Patched(t) == requested[t] # {}
Effective(t) ==
  IF result[t] = "queueFull" /\ Patched(t) THEN "outOfDate" ELSE result[t]

\* Nobody reads what is left in the buffers before the next present fills them.
ForgetPatch ==
  /\ patchOwner' = NoThread
  /\ inFlight' = [s \in Swapchain |-> 0]

\* Wrong on purpose: only the first swapchain loses its feedback.
FinishPatchFirstOnly(t) ==
  /\ pc[t] = "finishing"
  /\ pacers' = [s \in Swapchain |->
       IF result[t] = "queueFull" /\ s = First(t) /\ HasPacer(s)
       THEN [pacers[s] EXCEPT !.feedback = FALSE] ELSE pacers[s]]
  /\ result' = [result EXCEPT ![t] = Effective(t)]
  /\ holder' = NoThread
  /\ Goto(t, "collecting")
  /\ ForgetPatch
  /\ UNCHANGED <<chains, appIds, requested, driverVars, historyVars>>

\* Wrong on purpose: an early return with present_mutex held.
FinishPatchKeepsLock(t) ==
  /\ pc[t] = "finishing"
  /\ pacers' = [s \in Swapchain |->
       IF result[t] = "queueFull" /\ s \in Named(t) /\ HasPacer(s)
       THEN [pacers[s] EXCEPT !.feedback = FALSE] ELSE pacers[s]]
  /\ result' = [result EXCEPT ![t] = Effective(t)]
  /\ holder' = IF result[t] = "queueFull" THEN holder ELSE NoThread
  /\ Goto(t, "collecting")
  /\ ForgetPatch
  /\ UNCHANGED <<chains, appIds, requested, driverVars, historyVars>>

FinishPatch(t) ==
  /\ pc[t] = "finishing"
  /\ pacers' = [s \in Swapchain |->
       IF result[t] = "queueFull" /\ s \in Named(t) /\ HasPacer(s)
       THEN [pacers[s] EXCEPT !.feedback = FALSE] ELSE pacers[s]]
  /\ result' = [result EXCEPT ![t] = Effective(t)]
  /\ holder' = NoThread
  /\ Goto(t, "collecting")
  /\ ForgetPatch
  /\ UNCHANGED <<chains, appIds, requested, driverVars, historyVars>>

\* The second half: only the first swapchain is paced, under the shared lock.
\* pace() polls the feedback before it waits; a feedback that has failed too
\* often is dropped.
PollSucceeds(s) ==
  /\ complete' = [complete EXCEPT ![s] = 0]
  /\ pacers' = [pacers EXCEPT ![s].failures =
       IF complete[s] > 0 THEN 0 ELSE @]
\* Wrong on purpose: feedback that keeps failing is kept.
PollFailsForGood(s) ==
  /\ pacers' = [pacers EXCEPT ![s].failures = @ + 1]
  /\ complete' \in {complete, [complete EXCEPT ![s] = 0]}

PollFails(s) ==
  /\ pacers' = [pacers EXCEPT ![s] =
       [pacers[s] EXCEPT !.failures = @ + 1,
                         !.feedback = pacers[s].failures + 1 < MaxPollFailures]]
  /\ complete' \in {complete, [complete EXCEPT ![s] = 0]}

\* Wrong on purpose: a present that did not go through does not poll.
BeginPacePresented(t) ==
  /\ pc[t] = "collecting"
  /\ HasPacer(First(t))
  /\ Goto(t, "pacing")
  /\ IF HasFeedback(First(t)) /\ result[t] = "success"
     THEN /\ PollSucceeds(First(t)) \/ PollFails(First(t))
          /\ unpolled' = [unpolled EXCEPT ![First(t)] = 0]
     ELSE UNCHANGED <<pacers, complete, unpolled>>
  /\ UNCHANGED <<chains, appIds, requested, result, holder, patchOwner,
                 inFlight, live, lastId, queued, appLast, refused, refusedEver>>

BeginPace(t) ==
  /\ pc[t] = "collecting"
  /\ HasPacer(First(t))
  /\ Goto(t, "pacing")
  /\ IF HasFeedback(First(t))
     THEN /\ PollSucceeds(First(t)) \/ PollFails(First(t))
          /\ unpolled' = [unpolled EXCEPT ![First(t)] = 0]
     ELSE UNCHANGED <<pacers, complete, unpolled>>
  /\ UNCHANGED <<chains, appIds, requested, result, holder, patchOwner,
                 inFlight, live, lastId, queued, appLast, refused, refusedEver>>

EndPace(t) ==
  /\ pc[t] = "pacing"
  /\ Return(t)
  /\ UNCHANGED <<layerVars, driverVars, historyVars>>

-----------------------------------------------------------------------------
(* vkCreateSwapchainKHR and vkDestroySwapchainKHR: the pacer is there only  *)
(* while the driver's swapchain is.                                        *)

Create(t, s) ==
  /\ pc[t] = "idle"
  /\ s \notin live
  /\ live' = live \union {s}
  /\ chains' = [chains EXCEPT ![t] = <<s>>]
  /\ Goto(t, "inserting")
  /\ UNCHANGED <<appIds, requested, result, layerVars, lastId, queued, complete,
                 historyVars>>

\* There is feedback only where the surface, the present mode and the
\* configured mode allow it.
NotifyCreate(t) ==
  /\ pc[t] = "inserting"
  /\ Readers = {}
  /\ \E feedback \in BOOLEAN :
       pacers' = [pacers EXCEPT ![First(t)] = NewPacer(feedback)]
  /\ Return(t)
  /\ UNCHANGED <<holder, patchOwner, inFlight, driverVars, historyVars>>

Destroy(t, s) ==
  /\ pc[t] = "idle"
  /\ s \in live \ InUse
  /\ chains' = [chains EXCEPT ![t] = <<s>>]
  /\ Goto(t, "erasing")
  /\ UNCHANGED <<appIds, requested, result, layerVars, driverVars, historyVars>>

\* Wrong on purpose: the pacer is not erased.
NotifyDestroyKeepsPacer(t) ==
  /\ pc[t] = "erasing"
  /\ Readers = {}
  /\ Goto(t, "destroying")
  /\ UNCHANGED <<chains, appIds, requested, result, layerVars, driverVars,
                 historyVars>>

NotifyDestroy(t) ==
  /\ pc[t] = "erasing"
  /\ Readers = {}
  /\ pacers' = [pacers EXCEPT ![First(t)] = NoPacer]
  /\ Goto(t, "destroying")
  /\ UNCHANGED <<chains, appIds, requested, result, holder, patchOwner,
                 inFlight, driverVars, historyVars>>

DriverDestroy(t) ==
  /\ pc[t] = "destroying"
  /\ live' = live \ {First(t)}
  /\ lastId' = [lastId EXCEPT ![First(t)] = 0]
  /\ queued' = [queued EXCEPT ![First(t)] = 0]
  /\ complete' = [complete EXCEPT ![First(t)] = 0]
  /\ appLast' = [appLast EXCEPT ![First(t)] = 0]
  /\ unpolled' = [unpolled EXCEPT ![First(t)] = 0]
  /\ refused' = [refused EXCEPT ![First(t)] = 0]
  /\ Return(t)
  /\ UNCHANGED <<layerVars, refusedEver>>

-----------------------------------------------------------------------------
\* The display (external) answers the oldest timing request of a swapchain.
Display(s) ==
  /\ queued[s] > 0
  /\ queued' = [queued EXCEPT ![s] = @ - 1]
  /\ complete' = [complete EXCEPT ![s] = @ + 1]
  /\ UNCHANGED <<threadVars, layerVars, live, lastId, historyVars>>

\* What a thread does by itself once it has entered a call.
Proceed(t) ==
  \/ Patch(t) \/ DriverPresent(t) \/ FinishPatch(t)
  \/ BeginPace(t) \/ EndPace(t) \/ DriverDestroy(t)
Enter(t) ==
  \/ \E list \in Presents : Present(t, list)
  \/ \E s \in Swapchain : Create(t, s) \/ Destroy(t, s)
Acquire(t) == LockPresent(t) \/ NotifyCreate(t) \/ NotifyDestroy(t)

Next ==
  \/ \E t \in Thread : Enter(t) \/ Acquire(t) \/ Proceed(t)
  \/ \E s \in Swapchain : Display(s)

Spec == Init /\ [][Next]_vars

(* A call that has begun goes on: the GPU finishes what pace() waits for,   *)
(* and a thread that finds a lock free again and again gets it.  Strong    *)
(* fairness for the locks, since neither mutex queues its waiters; it does *)
(* not make overlapping readers let a writer in.                           *)
Fairness == \A t \in Thread : WF_vars(Proceed(t)) /\ SF_vars(Acquire(t))

FairSpec == Spec /\ Fairness

-----------------------------------------------------------------------------
(* Properties. *)

TypeOK ==
  /\ pc \in [Thread -> {"idle", "locking", "patching", "presenting",
                        "finishing", "collecting", "pacing", "inserting",
                        "erasing", "destroying"}]
  /\ chains \in [Thread -> Presents \union {<<s>> : s \in Swapchain} \union {<<>>}]
  /\ DOMAIN appIds = Thread
  /\ \A t \in Thread : appIds[t] = <<>> \/ appIds[t] \in [DOMAIN chains[t] -> 1..MaxId]
  /\ requested \in [Thread -> SUBSET Swapchain]
  /\ result \in [Thread -> {"none", "success", "outOfDate", "queueFull"}]
  /\ pacers \in [Swapchain -> Pacer \union {NoPacer}]
  /\ holder \in Thread \union {NoThread}
  /\ patchOwner \in Thread \union {NoThread}
  /\ inFlight \in [Swapchain -> Nat]
  /\ live \subseteq Swapchain
  /\ lastId \in [Swapchain -> Nat]
  /\ queued \in [Swapchain -> 0..TimingQueueSize]
  /\ complete \in [Swapchain -> 0..TimingQueueSize]
  /\ appLast \in [Swapchain -> 0..MaxId]
  /\ unpolled \in [Swapchain -> Nat]
  /\ refused \in [Swapchain -> Nat]
  /\ refusedEver \in Nat

\* The patch buffer and in_flight_ids are one per device: from the moment a
\* present has filled them until finish() has read them, no other thread's
\* present overwrites them, although the driver call in between is unlocked
\* for every other purpose.
PatchIsOwn ==
  \A t \in Thread : pc[t] \in {"presenting", "finishing"} => patchOwner = t

\* A pacer talks to the driver about its swapchain, so there is never one for
\* a handle the driver has not given out, and a handle that is given out again
\* does not meet the pacer of its predecessor.
PacersAreOfLiveSwapchains ==
  \A s \in Swapchain :
    /\ HasPacer(s) => s \in live
    /\ (\E t \in Thread : pc[t] = "inserting" /\ First(t) = s) => ~HasPacer(s)

\* "Present ids have to increase strictly, and there is only one sequence per
\* swapchain": the driver gets no id twice and none out of order.
IdsIncrease ==
  \A t \in Thread : pc[t] = "presenting" =>
    \A s \in Named(t) : inFlight[s] # 0 => inFlight[s] > lastId[s]

\* The application asked for no timings, so it "must never see" the error that
\* says their queue is full, and "because we give up on timings first it does
\* not repeat": a pacer costs its application at most one recreated swapchain.
FullQueueIsAbsorbed ==
  /\ \A t \in Thread : pc[t] \in {"collecting", "pacing"} => result[t] # "queueFull"
  /\ \A s \in Swapchain : refused[s] <= 1

\* "Requesting timings we never read is actively harmful": a swapchain that
\* comes first in every present that names it is polled between any two of
\* them, whether or not the earlier one went through.
ComesFirst(s) ==
  \A list \in Presents : Head(list) = s \/ \A i \in DOMAIN list : list[i] # s
FirstSwapchainIsRead == \A s \in Swapchain : ComesFirst(s) => unpolled[s] <= 1

\* Every call returns, whatever the other threads do.
CallsReturn == \A t \in Thread : (pc[t] # "idle") ~> (pc[t] = "idle")
=============================================================================
