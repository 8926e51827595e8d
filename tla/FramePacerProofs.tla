-------------------------- MODULE FramePacerProofs --------------------------
(***************************************************************************)
(* Proofs about FramePacer, for any threads, swapchains, lists a present   *)
(* may name, sizes of the timing queue and number of failures.             *)
(***************************************************************************)
EXTENDS FramePacer, TLAPS

PresentPc == {"locking", "patching", "presenting", "finishing", "collecting", "pacing"}
OwnerPc == {"inserting", "erasing", "destroying"}

\* A call is about swapchains that are there, and about none another call is
\* about.
CallInv ==
  \A t \in Thread :
    /\ pc[t] = "idle" => chains[t] = <<>> /\ appIds[t] = <<>>
    /\ pc[t] \in PresentPc => chains[t] \in Presents
    /\ pc[t] \in OwnerPc => \E s \in Swapchain : chains[t] = <<s>>
    /\ Named(t) \subseteq live
    /\ requested[t] \subseteq Named(t)
    /\ \A u \in Thread \ {t} : Named(t) \intersect Named(u) = {}

\* From the patch to the end of the driver call a present has present_mutex.
LockInv ==
  \A t \in Thread :
    /\ pc[t] \in {"patching", "presenting", "finishing"} => holder = t
    /\ pc[t] \in {"presenting", "finishing"} => patchOwner = t

\* A swapchain has a pacer between its insertion and its erasure, and nothing
\* of a predecessor before.
Zero(s) == lastId[s] = 0 /\ unpolled[s] = 0 /\ refused[s] = 0
PacerInv ==
  /\ \A s \in Swapchain : HasPacer(s) => s \in live
  /\ \A s \in Swapchain : s \notin live => Zero(s)
  /\ \A t \in Thread : pc[t] \in {"inserting", "destroying"} => ~HasPacer(First(t))
  /\ \A t \in Thread : pc[t] = "inserting" => Zero(First(t))

\* The driver's queue holds what it has accepted.
QueueInv == \A s \in Swapchain : queued[s] + complete[s] <= TimingQueueSize

\* A pacer that has been refused has given up, or its thread is about to see to
\* it; only those with feedback ask for timings.
RefusalInv ==
  /\ \A t \in Thread :
       /\ pc[t] = "finishing" /\ result[t] = "queueFull" => requested[t] # {}
       /\ pc[t] \in {"collecting", "pacing"} => result[t] # "queueFull"
       /\ pc[t] = "presenting" => \A s \in requested[t] : HasFeedback(s)
  /\ \A s \in Swapchain : refused[s] # 0 =>
       /\ refused[s] = 1
       /\ HasFeedback(s) => \E t \in Thread :
            pc[t] = "finishing" /\ result[t] = "queueFull" /\ s \in requested[t]

\* What has been asked for and not been polled will be by the thread that asked.
ReadInv ==
  \A s \in Swapchain : ComesFirst(s) /\ unpolled[s] # 0 =>
    /\ unpolled[s] = 1
    /\ HasFeedback(s) => \E t \in Thread :
         pc[t] \in {"finishing", "collecting"} /\ First(t) = s

IInv ==
  TypeOK /\ CallInv /\ LockInv /\ PacerInv /\ QueueInv /\ RefusalInv /\ ReadInv

\* Ids in the making are larger than those the driver has, as long as the
\* application does not go back to its own.
IdInv ==
  /\ \A s \in Swapchain : HasPacer(s) => lastId[s] < pacers[s].nextId
  /\ \A t \in Thread : pc[t] \in {"locking", "patching"} /\ appIds[t] # <<>> =>
       \A i \in DOMAIN chains[t] : lastId[chains[t][i]] < appIds[t][i]
  /\ \A t \in Thread : pc[t] = "presenting" =>
       \A s \in Named(t) : inFlight[s] # 0 =>
         HasPacer(s) /\ lastId[s] < inFlight[s] /\ inFlight[s] < pacers[s].nextId

-----------------------------------------------------------------------------
(* Lemmas. *)

\* A list that is presented is a sequence of swapchains that is not empty.
LEMMA ListFacts ==
  ASSUME NEW list \in Presents
  PROVE  /\ list \in Seq(Swapchain) /\ list # <<>>
         /\ \A i \in DOMAIN list : list[i] \in Swapchain
         /\ Head(list) = list[1] /\ 1 \in DOMAIN list
BY FramePacerAssumption DEF Presents

\* What a call under way is about.
LEMMA CallFacts ==
  ASSUME IInv, NEW t \in Thread, pc[t] # "idle"
  PROVE  /\ First(t) \in Named(t) /\ First(t) \in Swapchain
         /\ First(t) \in live /\ Named(t) \subseteq Swapchain
         /\ pc[t] \in OwnerPc => Named(t) = {First(t)} /\ chains[t] = <<First(t)>>
<1>1. pc[t] \in PresentPc \union OwnerPc
  BY DEF IInv, TypeOK, PresentPc, OwnerPc
<1>2. CASE pc[t] \in PresentPc
  <2>1. chains[t] \in Presents
    BY <1>2 DEF IInv, CallInv
  <2>2. pc[t] \notin OwnerPc
    BY <1>2 DEF PresentPc, OwnerPc
  <2> QED
    BY <2>1, <2>2, ListFacts DEF IInv, CallInv, Named, First
<1>3. CASE pc[t] \in OwnerPc
  <2>1. PICK s \in Swapchain : chains[t] = <<s>>
    BY <1>3 DEF IInv, CallInv
  <2>2. First(t) = s /\ Named(t) = {s}
    BY <2>1 DEF First, Named
  <2> QED
    BY <2>1, <2>2 DEF IInv, CallInv
<1> QED
  BY <1>1, <1>2, <1>3

\* Nothing has been called yet.
LEMMA InitInv == Init => IInv
<1> SUFFICES ASSUME Init PROVE IInv
  OBVIOUS
<1>1. TypeOK
  BY FramePacerAssumption DEF Init, TypeOK
<1>2. CallInv
  BY DEF Init, CallInv, PresentPc, OwnerPc, Named
<1>3. LockInv /\ PacerInv /\ RefusalInv /\ ReadInv
  BY DEF Init, LockInv, PacerInv, RefusalInv, ReadInv, HasPacer, Zero
<1>4. QueueInv
  BY FramePacerAssumption DEF Init, QueueInv
<1> QED
  BY <1>1, <1>2, <1>3, <1>4 DEF IInv

\* A thread that enters a call takes swapchains that are in no other.
LEMMA PresentStep ==
  ASSUME IInv, NEW t \in Thread, NEW list \in Presents, Present(t, list)
  PROVE  IInv'
<1>1. /\ pc[t] = "idle" /\ pc' = [pc EXCEPT ![t] = "locking"]
      /\ chains' = [chains EXCEPT ![t] = list]
      /\ \A i \in DOMAIN list : list[i] \in live \ InUse
      /\ requested' = requested /\ result' = result /\ pacers' = pacers
      /\ holder' = holder /\ patchOwner' = patchOwner /\ inFlight' = inFlight
      /\ live' = live /\ lastId' = lastId /\ queued' = queued /\ complete' = complete
      /\ unpolled' = unpolled /\ refused' = refused /\ refusedEver' = refusedEver
  BY DEF Present, Goto, MayPresent, layerVars, driverVars
<1>2. /\ chains[t] = <<>> /\ appIds[t] = <<>> /\ Named(t) = {} /\ requested[t] = {}
  BY <1>1 DEF IInv, CallInv, Named
<1>3. /\ \A u \in Thread \ {t} : pc'[u] = pc[u] /\ chains'[u] = chains[u]
      /\ pc'[t] = "locking" /\ chains'[t] = list
  BY <1>1 DEF IInv, TypeOK
<1>4. /\ \A u \in Thread \ {t} : appIds'[u] = appIds[u] /\ Named(u)' = Named(u)
      /\ appIds'[t] = <<>> \/ appIds'[t] \in [DOMAIN list -> 1..MaxId]
      /\ DOMAIN appIds' = Thread /\ appLast' \in [Swapchain -> 0..MaxId]
  <2>1. CASE UNCHANGED <<appIds, appLast>>
    BY <1>2, <1>3, <2>1 DEF IInv, TypeOK, Named
  <2>2. ASSUME NEW ids \in Labels(list),
               appIds' = [appIds EXCEPT ![t] = ids],
               appLast' = [s \in Swapchain |->
                  IF \E i \in DOMAIN list : list[i] = s
                  THEN ids[CHOOSE i \in DOMAIN list : list[i] = s]
                  ELSE appLast[s]]
        PROVE  <1>4
    <3>1. ids \in [DOMAIN list -> 1..MaxId]
      BY DEF Labels
    <3>2. \A s \in Swapchain : appLast'[s] \in 0..MaxId
      BY <2>2, <3>1, FramePacerAssumption DEF IInv, TypeOK
    <3>3. appLast' \in [Swapchain -> 0..MaxId]
      BY <2>2, <3>2
    <3>4. \A u \in Thread \ {t} : appIds'[u] = appIds[u] /\ Named(u)' = Named(u)
      BY <1>3, <2>2 DEF IInv, TypeOK, Named
    <3>5. appIds'[t] = ids /\ DOMAIN appIds' = Thread
      BY <2>2 DEF IInv, TypeOK
    <3> QED
      BY <3>1, <3>3, <3>4, <3>5
  <2> QED
    BY <2>1, <2>2 DEF Present
<1>5. Named(t)' = {list[i] : i \in DOMAIN list} /\ Named(t)' \subseteq live \ InUse
  BY <1>1, <1>3 DEF Named
<1>6. \A u \in Thread \ {t} : Named(t)' \intersect Named(u) = {}
  <2> TAKE u \in Thread \ {t}
  <2>1. CASE pc[u] = "idle"
    BY <2>1 DEF IInv, CallInv, Named
  <2>2. CASE pc[u] # "idle"
    BY <2>2, <1>5 DEF InUse
  <2> QED
    BY <2>1, <2>2
<1>7. TypeOK'
  BY <1>1, <1>3, <1>4 DEF IInv, TypeOK
<1>8. CallInv'
  BY <1>1, <1>2, <1>3, <1>4, <1>5, <1>6 DEF IInv, CallInv, PresentPc, OwnerPc
<1>9. \A u \in Thread \ {t} : First(u)' = First(u)
  BY <1>3 DEF First
<1>10. LockInv' /\ PacerInv' /\ QueueInv'
  BY <1>1, <1>3, <1>9 DEF IInv, LockInv, PacerInv, QueueInv, Zero, HasPacer
<1>11. RefusalInv'
  BY <1>1, <1>3, <1>9 DEF IInv, RefusalInv, HasFeedback, HasPacer
<1>12. ReadInv'
  BY <1>1, <1>3, <1>9 DEF IInv, ReadInv, HasFeedback, HasPacer
<1> QED
  BY <1>7, <1>8, <1>10, <1>11, <1>12 DEF IInv

\* The mutex is free, so nobody is between the patch and the driver's answer.
LEMMA LockStep ==
  ASSUME IInv, NEW t \in Thread, LockPresent(t)
  PROVE  IInv'
<1>1. /\ pc[t] = "locking" /\ pc' = [pc EXCEPT ![t] = "patching"]
      /\ holder = NoThread /\ holder' = t
      /\ chains' = chains /\ appIds' = appIds /\ requested' = requested
      /\ result' = result /\ pacers' = pacers /\ patchOwner' = patchOwner
      /\ inFlight' = inFlight /\ live' = live /\ lastId' = lastId /\ queued' = queued
      /\ complete' = complete /\ appLast' = appLast /\ unpolled' = unpolled
      /\ refused' = refused /\ refusedEver' = refusedEver
  BY DEF LockPresent, Goto, driverVars, historyVars
<1>2. /\ pc'[t] = "patching" /\ \A u \in Thread \ {t} : pc'[u] = pc[u]
      /\ \A u \in Thread : Named(u)' = Named(u) /\ First(u)' = First(u)
  BY <1>1 DEF IInv, TypeOK, Named, First
<1>3. TypeOK'
  BY <1>1 DEF IInv, TypeOK
<1>4. CallInv'
  BY <1>1, <1>2 DEF IInv, CallInv, PresentPc, OwnerPc
<1>5. LockInv'
  BY <1>1, <1>2, FramePacerAssumption DEF IInv, LockInv
<1>6. PacerInv' /\ QueueInv'
  BY <1>1, <1>2 DEF IInv, PacerInv, QueueInv, Zero, HasPacer
<1>7. RefusalInv'
  BY <1>1, <1>2 DEF IInv, RefusalInv, HasFeedback, HasPacer
<1>8. ReadInv'
  BY <1>1, <1>2 DEF IInv, ReadInv, HasFeedback, HasPacer
<1> QED
  BY <1>3, <1>4, <1>5, <1>6, <1>7, <1>8 DEF IInv

\* An id is the application's or the next of a pacer that is there.
LEMMA IdFacts ==
  ASSUME IInv, NEW t \in Thread, pc[t] \in PresentPc, NEW s \in Named(t), IdOf(t, s) # 0
  PROVE  /\ HasPacer(s) /\ pacers[s] \in Pacer /\ IdOf(t, s) \in Nat
         /\ Larger(pacers[s].nextId, IdOf(t, s) + 1) \in Nat
<1>1. HasPacer(s)
  BY DEF IdOf
<1>2. s \in Swapchain
  BY CallFacts DEF PresentPc
<1>3. pacers[s] \in Pacer
  BY <1>1, <1>2 DEF IInv, TypeOK, HasPacer
<1>4. PICK i \in DOMAIN chains[t] : chains[t][i] = s
  BY DEF Named
<1>5. IdOf(t, s) \in Nat
  <2> DEFINE n == CHOOSE j \in DOMAIN chains[t] : chains[t][j] = s
  <2>1. n \in DOMAIN chains[t]
    BY <1>4
  <2>2. appIds[t] # <<>> => appIds[t][n] \in Nat
    BY <2>1, FramePacerAssumption DEF IInv, TypeOK
  <2> QED
    BY <1>1, <1>3, <2>2 DEF IdOf, Pacer
<1>6. pacers[s].nextId \in Nat
  BY <1>3 DEF Pacer
<1> QED
  BY <1>1, <1>3, <1>5, <1>6 DEF Larger

\* The patch changes nothing of a pacer but its next id.
LEMMA PatchFacts ==
  ASSUME IInv, NEW t \in Thread, Patch(t)
  PROVE  /\ pacers' \in [Swapchain -> Pacer \union {NoPacer}]
         /\ \A s \in Swapchain :
              /\ HasPacer(s)' <=> HasPacer(s)
              /\ HasFeedback(s)' <=> HasFeedback(s)
         /\ inFlight' \in [Swapchain -> Nat]
         /\ requested'[t] \subseteq Named(t)
         /\ \A s \in requested'[t] : HasFeedback(s)
<1>1. /\ pc[t] = "patching" /\ pc[t] \in PresentPc
      /\ inFlight' = [s \in Swapchain |-> IF s \in Named(t) THEN IdOf(t, s) ELSE 0]
      /\ pacers' = [s \in Swapchain |->
           IF s \in Named(t) /\ IdOf(t, s) # 0
           THEN [pacers[s] EXCEPT !.nextId = Larger(@, IdOf(t, s) + 1)]
           ELSE pacers[s]]
      /\ requested' = [requested EXCEPT ![t] = {s \in Named(t) : HasFeedback(s)}]
  BY DEF Patch, PresentPc
<1>2. ASSUME NEW s \in Swapchain, s \in Named(t), IdOf(t, s) # 0
      PROVE  /\ pacers'[s] \in Pacer
             /\ HasPacer(s) /\ pacers'[s].feedback = pacers[s].feedback
             /\ pacers'[s] # NoPacer
  <2>1. /\ HasPacer(s) /\ pacers[s] \in Pacer
        /\ Larger(pacers[s].nextId, IdOf(t, s) + 1) \in Nat
    BY <1>1, <1>2, IdFacts
  <2>2. pacers'[s] = [pacers[s] EXCEPT !.nextId = Larger(@, IdOf(t, s) + 1)]
    BY <1>1, <1>2
  <2>3. pacers'[s] \in Pacer /\ pacers'[s].feedback = pacers[s].feedback
    BY <2>1, <2>2 DEF Pacer
  <2> QED
    BY <2>1, <2>3, FramePacerAssumption
<1>3. ASSUME NEW s \in Swapchain, ~(s \in Named(t) /\ IdOf(t, s) # 0)
      PROVE  pacers'[s] = pacers[s]
  BY <1>1, <1>3
<1>4. \A s \in Swapchain : /\ HasPacer(s)' <=> HasPacer(s)
                           /\ HasFeedback(s)' <=> HasFeedback(s)
  BY <1>2, <1>3 DEF HasPacer, HasFeedback
<1>5. \A s \in Swapchain : pacers'[s] \in Pacer \union {NoPacer}
  BY <1>2, <1>3 DEF IInv, TypeOK
<1>6. \A s \in Swapchain : inFlight'[s] \in Nat
  BY <1>1, IdFacts
<1> QED
  BY <1>1, <1>4, <1>5, <1>6 DEF IInv, TypeOK

\* Only swapchains with feedback are asked about.
LEMMA PatchStep ==
  ASSUME IInv, NEW t \in Thread, Patch(t)
  PROVE  IInv'
<1>1. /\ pc[t] = "patching" /\ pc' = [pc EXCEPT ![t] = "presenting"]
      /\ patchOwner' = t /\ holder' = holder
      /\ requested' = [requested EXCEPT ![t] = {s \in Named(t) : HasFeedback(s)}]
      /\ chains' = chains /\ appIds' = appIds /\ result' = result
      /\ live' = live /\ lastId' = lastId /\ queued' = queued
      /\ complete' = complete /\ appLast' = appLast /\ unpolled' = unpolled
      /\ refused' = refused /\ refusedEver' = refusedEver
  BY DEF Patch, Goto, driverVars, historyVars
<1>2. /\ pc'[t] = "presenting"
      /\ \A u \in Thread \ {t} : pc'[u] = pc[u] /\ requested'[u] = requested[u]
      /\ \A u \in Thread : Named(u)' = Named(u) /\ First(u)' = First(u)
  BY <1>1 DEF IInv, TypeOK, Named, First
<1>3. \A s \in requested'[t] : s \in Named(t) /\ s \in Swapchain /\ HasFeedback(s)
  BY <1>1, PatchFacts, CallFacts
<1>4. TypeOK'
  BY <1>1, <1>3, PatchFacts DEF IInv, TypeOK
<1>5. CallInv'
  BY <1>1, <1>2, <1>3 DEF IInv, CallInv, PresentPc, OwnerPc
<1>6. LockInv'
  BY <1>1, <1>2 DEF IInv, LockInv
<1>7. PacerInv' /\ QueueInv'
  <2>1. \A u \in Thread : pc[u] \in {"inserting", "destroying"} => First(u) \in Swapchain
    BY CallFacts
  <2> QED
    BY <1>1, <1>2, <2>1, PatchFacts DEF IInv, PacerInv, QueueInv, Zero
<1>8. RefusalInv'
  <2>1. \A u \in Thread : requested'[u] \subseteq Swapchain
    BY <1>4 DEF TypeOK
  <2> QED
    BY <1>1, <1>2, <1>3, <2>1, PatchFacts DEF IInv, RefusalInv
<1>9. ReadInv'
  BY <1>1, <1>2, PatchFacts DEF IInv, ReadInv
<1> QED
  BY <1>4, <1>5, <1>6, <1>7, <1>8, <1>9 DEF IInv

\* The driver refuses, or has room for the timings it is asked for: a swapchain
\* is refused once, and asked for timings once before it is polled.
LEMMA DriverPresentStep ==
  ASSUME IInv, NEW t \in Thread, DriverPresent(t)
  PROVE  IInv'
<1>1. /\ pc[t] = "presenting" /\ pc' = [pc EXCEPT ![t] = "finishing"]
      /\ lastId' = [s \in Swapchain |->
           IF s \in Named(t) /\ inFlight[s] # 0 THEN inFlight[s] ELSE lastId[s]]
      /\ unpolled' = [s \in Swapchain |->
           IF s \in requested[t] THEN unpolled[s] + 1 ELSE unpolled[s]]
      /\ refused' = [s \in Swapchain |->
           IF s \in Refused(t) THEN refused[s] + 1 ELSE refused[s]]
      /\ chains' = chains /\ appIds' = appIds /\ requested' = requested
      /\ pacers' = pacers /\ holder' = holder /\ patchOwner' = patchOwner
      /\ inFlight' = inFlight /\ live' = live /\ complete' = complete
      /\ appLast' = appLast
  BY DEF DriverPresent, Goto, layerVars
<1>2. /\ pc'[t] = "finishing" /\ \A u \in Thread \ {t} : pc'[u] = pc[u]
      /\ \A u \in Thread : Named(u)' = Named(u) /\ First(u)' = First(u)
      /\ \A s \in Swapchain : /\ HasPacer(s)' <=> HasPacer(s)
                              /\ HasFeedback(s)' <=> HasFeedback(s)
  BY <1>1 DEF IInv, TypeOK, Named, First, HasPacer, HasFeedback
<1>3. /\ requested[t] \subseteq Named(t) /\ Refused(t) \subseteq requested[t]
      /\ \A s \in Named(t) : s \in Swapchain /\ s \in live
      /\ \A s \in requested[t] : HasFeedback(s)
  BY <1>1, CallFacts DEF IInv, CallInv, RefusalInv, Refused
<1>4. \/ /\ Refused(t) # {} /\ queued' = queued /\ refusedEver' = refusedEver + 1
         /\ result' = [result EXCEPT ![t] = "queueFull"]
      \/ /\ Refused(t) = {} /\ refusedEver' = refusedEver
         /\ \A s \in requested[t] : ~IsFull(s)
         /\ \/ /\ result' = [result EXCEPT ![t] = "success"]
               /\ queued' = [s \in Swapchain |->
                    IF s \in requested[t] THEN queued[s] + 1 ELSE queued[s]]
            \/ /\ result' = [result EXCEPT ![t] = "outOfDate"]
               /\ queued' = queued
  BY DEF DriverPresent, Refused
<1>5. /\ queued' \in [Swapchain -> 0..TimingQueueSize] /\ QueueInv'
  <2>1. CASE queued' = queued
    BY <1>1, <2>1 DEF IInv, TypeOK, QueueInv
  <2>2. CASE /\ \A s \in requested[t] : ~IsFull(s)
             /\ queued' = [s \in Swapchain |->
                  IF s \in requested[t] THEN queued[s] + 1 ELSE queued[s]]
    <3>1. ASSUME NEW s \in Swapchain
          PROVE  queued'[s] \in 0..TimingQueueSize
                 /\ queued'[s] + complete[s] <= TimingQueueSize
      <4>1. /\ queued[s] \in 0..TimingQueueSize /\ complete[s] \in 0..TimingQueueSize
            /\ queued[s] + complete[s] <= TimingQueueSize /\ TimingQueueSize \in Nat
        BY FramePacerAssumption DEF IInv, TypeOK, QueueInv
      <4>2. CASE s \in requested[t]
        BY <2>2, <4>1, <4>2 DEF IsFull
      <4>3. CASE s \notin requested[t]
        BY <2>2, <4>1, <4>3
      <4> QED
        BY <4>2, <4>3
    <3> QED
      BY <1>1, <2>2, <3>1 DEF QueueInv
  <2> QED
    BY <1>4, <2>1, <2>2
<1>6. TypeOK'
  <2>1. \A s \in Swapchain : lastId'[s] \in Nat /\ unpolled'[s] \in Nat /\ refused'[s] \in Nat
    BY <1>1 DEF IInv, TypeOK
  <2>2. lastId' \in [Swapchain -> Nat] /\ unpolled' \in [Swapchain -> Nat]
        /\ refused' \in [Swapchain -> Nat]
    BY <1>1, <2>1
  <2>3. result' \in [Thread -> {"none", "success", "outOfDate", "queueFull"}]
        /\ refusedEver' \in Nat
    BY <1>4 DEF IInv, TypeOK
  <2> QED
    BY <1>1, <1>5, <2>2, <2>3 DEF IInv, TypeOK
<1>7. CallInv'
  BY <1>1, <1>2 DEF IInv, CallInv, PresentPc, OwnerPc
<1>8. LockInv'
  BY <1>1, <1>2 DEF IInv, LockInv
<1>9. PacerInv'
  <2>1. ASSUME NEW s \in Swapchain, s \notin Named(t), Zero(s)
        PROVE  Zero(s)'
    BY <1>1, <1>3, <2>1 DEF Zero
  <2>2. ASSUME NEW u \in Thread, pc'[u] = "inserting"
        PROVE  Zero(First(u))'
    <3>1. pc[u] = "inserting" /\ u # t
      BY <1>2, <2>2
    <3>2. First(u) \in Named(u) /\ First(u) \in Swapchain
      BY <3>1, CallFacts
    <3>3. First(u) \notin Named(t)
      BY <3>1, <3>2 DEF IInv, CallInv
    <3>4. Zero(First(u))
      BY <3>1 DEF IInv, PacerInv
    <3>5. PICK s \in Swapchain : s = First(u)
      BY <3>2
    <3>6. Zero(s)'
      BY <2>1, <3>3, <3>4, <3>5
    <3> QED
      BY <1>2, <3>5, <3>6
  <2>3. \A u \in Thread : pc'[u] \in {"inserting", "destroying"} => ~HasPacer(First(u))'
    BY <1>1, <1>2 DEF IInv, PacerInv, HasPacer, First
  <2>4. /\ \A s \in Swapchain : HasPacer(s)' => s \in live'
        /\ \A s \in Swapchain : s \notin live' => Zero(s)'
    BY <1>1, <1>2, <1>3, <2>1 DEF IInv, PacerInv
  <2> QED
    BY <2>2, <2>3, <2>4 DEF PacerInv
<1>10. RefusalInv'
  <2>1. \A u \in Thread \ {t} : result'[u] = result[u]
    BY <1>4 DEF IInv, TypeOK
  <2>2. result'[t] = "queueFull" <=> Refused(t) # {}
    BY <1>4 DEF IInv, TypeOK
  <2>3. ASSUME NEW s \in Swapchain, refused'[s] # 0
        PROVE  /\ refused'[s] = 1
               /\ HasFeedback(s) => \E u \in Thread :
                    pc'[u] = "finishing" /\ result'[u] = "queueFull" /\ s \in requested[u]
    <3>1. CASE s \in Refused(t)
      <4>1. s \in requested[t] /\ s \in Named(t) /\ HasFeedback(s)
        BY <1>3, <3>1
      <4>2. ~\E u \in Thread :
               pc[u] = "finishing" /\ result[u] = "queueFull" /\ s \in requested[u]
        BY <1>1, <4>1 DEF IInv, CallInv
      <4>3. refused[s] = 0
        BY <4>1, <4>2 DEF IInv, RefusalInv
      <4>4. refused'[s] = 1
        BY <1>1, <3>1, <4>3
      <4> QED
        BY <1>2, <2>2, <3>1, <4>1, <4>4
    <3>2. CASE s \notin Refused(t)
      <4>1. refused[s] # 0 /\ refused'[s] = refused[s]
        BY <1>1, <2>3, <3>2
      <4>2. /\ refused[s] = 1
            /\ HasFeedback(s) => \E u \in Thread :
                 pc[u] = "finishing" /\ result[u] = "queueFull" /\ s \in requested[u]
        BY <4>1 DEF IInv, RefusalInv
      <4> QED
        BY <1>1, <1>2, <2>1, <4>1, <4>2
    <3> QED
      BY <3>1, <3>2
  <2>4. ASSUME NEW u \in Thread
        PROVE  /\ pc'[u] = "finishing" /\ result'[u] = "queueFull" => requested'[u] # {}
               /\ pc'[u] \in {"collecting", "pacing"} => result'[u] # "queueFull"
               /\ pc'[u] = "presenting" => \A s \in requested'[u] : HasFeedback(s)'
    <3>1. CASE u = t
      BY <1>1, <1>2, <1>3, <2>2, <3>1
    <3>2. CASE u # t
      BY <1>1, <1>2, <2>1, <3>2 DEF IInv, TypeOK, RefusalInv
    <3> QED
      BY <3>1, <3>2
  <2> QED
    BY <1>1, <1>2, <2>3, <2>4 DEF RefusalInv
<1>11. ReadInv'
  <2> SUFFICES ASSUME NEW s \in Swapchain, ComesFirst(s), unpolled'[s] # 0
               PROVE  /\ unpolled'[s] = 1
                      /\ HasFeedback(s) => \E u \in Thread :
                           pc'[u] \in {"finishing", "collecting"} /\ First(u) = s
    BY <1>1, <1>2 DEF ReadInv, ComesFirst
  <2>1. CASE s \in requested[t]
    <3>1. s \in Named(t) /\ HasFeedback(s) /\ chains[t] \in Presents
      BY <1>1, <1>3, <2>1 DEF IInv, CallInv, PresentPc
    <3>2. First(t) = s
      BY <3>1 DEF ComesFirst, Named, First
    <3>3. ~\E u \in Thread : pc[u] \in {"finishing", "collecting"} /\ First(u) = s
      <4> SUFFICES ASSUME NEW u \in Thread, pc[u] \in {"finishing", "collecting"},
                          First(u) = s
                   PROVE  FALSE
        OBVIOUS
      <4>1. s \in Named(u) /\ u # t
        BY <1>1, CallFacts
      <4> QED
        BY <3>1, <4>1 DEF IInv, CallInv
    <3>4. unpolled[s] = 0
      BY <3>1, <3>3 DEF IInv, ReadInv
    <3>5. unpolled'[s] = 1
      BY <1>1, <2>1, <3>4
    <3> QED
      BY <1>2, <3>2, <3>5
  <2>2. CASE s \notin requested[t]
    <3>1. unpolled'[s] = unpolled[s]
      BY <1>1, <2>2
    <3> QED
      BY <1>1, <1>2, <3>1 DEF IInv, ReadInv
  <2> QED
    BY <2>1, <2>2
<1> QED
  BY <1>5, <1>6, <1>7, <1>8, <1>9, <1>10, <1>11 DEF IInv

\* A refused present costs its swapchains their feedback, and its error is not
\* passed on: the layer had asked for timings.
LEMMA FinishPatchStep ==
  ASSUME IInv, NEW t \in Thread, FinishPatch(t)
  PROVE  IInv'
<1>1. /\ pc[t] = "finishing" /\ pc' = [pc EXCEPT ![t] = "collecting"]
      /\ pacers' = [s \in Swapchain |->
           IF result[t] = "queueFull" /\ s \in Named(t) /\ HasPacer(s)
           THEN [pacers[s] EXCEPT !.feedback = FALSE] ELSE pacers[s]]
      /\ result' = [result EXCEPT ![t] = Effective(t)]
      /\ holder' = NoThread /\ patchOwner' = NoThread
      /\ inFlight' = [s \in Swapchain |-> 0]
      /\ chains' = chains /\ appIds' = appIds /\ requested' = requested
      /\ live' = live /\ lastId' = lastId /\ queued' = queued /\ complete' = complete
      /\ appLast' = appLast /\ unpolled' = unpolled /\ refused' = refused
      /\ refusedEver' = refusedEver
  BY DEF FinishPatch, Goto, ForgetPatch, driverVars, historyVars
<1>2. /\ pc'[t] = "collecting" /\ \A u \in Thread \ {t} : pc'[u] = pc[u]
      /\ \A u \in Thread \ {t} : result'[u] = result[u]
      /\ \A u \in Thread : Named(u)' = Named(u) /\ First(u)' = First(u)
  BY <1>1 DEF IInv, TypeOK, Named, First
<1>3. result'[t] # "queueFull" /\ result'[t] \in {"none", "success", "outOfDate", "queueFull"}
  <2>1. result'[t] = Effective(t)
    BY <1>1 DEF IInv, TypeOK
  <2>2. result[t] = "queueFull" => requested[t] # {}
    BY <1>1 DEF IInv, RefusalInv
  <2> QED
    BY <2>1, <2>2 DEF IInv, TypeOK, Effective, Patched
<1>4. ASSUME NEW s \in Swapchain
      PROVE  /\ pacers'[s] \in Pacer \union {NoPacer}
             /\ HasPacer(s)' => HasPacer(s)
             /\ HasFeedback(s)' => HasFeedback(s)
             /\ result[t] = "queueFull" /\ s \in Named(t) => ~HasFeedback(s)'
             /\ s \notin Named(t) => pacers'[s] = pacers[s]
  <2>1. CASE result[t] = "queueFull" /\ s \in Named(t) /\ HasPacer(s)
    <3>1. pacers[s] \in Pacer /\ pacers'[s] = [pacers[s] EXCEPT !.feedback = FALSE]
      BY <1>1, <2>1 DEF IInv, TypeOK, HasPacer
    <3>2. pacers'[s] \in Pacer /\ pacers'[s].feedback = FALSE
      BY <3>1 DEF Pacer
    <3> QED
      BY <2>1, <3>2 DEF HasPacer, HasFeedback
  <2>2. CASE ~(result[t] = "queueFull" /\ s \in Named(t) /\ HasPacer(s))
    <3>1. pacers'[s] = pacers[s]
      BY <1>1, <2>2
    <3> QED
      BY <2>2, <3>1 DEF IInv, TypeOK, HasPacer, HasFeedback
  <2> QED
    BY <2>1, <2>2
<1>5. TypeOK'
  <2>1. pacers' \in [Swapchain -> Pacer \union {NoPacer}]
    BY <1>1, <1>4
  <2>2. result' \in [Thread -> {"none", "success", "outOfDate", "queueFull"}]
    BY <1>1, <1>3 DEF IInv, TypeOK
  <2> QED
    BY <1>1, <2>1, <2>2 DEF IInv, TypeOK
<1>6. CallInv'
  BY <1>1, <1>2 DEF IInv, CallInv, PresentPc, OwnerPc
<1>7. LockInv'
  BY <1>1, <1>2, FramePacerAssumption DEF IInv, LockInv
<1>8. PacerInv' /\ QueueInv'
  <2>1. \A u \in Thread : pc[u] \in {"inserting", "destroying"} => First(u) \in Swapchain
    BY CallFacts
  <2> QED
    BY <1>1, <1>2, <1>4, <2>1 DEF IInv, PacerInv, QueueInv, Zero
<1>9. RefusalInv'
  <2>1. ASSUME NEW u \in Thread, pc'[u] = "presenting", NEW s \in requested[u]
        PROVE  HasFeedback(s)'
    <3>1. u # t /\ pc[u] = "presenting" /\ s \in Named(u) /\ s \in Swapchain
      BY <1>2, <2>1, CallFacts DEF IInv, CallInv
    <3>2. s \notin Named(t) /\ HasFeedback(s)
      BY <2>1, <3>1 DEF IInv, CallInv, RefusalInv
    <3> QED
      BY <1>4, <3>1, <3>2 DEF HasFeedback, HasPacer
  <2>2. ASSUME NEW s \in Swapchain, refused[s] # 0
        PROVE  /\ refused[s] = 1
               /\ HasFeedback(s)' => \E u \in Thread :
                    pc'[u] = "finishing" /\ result'[u] = "queueFull" /\ s \in requested[u]
    <3>1. refused[s] = 1
      BY <2>2 DEF IInv, RefusalInv
    <3>2. ASSUME HasFeedback(s)'
          PROVE  \E u \in Thread :
                   pc'[u] = "finishing" /\ result'[u] = "queueFull" /\ s \in requested[u]
      <4>1. PICK u \in Thread :
              pc[u] = "finishing" /\ result[u] = "queueFull" /\ s \in requested[u]
        BY <1>4, <2>2, <3>2 DEF IInv, RefusalInv
      <4>2. u # t
        BY <1>4, <3>2, <4>1 DEF IInv, CallInv
      <4> QED
        BY <1>2, <4>1, <4>2
    <3> QED
      BY <3>1, <3>2
  <2>3. ASSUME NEW u \in Thread
        PROVE  /\ pc'[u] = "finishing" /\ result'[u] = "queueFull" => requested'[u] # {}
               /\ pc'[u] \in {"collecting", "pacing"} => result'[u] # "queueFull"
    BY <1>1, <1>2, <1>3 DEF IInv, RefusalInv
  <2> QED
    BY <1>1, <2>1, <2>2, <2>3 DEF RefusalInv
<1>10. ReadInv'
  <2> SUFFICES ASSUME NEW s \in Swapchain, ComesFirst(s), unpolled[s] # 0
               PROVE  /\ unpolled[s] = 1
                      /\ HasFeedback(s)' => \E u \in Thread :
                           pc'[u] \in {"finishing", "collecting"} /\ First(u) = s
    BY <1>1, <1>2 DEF ReadInv, ComesFirst
  <2>1. /\ unpolled[s] = 1
        /\ HasFeedback(s) => \E u \in Thread :
             pc[u] \in {"finishing", "collecting"} /\ First(u) = s
    BY DEF IInv, ReadInv
  <2> QED
    BY <1>2, <1>4, <2>1
<1> QED
  BY <1>5, <1>6, <1>7, <1>8, <1>9, <1>10 DEF IInv

\* A poll may change the failures, drop the feedback and read what is complete.
LEMMA PollFacts ==
  ASSUME IInv, NEW s \in Swapchain, HasFeedback(s), PollSucceeds(s) \/ PollFails(s)
  PROVE  /\ pacers' \in [Swapchain -> Pacer \union {NoPacer}]
         /\ complete' \in [Swapchain -> 0..TimingQueueSize]
         /\ \A r \in Swapchain :
              /\ r # s => pacers'[r] = pacers[r]
              /\ HasPacer(r)' <=> HasPacer(r)
              /\ HasPacer(r) => pacers'[r].nextId = pacers[r].nextId
              /\ HasFeedback(r)' => HasFeedback(r)
              /\ complete'[r] <= complete[r]
<1>1. /\ HasPacer(s) /\ pacers[s] \in Pacer /\ pacers[s].feedback
      /\ pacers \in [Swapchain -> Pacer \union {NoPacer}]
      /\ complete \in [Swapchain -> 0..TimingQueueSize]
  BY DEF IInv, TypeOK, HasFeedback, HasPacer
<1>2. /\ pacers[s].failures \in 0..MaxPollFailures /\ pacers[s].failures < MaxPollFailures
      /\ MaxPollFailures \in Nat \ {0}
  BY <1>1, FramePacerAssumption DEF Pacer
<1>3. complete' = complete \/ complete' = [complete EXCEPT ![s] = 0]
  BY DEF PollSucceeds, PollFails
<1>4. /\ complete' \in [Swapchain -> 0..TimingQueueSize]
      /\ \A r \in Swapchain : complete'[r] <= complete[r]
  BY <1>1, <1>3, FramePacerAssumption
<1>5. PICK n \in 0..MaxPollFailures, b \in BOOLEAN :
        /\ b => n < MaxPollFailures
        /\ pacers' = [pacers EXCEPT ![s] = [pacers[s] EXCEPT !.failures = n, !.feedback = b]]
  <2>1. CASE PollSucceeds(s)
    <3>1. PICK n \in {0, pacers[s].failures} :
            pacers' = [pacers EXCEPT ![s].failures = n]
      BY <2>1 DEF PollSucceeds
    <3>2. pacers' = [pacers EXCEPT ![s] =
                       [pacers[s] EXCEPT !.failures = n, !.feedback = TRUE]]
      <4>1. [pacers[s] EXCEPT !.failures = n]
              = [pacers[s] EXCEPT !.failures = n, !.feedback = TRUE]
        BY <1>1 DEF Pacer
      <4> QED
        BY <3>1, <4>1
    <3>3. n \in 0..MaxPollFailures /\ n < MaxPollFailures
      BY <1>2, <3>1
    <3> QED
      BY <3>2, <3>3
  <2>2. CASE PollFails(s)
    <3> DEFINE n == pacers[s].failures + 1
               b == n < MaxPollFailures
    <3>1. n \in 0..MaxPollFailures /\ b \in BOOLEAN
      BY <1>2
    <3>2. pacers' = [pacers EXCEPT ![s] = [pacers[s] EXCEPT !.failures = n, !.feedback = b]]
      BY <1>1, <2>2 DEF PollFails
    <3> QED
      BY <3>1, <3>2
  <2> QED
    BY <2>1, <2>2
<1>6. /\ pacers'[s] \in Pacer /\ pacers'[s].nextId = pacers[s].nextId
      /\ \A r \in Swapchain : r # s => pacers'[r] = pacers[r]
  <2>1. pacers'[s] = [pacers[s] EXCEPT !.failures = n, !.feedback = b]
    BY <1>1, <1>5
  <2>2. pacers'[s] \in Pacer /\ pacers'[s].nextId = pacers[s].nextId
    BY <1>1, <1>5, <2>1 DEF Pacer
  <2> QED
    BY <1>1, <1>5, <2>2
<1>7. pacers'[s] # NoPacer
  BY <1>6, FramePacerAssumption
<1>8. pacers' \in [Swapchain -> Pacer \union {NoPacer}]
  BY <1>1, <1>5, <1>6
<1> QED
  BY <1>1, <1>4, <1>6, <1>7, <1>8 DEF HasPacer, HasFeedback

\* The thread that asked for timings polls them, if there is feedback still.
LEMMA BeginPaceStep ==
  ASSUME IInv, NEW t \in Thread, BeginPace(t)
  PROVE  IInv'
<1>1. /\ pc[t] = "collecting" /\ pc' = [pc EXCEPT ![t] = "pacing"]
      /\ chains' = chains /\ appIds' = appIds /\ requested' = requested
      /\ result' = result /\ holder' = holder /\ patchOwner' = patchOwner
      /\ inFlight' = inFlight /\ live' = live /\ lastId' = lastId /\ queued' = queued
      /\ appLast' = appLast /\ refused' = refused /\ refusedEver' = refusedEver
  BY DEF BeginPace, Goto
<1>2. /\ pc'[t] = "pacing" /\ \A u \in Thread \ {t} : pc'[u] = pc[u]
      /\ \A u \in Thread : Named(u)' = Named(u) /\ First(u)' = First(u)
      /\ First(t) \in Swapchain /\ First(t) \in Named(t)
  BY <1>1, CallFacts DEF IInv, TypeOK, Named, First
<1>3. /\ pacers' \in [Swapchain -> Pacer \union {NoPacer}]
      /\ complete' \in [Swapchain -> 0..TimingQueueSize]
      /\ \A r \in Swapchain :
           /\ r # First(t) => pacers'[r] = pacers[r]
           /\ HasPacer(r)' <=> HasPacer(r)
           /\ HasFeedback(r)' => HasFeedback(r)
           /\ complete'[r] <= complete[r]
  <2>1. CASE HasFeedback(First(t))
    <3>1. PICK s \in Swapchain : s = First(t)
      BY <1>2
    <3>2. HasFeedback(s) /\ (PollSucceeds(s) \/ PollFails(s))
      BY <2>1, <3>1 DEF BeginPace
    <3> QED
      BY <3>1, <3>2, PollFacts
  <2>2. CASE ~HasFeedback(First(t))
    <3>1. pacers' = pacers /\ complete' = complete
      BY <2>2 DEF BeginPace
    <3> QED
      BY <3>1 DEF IInv, TypeOK, HasPacer, HasFeedback
  <2> QED
    BY <2>1, <2>2
<1>4. /\ unpolled' \in [Swapchain -> Nat]
      /\ \A s \in Swapchain : unpolled'[s] = unpolled[s] \/ unpolled'[s] = 0
      /\ HasFeedback(First(t)) => unpolled'[First(t)] = 0
  <2>1. \/ HasFeedback(First(t)) /\ unpolled' = [unpolled EXCEPT ![First(t)] = 0]
        \/ ~HasFeedback(First(t)) /\ unpolled' = unpolled
    BY DEF BeginPace
  <2>2. unpolled \in [Swapchain -> Nat]
    BY DEF IInv, TypeOK
  <2> QED
    BY <1>2, <2>1, <2>2
<1>5. TypeOK'
  BY <1>1, <1>3, <1>4 DEF IInv, TypeOK
<1>6. CallInv'
  BY <1>1, <1>2 DEF IInv, CallInv, PresentPc, OwnerPc
<1>7. LockInv'
  BY <1>1, <1>2 DEF IInv, LockInv
<1>8. PacerInv'
  <2>1. \A u \in Thread : pc[u] \in {"inserting", "destroying"} => First(u) \in Swapchain
    BY CallFacts
  <2> QED
    BY <1>1, <1>2, <1>3, <1>4, <2>1 DEF IInv, PacerInv, Zero
<1>9. QueueInv'
  <2> SUFFICES ASSUME NEW s \in Swapchain
               PROVE  queued[s] + complete'[s] <= TimingQueueSize
    BY <1>1 DEF QueueInv
  <2>1. /\ queued[s] \in Nat /\ complete[s] \in Nat /\ complete'[s] \in Nat
        /\ complete'[s] <= complete[s] /\ queued[s] + complete[s] <= TimingQueueSize
        /\ TimingQueueSize \in Nat
    BY <1>3, FramePacerAssumption DEF IInv, TypeOK, QueueInv
  <2> QED
    BY <2>1
<1>10. RefusalInv'
  <2>1. ASSUME NEW u \in Thread, pc'[u] = "presenting", NEW s \in requested[u]
        PROVE  HasFeedback(s)'
    <3>1. u # t /\ pc[u] = "presenting" /\ s \in Named(u) /\ s \in Swapchain
      BY <1>2, <2>1, CallFacts DEF IInv, CallInv
    <3>2. s \notin Named(t) /\ HasFeedback(s)
      BY <2>1, <3>1 DEF IInv, CallInv, RefusalInv
    <3> QED
      BY <1>2, <1>3, <3>1, <3>2 DEF HasFeedback, HasPacer
  <2>2. ASSUME NEW s \in Swapchain, refused[s] # 0
        PROVE  /\ refused[s] = 1
               /\ HasFeedback(s)' => \E u \in Thread :
                    pc'[u] = "finishing" /\ result[u] = "queueFull" /\ s \in requested[u]
    BY <1>1, <1>2, <1>3, <2>2 DEF IInv, RefusalInv
  <2>3. ASSUME NEW u \in Thread
        PROVE  /\ pc'[u] = "finishing" /\ result[u] = "queueFull" => requested[u] # {}
               /\ pc'[u] \in {"collecting", "pacing"} => result[u] # "queueFull"
    BY <1>1, <1>2 DEF IInv, RefusalInv
  <2> QED
    BY <1>1, <2>1, <2>2, <2>3 DEF RefusalInv
<1>11. ReadInv'
  <2> SUFFICES ASSUME NEW s \in Swapchain, ComesFirst(s), unpolled'[s] # 0
               PROVE  /\ unpolled'[s] = 1
                      /\ HasFeedback(s)' => \E u \in Thread :
                           pc'[u] \in {"finishing", "collecting"} /\ First(u) = s
    BY <1>1, <1>2 DEF ReadInv, ComesFirst
  <2>1. /\ unpolled'[s] = unpolled[s] /\ unpolled[s] = 1
        /\ HasFeedback(s) => \E u \in Thread :
             pc[u] \in {"finishing", "collecting"} /\ First(u) = s
    BY <1>4 DEF IInv, ReadInv
  <2>2. HasFeedback(s) => s # First(t)
    BY <1>4
  <2> QED
    BY <1>2, <1>3, <2>1, <2>2
<1> QED
  BY <1>5, <1>6, <1>7, <1>8, <1>9, <1>10, <1>11 DEF IInv

\* A call that returns leaves its swapchains to the others.
LEMMA ReturnFacts ==
  ASSUME IInv, NEW t \in Thread, Return(t), live \ Named(t) \subseteq live'
  PROVE  /\ pc'[t] = "idle"
         /\ \A u \in Thread \ {t} :
              /\ pc'[u] = pc[u] /\ requested'[u] = requested[u] /\ result'[u] = result[u]
              /\ chains'[u] = chains[u] /\ appIds'[u] = appIds[u]
              /\ Named(u)' = Named(u) /\ First(u)' = First(u)
         /\ pc' \in [Thread -> {"idle", "locking", "patching", "presenting",
                                "finishing", "collecting", "pacing", "inserting",
                                "erasing", "destroying"}]
         /\ chains' \in [Thread -> Presents \union {<<s>> : s \in Swapchain} \union {<<>>}]
         /\ DOMAIN appIds' = Thread
         /\ \A u \in Thread : appIds'[u] = <<>>
                                \/ appIds'[u] \in [DOMAIN chains'[u] -> 1..MaxId]
         /\ requested' \in [Thread -> SUBSET Swapchain]
         /\ result' \in [Thread -> {"none", "success", "outOfDate", "queueFull"}]
         /\ CallInv'
<1>1. /\ pc' = [pc EXCEPT ![t] = "idle"] /\ chains' = [chains EXCEPT ![t] = <<>>]
      /\ appIds' = [appIds EXCEPT ![t] = <<>>]
      /\ requested' = [requested EXCEPT ![t] = {}]
      /\ result' = [result EXCEPT ![t] = "none"]
  BY DEF Return, Goto
<1>2. /\ pc'[t] = "idle" /\ chains'[t] = <<>> /\ appIds'[t] = <<>> /\ requested'[t] = {}
      /\ \A u \in Thread \ {t} :
           /\ pc'[u] = pc[u] /\ requested'[u] = requested[u] /\ result'[u] = result[u]
           /\ chains'[u] = chains[u] /\ appIds'[u] = appIds[u]
  BY <1>1 DEF IInv, TypeOK
<1>3. /\ \A u \in Thread \ {t} : Named(u)' = Named(u) /\ First(u)' = First(u)
      /\ Named(t)' = {}
  BY <1>2 DEF Named, First
<1>4. /\ pc' \in [Thread -> {"idle", "locking", "patching", "presenting",
                             "finishing", "collecting", "pacing", "inserting",
                             "erasing", "destroying"}]
      /\ chains' \in [Thread -> Presents \union {<<s>> : s \in Swapchain} \union {<<>>}]
      /\ DOMAIN appIds' = Thread
      /\ requested' \in [Thread -> SUBSET Swapchain]
      /\ result' \in [Thread -> {"none", "success", "outOfDate", "queueFull"}]
  BY <1>1 DEF IInv, TypeOK
<1>5. \A u \in Thread : appIds'[u] = <<>> \/ appIds'[u] \in [DOMAIN chains'[u] -> 1..MaxId]
  BY <1>2 DEF IInv, TypeOK
<1>6. CallInv'
  <2>1. \A u \in Thread \ {t} : Named(u) \subseteq live'
    BY DEF IInv, CallInv
  <2> QED
    BY <1>2, <1>3, <2>1 DEF IInv, CallInv, PresentPc, OwnerPc
<1> QED
  BY <1>2, <1>3, <1>4, <1>5, <1>6

\* The wait is over.
LEMMA EndPaceStep ==
  ASSUME IInv, NEW t \in Thread, EndPace(t)
  PROVE  IInv'
<1>1. /\ pc[t] = "pacing" /\ Return(t)
      /\ pacers' = pacers /\ holder' = holder /\ patchOwner' = patchOwner
      /\ inFlight' = inFlight /\ live' = live /\ lastId' = lastId /\ queued' = queued
      /\ complete' = complete /\ appLast' = appLast /\ unpolled' = unpolled
      /\ refused' = refused /\ refusedEver' = refusedEver
  BY DEF EndPace, layerVars, driverVars, historyVars
<1>2. /\ pc'[t] = "idle"
      /\ \A u \in Thread \ {t} :
           /\ pc'[u] = pc[u] /\ requested'[u] = requested[u] /\ result'[u] = result[u]
           /\ First(u)' = First(u)
  BY <1>1, ReturnFacts
<1>3. TypeOK' /\ CallInv'
  BY <1>1, ReturnFacts DEF IInv, TypeOK
<1>4. LockInv' /\ PacerInv' /\ QueueInv'
  BY <1>1, <1>2 DEF IInv, LockInv, PacerInv, QueueInv, Zero, HasPacer
<1>5. RefusalInv'
  BY <1>1, <1>2 DEF IInv, RefusalInv, HasFeedback, HasPacer
<1>6. ReadInv'
  BY <1>1, <1>2 DEF IInv, ReadInv, ComesFirst, HasFeedback, HasPacer
<1> QED
  BY <1>3, <1>4, <1>5, <1>6 DEF IInv

\* A thread that begins a call about one swapchain that is in no other call.
LEMMA EnterFacts ==
  ASSUME IInv, NEW t \in Thread, NEW s \in Swapchain, NEW where \in OwnerPc,
         pc[t] = "idle", pc' = [pc EXCEPT ![t] = where],
         chains' = [chains EXCEPT ![t] = <<s>>],
         appIds' = appIds, requested' = requested, result' = result,
         s \notin InUse, s \in live', live \subseteq live'
  PROVE  /\ pc'[t] = where /\ \A u \in Thread \ {t} : pc'[u] = pc[u]
         /\ pc' \in [Thread -> {"idle", "locking", "patching", "presenting",
                                "finishing", "collecting", "pacing", "inserting",
                                "erasing", "destroying"}]
         /\ chains' \in [Thread -> Presents \union {<<r>> : r \in Swapchain} \union {<<>>}]
         /\ \A u \in Thread : appIds[u] = <<>>
                                \/ appIds[u] \in [DOMAIN chains'[u] -> 1..MaxId]
         /\ First(t)' = s /\ \A u \in Thread \ {t} : First(u)' = First(u)
         /\ \A u \in Thread \ {t} : s \notin Named(u)
         /\ CallInv'
<1>1. /\ chains[t] = <<>> /\ appIds[t] = <<>> /\ Named(t) = {} /\ requested[t] = {}
  BY DEF IInv, CallInv, Named
<1>2. /\ pc'[t] = where /\ \A u \in Thread \ {t} : pc'[u] = pc[u]
      /\ chains'[t] = <<s>> /\ \A u \in Thread \ {t} : chains'[u] = chains[u]
  BY DEF IInv, TypeOK
<1>3. /\ First(t)' = s /\ Named(t)' = {s}
      /\ \A u \in Thread \ {t} : First(u)' = First(u) /\ Named(u)' = Named(u)
  BY <1>2 DEF First, Named
<1>4. \A u \in Thread \ {t} : s \notin Named(u)
  <2> TAKE u \in Thread \ {t}
  <2>1. CASE pc[u] = "idle"
    BY <2>1 DEF IInv, CallInv, Named
  <2>2. CASE pc[u] # "idle"
    BY <2>2 DEF InUse
  <2> QED
    BY <2>1, <2>2
<1>5. /\ pc' \in [Thread -> {"idle", "locking", "patching", "presenting",
                             "finishing", "collecting", "pacing", "inserting",
                             "erasing", "destroying"}]
      /\ chains' \in [Thread -> Presents \union {<<r>> : r \in Swapchain} \union {<<>>}]
  BY DEF IInv, TypeOK, OwnerPc
<1>6. \A u \in Thread : appIds[u] = <<>> \/ appIds[u] \in [DOMAIN chains'[u] -> 1..MaxId]
  BY <1>1, <1>2 DEF IInv, TypeOK
<1>7. ASSUME NEW u \in Thread
      PROVE  /\ pc'[u] = "idle" => chains'[u] = <<>> /\ appIds'[u] = <<>>
             /\ pc'[u] \in PresentPc => chains'[u] \in Presents
             /\ pc'[u] \in OwnerPc => \E r \in Swapchain : chains'[u] = <<r>>
             /\ Named(u)' \subseteq live'
             /\ requested'[u] \subseteq Named(u)'
  <2>1. CASE u = t
    BY <1>1, <1>2, <1>3, <2>1 DEF PresentPc, OwnerPc
  <2>2. CASE u # t
    BY <1>2, <1>3, <2>2 DEF IInv, CallInv
  <2> QED
    BY <2>1, <2>2
<1>8. \A u \in Thread : \A v \in Thread \ {u} : Named(u)' \intersect Named(v)' = {}
  BY <1>3, <1>4 DEF IInv, CallInv
<1>9. CallInv'
  BY <1>7, <1>8 DEF CallInv
<1> QED
  BY <1>2, <1>3, <1>4, <1>5, <1>6, <1>9

\* The driver gives out a handle nothing is known of.
LEMMA CreateStep ==
  ASSUME IInv, NEW t \in Thread, NEW s \in Swapchain, Create(t, s)
  PROVE  IInv'
<1>1. /\ pc[t] = "idle" /\ pc' = [pc EXCEPT ![t] = "inserting"]
      /\ s \notin live /\ live' = live \union {s}
      /\ chains' = [chains EXCEPT ![t] = <<s>>]
      /\ appIds' = appIds /\ requested' = requested /\ result' = result
      /\ pacers' = pacers /\ holder' = holder /\ patchOwner' = patchOwner
      /\ inFlight' = inFlight /\ lastId' = lastId /\ queued' = queued
      /\ complete' = complete /\ appLast' = appLast /\ unpolled' = unpolled
      /\ refused' = refused /\ refusedEver' = refusedEver
  BY DEF Create, Goto, layerVars, historyVars
<1>2. s \notin InUse
  BY <1>1 DEF InUse, IInv, CallInv
<1>3. "inserting" \in OwnerPc
  BY DEF OwnerPc
<1>4. /\ pc'[t] = "inserting" /\ \A u \in Thread \ {t} : pc'[u] = pc[u]
      /\ First(t)' = s /\ \A u \in Thread \ {t} : First(u)' = First(u)
      /\ CallInv'
  BY <1>1, <1>2, <1>3, EnterFacts
<1>5. TypeOK'
  <2>1. /\ pc' \in [Thread -> {"idle", "locking", "patching", "presenting",
                               "finishing", "collecting", "pacing", "inserting",
                               "erasing", "destroying"}]
        /\ chains' \in [Thread -> Presents \union {<<r>> : r \in Swapchain} \union {<<>>}]
        /\ \A u \in Thread : appIds[u] = <<>>
                               \/ appIds[u] \in [DOMAIN chains'[u] -> 1..MaxId]
    BY <1>1, <1>2, <1>3, EnterFacts
  <2> QED
    BY <1>1, <2>1 DEF IInv, TypeOK
<1>6. LockInv' /\ QueueInv'
  BY <1>1, <1>4 DEF IInv, LockInv, QueueInv
<1>7. PacerInv'
  <2>1. Zero(s) /\ ~HasPacer(s)
    BY <1>1 DEF IInv, PacerInv
  <2> QED
    BY <1>1, <1>4, <2>1 DEF IInv, PacerInv, Zero, HasPacer
<1>8. RefusalInv'
  BY <1>1, <1>4 DEF IInv, RefusalInv, HasFeedback, HasPacer
<1>9. ReadInv'
  BY <1>1, <1>4 DEF IInv, ReadInv, ComesFirst, HasFeedback, HasPacer
<1> QED
  BY <1>4, <1>5, <1>6, <1>7, <1>8, <1>9 DEF IInv

\* A swapchain that is destroyed is in no present.
LEMMA DestroyStep ==
  ASSUME IInv, NEW t \in Thread, NEW s \in Swapchain, Destroy(t, s)
  PROVE  IInv'
<1>1. /\ pc[t] = "idle" /\ pc' = [pc EXCEPT ![t] = "erasing"]
      /\ s \in live /\ s \notin InUse /\ live' = live
      /\ chains' = [chains EXCEPT ![t] = <<s>>]
      /\ appIds' = appIds /\ requested' = requested /\ result' = result
      /\ pacers' = pacers /\ holder' = holder /\ patchOwner' = patchOwner
      /\ inFlight' = inFlight /\ lastId' = lastId /\ queued' = queued
      /\ complete' = complete /\ appLast' = appLast /\ unpolled' = unpolled
      /\ refused' = refused /\ refusedEver' = refusedEver
  BY DEF Destroy, Goto, layerVars, driverVars, historyVars
<1>2. "erasing" \in OwnerPc
  BY DEF OwnerPc
<1>3. /\ pc'[t] = "erasing" /\ \A u \in Thread \ {t} : pc'[u] = pc[u]
      /\ First(t)' = s /\ \A u \in Thread \ {t} : First(u)' = First(u)
      /\ CallInv'
  BY <1>1, <1>2, EnterFacts
<1>4. TypeOK'
  <2>1. /\ pc' \in [Thread -> {"idle", "locking", "patching", "presenting",
                               "finishing", "collecting", "pacing", "inserting",
                               "erasing", "destroying"}]
        /\ chains' \in [Thread -> Presents \union {<<r>> : r \in Swapchain} \union {<<>>}]
        /\ \A u \in Thread : appIds[u] = <<>>
                               \/ appIds[u] \in [DOMAIN chains'[u] -> 1..MaxId]
    BY <1>1, <1>2, EnterFacts
  <2> QED
    BY <1>1, <2>1 DEF IInv, TypeOK
<1>5. LockInv' /\ PacerInv' /\ QueueInv'
  BY <1>1, <1>3 DEF IInv, LockInv, PacerInv, QueueInv, Zero, HasPacer
<1>6. RefusalInv'
  BY <1>1, <1>3 DEF IInv, RefusalInv, HasFeedback, HasPacer
<1>7. ReadInv'
  BY <1>1, <1>3 DEF IInv, ReadInv, ComesFirst, HasFeedback, HasPacer
<1> QED
  BY <1>3, <1>4, <1>5, <1>6, <1>7 DEF IInv

\* The pacer of a swapchain nothing has been presented to.
LEMMA NotifyCreateStep ==
  ASSUME IInv, NEW t \in Thread, NotifyCreate(t)
  PROVE  IInv'
<1>1. PICK feedback \in BOOLEAN :
        pacers' = [pacers EXCEPT ![First(t)] = NewPacer(feedback)]
  BY DEF NotifyCreate
<1>2. /\ pc[t] = "inserting" /\ Return(t)
      /\ holder' = holder /\ patchOwner' = patchOwner
      /\ inFlight' = inFlight /\ live' = live /\ lastId' = lastId /\ queued' = queued
      /\ complete' = complete /\ appLast' = appLast /\ unpolled' = unpolled
      /\ refused' = refused /\ refusedEver' = refusedEver
  BY DEF NotifyCreate, driverVars, historyVars
<1>3. PICK s \in Swapchain : s = First(t)
  BY <1>2, CallFacts
<1>4. /\ Named(t) = {s} /\ s \in live /\ Zero(s)
  BY <1>2, <1>3, CallFacts DEF IInv, PacerInv, OwnerPc
<1>5. /\ NewPacer(feedback) \in Pacer
      /\ pacers' \in [Swapchain -> Pacer \union {NoPacer}]
      /\ \A r \in Swapchain : r # s => pacers'[r] = pacers[r]
  <2>1. NewPacer(feedback) \in Pacer
    BY FramePacerAssumption DEF NewPacer, Pacer
  <2> QED
    BY <1>1, <1>3, <2>1 DEF IInv, TypeOK
<1>6. \A r \in Swapchain : r # s => /\ HasPacer(r)' <=> HasPacer(r)
                                    /\ HasFeedback(r)' <=> HasFeedback(r)
  BY <1>5 DEF HasPacer, HasFeedback
<1>7. /\ pc'[t] = "idle"
      /\ \A u \in Thread \ {t} :
           /\ pc'[u] = pc[u] /\ requested'[u] = requested[u] /\ result'[u] = result[u]
           /\ First(u)' = First(u) /\ Named(u)' = Named(u)
           /\ s \notin Named(u)
  BY <1>2, <1>4, ReturnFacts DEF IInv, CallInv
<1>8. TypeOK' /\ CallInv'
  BY <1>2, <1>5, ReturnFacts DEF IInv, TypeOK
<1>9. LockInv' /\ QueueInv'
  BY <1>2, <1>7 DEF IInv, LockInv, QueueInv
<1>10. PacerInv'
  <2>1. \A u \in Thread : pc'[u] # "idle" =>
          /\ u # t /\ pc[u] = pc'[u] /\ First(u)' = First(u)
          /\ First(u) # s /\ First(u) \in Swapchain
    BY <1>7, CallFacts
  <2> QED
    BY <1>2, <1>4, <1>6, <2>1 DEF IInv, PacerInv, Zero
<1>11. RefusalInv'
  <2>1. ASSUME NEW u \in Thread, pc'[u] = "presenting", NEW r \in requested'[u]
        PROVE  HasFeedback(r)'
    <3>1. u # t /\ pc[u] = "presenting" /\ r \in requested[u] /\ r \in Named(u)
          /\ r \in Swapchain
      BY <1>7, <2>1, CallFacts DEF IInv, CallInv
    <3> QED
      BY <1>6, <1>7, <3>1 DEF IInv, RefusalInv
  <2>2. refused[s] = 0
    BY <1>4 DEF Zero
  <2> QED
    BY <1>2, <1>6, <1>7, <2>1, <2>2 DEF IInv, RefusalInv
<1>12. ReadInv'
  <2>1. unpolled[s] = 0
    BY <1>4 DEF Zero
  <2> QED
    BY <1>2, <1>6, <1>7, <2>1 DEF IInv, ReadInv, ComesFirst
<1> QED
  BY <1>8, <1>9, <1>10, <1>11, <1>12 DEF IInv

\* The pacer goes; nobody waits in it, as nobody presents its swapchain.
LEMMA NotifyDestroyStep ==
  ASSUME IInv, NEW t \in Thread, NotifyDestroy(t)
  PROVE  IInv'
<1>1. /\ pc[t] = "erasing" /\ pc' = [pc EXCEPT ![t] = "destroying"]
      /\ pacers' = [pacers EXCEPT ![First(t)] = NoPacer]
      /\ chains' = chains /\ appIds' = appIds /\ requested' = requested
      /\ result' = result /\ holder' = holder /\ patchOwner' = patchOwner
      /\ inFlight' = inFlight /\ live' = live /\ lastId' = lastId /\ queued' = queued
      /\ complete' = complete /\ appLast' = appLast /\ unpolled' = unpolled
      /\ refused' = refused /\ refusedEver' = refusedEver
  BY DEF NotifyDestroy, Goto, driverVars, historyVars
<1>2. PICK s \in Swapchain : s = First(t)
  BY <1>1, CallFacts
<1>3. s \in Named(t)
  BY <1>1, <1>2, CallFacts
<1>4. /\ pc'[t] = "destroying" /\ \A u \in Thread \ {t} : pc'[u] = pc[u]
      /\ \A u \in Thread : Named(u)' = Named(u) /\ First(u)' = First(u)
  BY <1>1 DEF IInv, TypeOK, Named, First
<1>5. /\ pacers' \in [Swapchain -> Pacer \union {NoPacer}]
      /\ ~HasPacer(s)' /\ ~HasFeedback(s)'
      /\ \A r \in Swapchain : r # s => /\ HasPacer(r)' <=> HasPacer(r)
                                       /\ HasFeedback(r)' <=> HasFeedback(r)
  BY <1>1, <1>2 DEF IInv, TypeOK, HasPacer, HasFeedback
<1>6. TypeOK'
  BY <1>1, <1>5 DEF IInv, TypeOK
<1>7. CallInv'
  BY <1>1, <1>4 DEF IInv, CallInv, PresentPc, OwnerPc
<1>8. LockInv' /\ QueueInv'
  BY <1>1, <1>4 DEF IInv, LockInv, QueueInv
<1>9. PacerInv'
  <2>1. \A u \in Thread : pc[u] \in {"inserting", "destroying"} => First(u) \in Swapchain
    BY CallFacts
  <2>2. \A u \in Thread : pc'[u] \in {"inserting", "destroying"} => ~HasPacer(First(u))'
    <3> SUFFICES ASSUME NEW u \in Thread, pc'[u] \in {"inserting", "destroying"}
                 PROVE  ~HasPacer(First(u))'
      OBVIOUS
    <3>1. CASE u = t
      BY <1>2, <1>4, <1>5, <3>1 DEF HasPacer
    <3>2. CASE u # t
      <4>1. PICK r \in Swapchain : r = First(u)
        BY <1>4, <2>1, <3>2
      <4>2. ~HasPacer(r)
        BY <1>4, <3>2, <4>1 DEF IInv, PacerInv
      <4>3. ~HasPacer(r)'
        BY <1>5, <4>2
      <4> QED
        BY <1>4, <4>1, <4>3 DEF HasPacer
    <3> QED
      BY <3>1, <3>2
  <2>3. \A u \in Thread : pc'[u] = "inserting" => Zero(First(u))'
    BY <1>1, <1>4 DEF IInv, PacerInv, Zero
  <2>4. /\ \A r \in Swapchain : HasPacer(r)' => r \in live'
        /\ \A r \in Swapchain : r \notin live' => Zero(r)'
    BY <1>1, <1>5 DEF IInv, PacerInv, Zero
  <2> QED
    BY <2>2, <2>3, <2>4 DEF PacerInv
<1>10. RefusalInv'
  <2>1. ASSUME NEW u \in Thread, pc'[u] = "presenting", NEW r \in requested[u]
        PROVE  HasFeedback(r)'
    <3>1. u # t /\ pc[u] = "presenting" /\ r \in Named(u) /\ r \in Swapchain
      BY <1>4, <2>1, CallFacts DEF IInv, CallInv
    <3>2. r # s /\ HasFeedback(r)
      BY <1>3, <2>1, <3>1 DEF IInv, CallInv, RefusalInv
    <3> QED
      BY <1>5, <3>1, <3>2
  <2> QED
    BY <1>1, <1>4, <1>5, <2>1 DEF IInv, RefusalInv
<1>11. ReadInv'
  BY <1>1, <1>4, <1>5 DEF IInv, ReadInv, ComesFirst
<1> QED
  BY <1>6, <1>7, <1>8, <1>9, <1>10, <1>11 DEF IInv

\* The driver forgets what it had of the swapchain.
LEMMA DriverDestroyStep ==
  ASSUME IInv, NEW t \in Thread, DriverDestroy(t)
  PROVE  IInv'
<1>1. /\ pc[t] = "destroying" /\ Return(t)
      /\ live' = live \ {First(t)}
      /\ lastId' = [lastId EXCEPT ![First(t)] = 0]
      /\ queued' = [queued EXCEPT ![First(t)] = 0]
      /\ complete' = [complete EXCEPT ![First(t)] = 0]
      /\ appLast' = [appLast EXCEPT ![First(t)] = 0]
      /\ unpolled' = [unpolled EXCEPT ![First(t)] = 0]
      /\ refused' = [refused EXCEPT ![First(t)] = 0]
      /\ pacers' = pacers /\ holder' = holder /\ patchOwner' = patchOwner
      /\ inFlight' = inFlight /\ refusedEver' = refusedEver
  BY DEF DriverDestroy, layerVars
<1>2. PICK s \in Swapchain : s = First(t)
  BY <1>1, CallFacts
<1>3. s \in Named(t) /\ ~HasPacer(s) /\ live \ Named(t) \subseteq live'
  BY <1>1, <1>2, CallFacts DEF IInv, PacerInv
<1>4. /\ lastId'[s] = 0 /\ unpolled'[s] = 0 /\ refused'[s] = 0
      /\ queued'[s] = 0 /\ complete'[s] = 0
      /\ \A r \in Swapchain : r # s =>
           /\ lastId'[r] = lastId[r] /\ unpolled'[r] = unpolled[r]
           /\ refused'[r] = refused[r] /\ queued'[r] = queued[r]
           /\ complete'[r] = complete[r]
  BY <1>1, <1>2 DEF IInv, TypeOK
<1>5. \A r \in Swapchain : /\ HasPacer(r)' <=> HasPacer(r)
                           /\ HasFeedback(r)' <=> HasFeedback(r)
  BY <1>1 DEF HasPacer, HasFeedback
<1>6. /\ pc'[t] = "idle"
      /\ \A u \in Thread \ {t} :
           /\ pc'[u] = pc[u] /\ requested'[u] = requested[u] /\ result'[u] = result[u]
           /\ First(u)' = First(u)
  BY <1>1, <1>3, ReturnFacts
<1>7. TypeOK' /\ CallInv'
  <2>1. 0 \in 0..TimingQueueSize /\ 0 \in 0..MaxId /\ 0 \in Nat
    BY FramePacerAssumption
  <2>2. /\ lastId' \in [Swapchain -> Nat] /\ unpolled' \in [Swapchain -> Nat]
        /\ refused' \in [Swapchain -> Nat] /\ live' \subseteq Swapchain
    BY <1>1, <2>1 DEF IInv, TypeOK
  <2>3. /\ queued' \in [Swapchain -> 0..TimingQueueSize]
        /\ complete' \in [Swapchain -> 0..TimingQueueSize]
        /\ appLast' \in [Swapchain -> 0..MaxId]
    <3> DEFINE Q == 0..TimingQueueSize
               L == 0..MaxId
    <3>1. /\ queued \in [Swapchain -> Q] /\ complete \in [Swapchain -> Q]
          /\ appLast \in [Swapchain -> L] /\ 0 \in Q /\ 0 \in L
      BY <2>1 DEF IInv, TypeOK
    <3> HIDE DEF Q, L
    <3>2. queued' \in [Swapchain -> Q] /\ complete' \in [Swapchain -> Q]
          /\ appLast' \in [Swapchain -> L]
      BY <1>1, <3>1
    <3> QED
      BY <3>2 DEF Q, L
  <2> QED
    BY <1>1, <1>3, <2>2, <2>3, ReturnFacts DEF IInv, TypeOK
<1>8. LockInv'
  BY <1>1, <1>6 DEF IInv, LockInv
<1>9. QueueInv'
  <2> SUFFICES ASSUME NEW r \in Swapchain
               PROVE  queued'[r] + complete'[r] <= TimingQueueSize
    BY DEF QueueInv
  <2>1. CASE r = s
    BY <1>4, <2>1, FramePacerAssumption
  <2>2. CASE r # s
    BY <1>4, <2>2 DEF IInv, QueueInv
  <2> QED
    BY <2>1, <2>2
<1>10. PacerInv'
  <2>1. \A u \in Thread : pc'[u] # "idle" =>
          /\ u # t /\ pc[u] = pc'[u] /\ First(u)' = First(u)
          /\ First(u) \in Swapchain
    BY <1>6, CallFacts
  <2>2. \A r \in Swapchain : Zero(r) => Zero(r)'
    BY <1>4 DEF Zero
  <2>3. /\ \A r \in Swapchain : HasPacer(r)' => r \in live'
        /\ \A r \in Swapchain : r \notin live' => Zero(r)'
    <3>1. ASSUME NEW r \in Swapchain, r \notin live'
          PROVE  ~HasPacer(r) /\ Zero(r)'
      BY <1>1, <1>2, <1>3, <1>4, <2>2, <3>1 DEF IInv, PacerInv, Zero
    <3> QED
      BY <1>5, <3>1
  <2>4. \A u \in Thread : pc'[u] = "inserting" => Zero(First(u))'
    <3> SUFFICES ASSUME NEW u \in Thread, pc'[u] = "inserting" PROVE Zero(First(u))'
      OBVIOUS
    <3>1. PICK r \in Swapchain : r = First(u)
      BY <2>1
    <3>2. Zero(r)'
      BY <2>1, <2>2, <3>1 DEF IInv, PacerInv
    <3> QED
      BY <2>1, <3>1, <3>2 DEF Zero
  <2>5. \A u \in Thread : pc'[u] \in {"inserting", "destroying"} => ~HasPacer(First(u))'
    BY <1>1, <2>1 DEF IInv, PacerInv, HasPacer
  <2> QED
    BY <2>3, <2>4, <2>5 DEF PacerInv
<1>11. RefusalInv'
  <2>1. ASSUME NEW u \in Thread, pc'[u] = "presenting", NEW r \in requested'[u]
        PROVE  HasFeedback(r)'
    <3>1. u # t /\ pc[u] = "presenting" /\ r \in requested[u] /\ r \in Named(u)
          /\ r \in Swapchain
      BY <1>6, <2>1, CallFacts DEF IInv, CallInv
    <3> QED
      BY <1>5, <3>1 DEF IInv, RefusalInv
  <2> QED
    BY <1>1, <1>4, <1>5, <1>6, <2>1 DEF IInv, RefusalInv
<1>12. ReadInv'
  BY <1>1, <1>4, <1>5, <1>6 DEF IInv, ReadInv, ComesFirst
<1> QED
  BY <1>7, <1>8, <1>9, <1>10, <1>11, <1>12 DEF IInv

\* An answered request moves from one queue to the other.
LEMMA DisplayStep ==
  ASSUME IInv, NEW s \in Swapchain, Display(s)
  PROVE  IInv'
<1>1. /\ queued[s] > 0
      /\ queued' = [queued EXCEPT ![s] = @ - 1]
      /\ complete' = [complete EXCEPT ![s] = @ + 1]
      /\ pc' = pc /\ chains' = chains /\ appIds' = appIds /\ requested' = requested
      /\ result' = result /\ pacers' = pacers /\ holder' = holder
      /\ patchOwner' = patchOwner /\ inFlight' = inFlight /\ live' = live
      /\ lastId' = lastId /\ appLast' = appLast /\ unpolled' = unpolled
      /\ refused' = refused /\ refusedEver' = refusedEver
  BY DEF Display, threadVars, layerVars, historyVars
<1>2. ASSUME NEW r \in Swapchain
      PROVE  /\ queued'[r] \in 0..TimingQueueSize /\ complete'[r] \in 0..TimingQueueSize
             /\ queued'[r] + complete'[r] <= TimingQueueSize
  <2>1. /\ queued[r] \in 0..TimingQueueSize /\ complete[r] \in 0..TimingQueueSize
        /\ queued[r] + complete[r] <= TimingQueueSize /\ TimingQueueSize \in Nat
    BY FramePacerAssumption DEF IInv, TypeOK, QueueInv
  <2>2. CASE r = s
    <3>1. queued'[r] = queued[r] - 1 /\ complete'[r] = complete[r] + 1
      BY <1>1, <2>2 DEF IInv, TypeOK
    <3> QED
      BY <1>1, <2>1, <2>2, <3>1
  <2>3. CASE r # s
    <3>1. queued'[r] = queued[r] /\ complete'[r] = complete[r]
      BY <1>1, <2>3 DEF IInv, TypeOK
    <3> QED
      BY <2>1, <3>1
  <2> QED
    BY <2>2, <2>3
<1>3. /\ queued' \in [Swapchain -> 0..TimingQueueSize]
      /\ complete' \in [Swapchain -> 0..TimingQueueSize]
  <2>1. /\ queued' = [r \in Swapchain |-> queued'[r]]
        /\ complete' = [r \in Swapchain |-> complete'[r]]
    BY <1>1 DEF IInv, TypeOK
  <2> QED
    BY <1>2, <2>1
<1>4. TypeOK'
  BY <1>1, <1>3 DEF IInv, TypeOK
<1>5. CallInv' /\ LockInv'
  <2>1. \A t \in Thread : Named(t)' = Named(t)
    BY <1>1 DEF Named
  <2> QED
    BY <1>1, <2>1 DEF IInv, CallInv, LockInv
<1>6. PacerInv'
  BY <1>1 DEF IInv, PacerInv, Zero, HasPacer, First
<1>7. QueueInv'
  BY <1>2 DEF QueueInv
<1>8. RefusalInv' /\ ReadInv'
  BY <1>1 DEF IInv, RefusalInv, ReadInv, ComesFirst, HasFeedback, HasPacer, First
<1> QED
  BY <1>4, <1>5, <1>6, <1>7, <1>8 DEF IInv

\* One step per action.
LEMMA NextInv == IInv /\ [Next]_vars => IInv'
<1> SUFFICES ASSUME IInv, [Next]_vars PROVE IInv'
  OBVIOUS
<1>1. ASSUME NEW t \in Thread, Enter(t)
      PROVE  IInv'
  BY <1>1, PresentStep, CreateStep, DestroyStep DEF Enter
<1>2. ASSUME NEW t \in Thread, Acquire(t)
      PROVE  IInv'
  BY <1>2, LockStep, NotifyCreateStep, NotifyDestroyStep DEF Acquire
<1>3. ASSUME NEW t \in Thread, Proceed(t)
      PROVE  IInv'
  BY <1>3, PatchStep, DriverPresentStep, FinishPatchStep, BeginPaceStep, EndPaceStep,
     DriverDestroyStep DEF Proceed
<1>4. CASE UNCHANGED vars
  <2>1. /\ pc' = pc /\ chains' = chains /\ appIds' = appIds /\ requested' = requested
        /\ result' = result /\ pacers' = pacers /\ holder' = holder
        /\ patchOwner' = patchOwner /\ inFlight' = inFlight /\ live' = live
        /\ lastId' = lastId /\ queued' = queued /\ complete' = complete
        /\ appLast' = appLast /\ unpolled' = unpolled /\ refused' = refused
        /\ refusedEver' = refusedEver
    BY <1>4 DEF vars, threadVars, layerVars, driverVars, historyVars
  <2>2. TypeOK' /\ CallInv' /\ LockInv'
    <3>1. \A t \in Thread : Named(t)' = Named(t)
      BY <2>1 DEF Named
    <3>2. TypeOK'
      BY <2>1 DEF IInv, TypeOK
    <3> QED
      BY <2>1, <3>1, <3>2 DEF IInv, CallInv, LockInv
  <2>3. PacerInv' /\ QueueInv'
    BY <2>1 DEF IInv, PacerInv, QueueInv, Zero, HasPacer, First
  <2>4. RefusalInv' /\ ReadInv'
    BY <2>1 DEF IInv, RefusalInv, ReadInv, ComesFirst, HasFeedback, HasPacer, First
  <2> QED
    BY <2>2, <2>3, <2>4 DEF IInv
<1> QED
  BY <1>1, <1>2, <1>3, <1>4, DisplayStep DEF Next

\* The invariant holds in every behaviour.
LEMMA Invariance == Spec => []IInv
BY InitInv, NextInv, PTL DEF Spec

-----------------------------------------------------------------------------
(* Ids. *)

\* A step that leaves ids, pacers and the threads that use them alone.
LEMMA IdIdle ==
  ASSUME IInv, IdInv, lastId' = lastId, inFlight' = inFlight,
         \A s \in Swapchain : HasPacer(s)' =>
           HasPacer(s) /\ pacers'[s].nextId = pacers[s].nextId,
         \A t \in Thread : pc'[t] \in {"locking", "patching"} /\ appIds'[t] # <<>> =>
           /\ pc[t] \in {"locking", "patching"}
           /\ appIds'[t] = appIds[t] /\ chains'[t] = chains[t],
         \A t \in Thread : pc'[t] = "presenting" =>
           /\ pc[t] = "presenting" /\ chains'[t] = chains[t]
           /\ \A s \in Named(t) : HasPacer(s)' <=> HasPacer(s)
  PROVE  IdInv'
<1>1. \A s \in Swapchain : HasPacer(s)' => lastId'[s] < pacers'[s].nextId
  BY DEF IdInv
<1>2. \A t \in Thread : pc'[t] \in {"locking", "patching"} /\ appIds'[t] # <<>> =>
        \A i \in DOMAIN chains'[t] : lastId'[chains'[t][i]] < appIds'[t][i]
  BY DEF IdInv
<1>3. \A t \in Thread : pc'[t] = "presenting" =>
        \A s \in Named(t)' : inFlight'[s] # 0 =>
          HasPacer(s)' /\ lastId'[s] < inFlight'[s] /\ inFlight'[s] < pacers'[s].nextId
  <2> SUFFICES ASSUME NEW t \in Thread, pc'[t] = "presenting", NEW s \in Named(t)',
                      inFlight'[s] # 0
               PROVE  /\ HasPacer(s)' /\ lastId'[s] < inFlight'[s]
                      /\ inFlight'[s] < pacers'[s].nextId
    OBVIOUS
  <2>1. pc[t] = "presenting" /\ s \in Named(t) /\ s \in Swapchain
    BY CallFacts DEF Named
  <2>2. HasPacer(s) /\ lastId[s] < inFlight[s] /\ inFlight[s] < pacers[s].nextId
    BY <2>1 DEF IdInv
  <2> QED
    BY <2>1, <2>2
<1> QED
  BY <1>1, <1>2, <1>3 DEF IdInv

\* The application's ids are larger than the driver's, as it has not left any
\* present to the layer since.
LEMMA PresentIds ==
  ASSUME IInv, IdInv, ~Relabels, NEW t \in Thread, NEW list \in Presents,
         Present(t, list)
  PROVE  IdInv'
<1>1. /\ pc' = [pc EXCEPT ![t] = "locking"] /\ chains' = [chains EXCEPT ![t] = list]
      /\ pacers' = pacers /\ inFlight' = inFlight /\ lastId' = lastId
      /\ pc[t] = "idle"
  BY DEF Present, Goto, layerVars, driverVars
<1>2. /\ pc'[t] = "locking" /\ chains'[t] = list
      /\ \A u \in Thread \ {t} : pc'[u] = pc[u] /\ chains'[u] = chains[u]
  BY <1>1 DEF IInv, TypeOK
<1>3. /\ \A u \in Thread \ {t} : appIds'[u] = appIds[u]
      /\ appIds'[t] # <<>> => \A i \in DOMAIN list : lastId[list[i]] < appIds'[t][i]
  <2>1. CASE UNCHANGED appIds
    BY <1>1, <2>1 DEF IInv, CallInv
  <2>2. ASSUME \A i \in DOMAIN list : lastId[list[i]] = appLast[list[i]],
               NEW ids \in Labels(list), appIds' = [appIds EXCEPT ![t] = ids]
        PROVE  <1>3
    <3>1. appIds'[t] = ids /\ \A u \in Thread \ {t} : appIds'[u] = appIds[u]
      BY <2>2 DEF IInv, TypeOK
    <3>2. \A i \in DOMAIN list : ids[i] > appLast[list[i]]
      BY DEF Labels
    <3>3. \A i \in DOMAIN list : ids[i] \in Nat /\ appLast[list[i]] \in Nat
      BY ListFacts, FramePacerAssumption DEF Labels, IInv, TypeOK
    <3> QED
      BY <2>2, <3>1, <3>2, <3>3
  <2> QED
    BY <2>1, <2>2 DEF Present
<1>4. \A s \in Swapchain : HasPacer(s)' => lastId'[s] < pacers'[s].nextId
  BY <1>1 DEF IdInv, HasPacer
<1>5. \A u \in Thread : pc'[u] \in {"locking", "patching"} /\ appIds'[u] # <<>> =>
        \A i \in DOMAIN chains'[u] : lastId'[chains'[u][i]] < appIds'[u][i]
  <2> TAKE u \in Thread
  <2>1. CASE u = t
    BY <1>1, <1>2, <1>3, <2>1
  <2>2. CASE u # t
    BY <1>1, <1>2, <1>3, <2>2 DEF IdInv
  <2> QED
    BY <2>1, <2>2
<1>6. \A u \in Thread : pc'[u] = "presenting" =>
        \A s \in Named(u)' : inFlight'[s] # 0 =>
          HasPacer(s)' /\ lastId'[s] < inFlight'[s] /\ inFlight'[s] < pacers'[s].nextId
  BY <1>1, <1>2 DEF IdInv, Named, HasPacer
<1> QED
  BY <1>4, <1>5, <1>6 DEF IdInv

\* An id the patch puts in is larger than the driver's, and the next is larger.
LEMMA PatchIds ==
  ASSUME IInv, IdInv, NEW t \in Thread, Patch(t)
  PROVE  IdInv'
<1>1. /\ pc[t] = "patching" /\ pc' = [pc EXCEPT ![t] = "presenting"]
      /\ inFlight' = [s \in Swapchain |-> IF s \in Named(t) THEN IdOf(t, s) ELSE 0]
      /\ pacers' = [s \in Swapchain |->
           IF s \in Named(t) /\ IdOf(t, s) # 0
           THEN [pacers[s] EXCEPT !.nextId = Larger(@, IdOf(t, s) + 1)]
           ELSE pacers[s]]
      /\ chains' = chains /\ appIds' = appIds /\ lastId' = lastId
  BY DEF Patch, Goto, driverVars
<1>2. /\ pc'[t] = "presenting" /\ \A u \in Thread \ {t} : pc'[u] = pc[u]
      /\ \A u \in Thread : Named(u)' = Named(u)
      /\ \A u \in Thread \ {t} : pc[u] # "presenting"
  <2>1. \A u \in Thread \ {t} : pc[u] # "presenting"
    BY <1>1 DEF IInv, LockInv
  <2> QED
    BY <1>1, <2>1 DEF IInv, TypeOK, Named
<1>3. ASSUME NEW s \in Swapchain, s \in Named(t), IdOf(t, s) # 0
      PROVE  /\ HasPacer(s) /\ HasPacer(s)' /\ IdOf(t, s) \in Nat
             /\ lastId[s] \in Nat /\ lastId[s] < IdOf(t, s)
             /\ pacers'[s].nextId \in Nat /\ IdOf(t, s) < pacers'[s].nextId
  <2>1. /\ HasPacer(s) /\ pacers[s] \in Pacer /\ IdOf(t, s) \in Nat
        /\ Larger(pacers[s].nextId, IdOf(t, s) + 1) \in Nat
    BY <1>1, <1>3, IdFacts DEF PresentPc
  <2>2. pacers[s].nextId \in Nat /\ lastId[s] \in Nat /\ lastId[s] < pacers[s].nextId
    BY <2>1 DEF Pacer, IInv, TypeOK, IdInv
  <2>3. lastId[s] < IdOf(t, s)
    <3>1. CASE appIds[t] = <<>>
      BY <1>3, <2>1, <2>2, <3>1 DEF IdOf
    <3>2. CASE appIds[t] # <<>>
      <4> DEFINE n == CHOOSE j \in DOMAIN chains[t] : chains[t][j] = s
      <4>1. n \in DOMAIN chains[t] /\ chains[t][n] = s
        BY <1>3 DEF Named
      <4>2. IdOf(t, s) = appIds[t][n]
        BY <2>1, <3>2 DEF IdOf
      <4>3. \A i \in DOMAIN chains[t] : lastId[chains[t][i]] < appIds[t][i]
        BY <1>1, <3>2 DEF IdInv
      <4> QED
        BY <4>1, <4>2, <4>3
    <3> QED
      BY <3>1, <3>2
  <2>4. pacers'[s] = [pacers[s] EXCEPT !.nextId = Larger(@, IdOf(t, s) + 1)]
    BY <1>1, <1>3
  <2>5. pacers'[s].nextId = Larger(pacers[s].nextId, IdOf(t, s) + 1)
    BY <2>1, <2>4 DEF Pacer
  <2>6. IdOf(t, s) < pacers'[s].nextId
    BY <2>1, <2>2, <2>5 DEF Larger
  <2>7. HasPacer(s)'
    BY <2>1, PatchFacts
  <2> QED
    BY <2>1, <2>2, <2>3, <2>5, <2>6, <2>7
<1>4. \A s \in Swapchain : HasPacer(s)' => lastId'[s] < pacers'[s].nextId
  <2> TAKE s \in Swapchain
  <2> HAVE HasPacer(s)'
  <2>1. CASE s \in Named(t) /\ IdOf(t, s) # 0
    BY <1>1, <1>3, <2>1
  <2>2. CASE ~(s \in Named(t) /\ IdOf(t, s) # 0)
    BY <1>1, <2>2 DEF IdInv, HasPacer
  <2> QED
    BY <2>1, <2>2
<1>5. \A u \in Thread : pc'[u] \in {"locking", "patching"} /\ appIds'[u] # <<>> =>
        \A i \in DOMAIN chains'[u] : lastId'[chains'[u][i]] < appIds'[u][i]
  BY <1>1, <1>2 DEF IdInv
<1>6. \A u \in Thread : pc'[u] = "presenting" =>
        \A s \in Named(u)' : inFlight'[s] # 0 =>
          HasPacer(s)' /\ lastId'[s] < inFlight'[s] /\ inFlight'[s] < pacers'[s].nextId
  <2> SUFFICES ASSUME NEW u \in Thread, pc'[u] = "presenting", NEW s \in Named(u)',
                      inFlight'[s] # 0
               PROVE  /\ HasPacer(s)' /\ lastId'[s] < inFlight'[s]
                      /\ inFlight'[s] < pacers'[s].nextId
    OBVIOUS
  <2>1. u = t /\ s \in Named(t) /\ s \in Swapchain
    BY <1>1, <1>2, CallFacts
  <2>2. inFlight'[s] = IdOf(t, s) /\ IdOf(t, s) # 0
    BY <1>1, <2>1
  <2> QED
    BY <1>1, <1>3, <2>1, <2>2
<1> QED
  BY <1>4, <1>5, <1>6 DEF IdInv

\* The driver takes the ids over.
LEMMA DriverPresentIds ==
  ASSUME IInv, IdInv, NEW t \in Thread, DriverPresent(t)
  PROVE  IdInv'
<1>1. /\ pc[t] = "presenting" /\ pc' = [pc EXCEPT ![t] = "finishing"]
      /\ lastId' = [s \in Swapchain |->
           IF s \in Named(t) /\ inFlight[s] # 0 THEN inFlight[s] ELSE lastId[s]]
      /\ chains' = chains /\ appIds' = appIds /\ pacers' = pacers
      /\ inFlight' = inFlight
  BY DEF DriverPresent, Goto, layerVars
<1>2. /\ pc'[t] = "finishing" /\ \A u \in Thread \ {t} : pc'[u] = pc[u]
      /\ \A u \in Thread : Named(u)' = Named(u)
      /\ \A u \in Thread \ {t} : pc[u] # "presenting"
  <2>1. \A u \in Thread \ {t} : pc[u] # "presenting"
    BY <1>1 DEF IInv, LockInv
  <2> QED
    BY <1>1, <2>1 DEF IInv, TypeOK, Named
<1>3. \A s \in Swapchain : HasPacer(s)' => lastId'[s] < pacers'[s].nextId
  BY <1>1 DEF IdInv, HasPacer
<1>4. \A u \in Thread : pc'[u] \in {"locking", "patching"} /\ appIds'[u] # <<>> =>
        \A i \in DOMAIN chains'[u] : lastId'[chains'[u][i]] < appIds'[u][i]
  <2> SUFFICES ASSUME NEW u \in Thread, pc'[u] \in {"locking", "patching"},
                      appIds[u] # <<>>, NEW i \in DOMAIN chains[u]
               PROVE  lastId'[chains[u][i]] < appIds[u][i]
    BY <1>1
  <2>1. u # t /\ pc[u] = pc'[u] /\ pc[u] # "idle"
    BY <1>2
  <2>2. chains[u][i] \in Named(u) /\ chains[u][i] \in Swapchain
    BY <2>1, CallFacts DEF Named
  <2>3. chains[u][i] \notin Named(t)
    BY <2>1, <2>2 DEF IInv, CallInv
  <2>4. lastId'[chains[u][i]] = lastId[chains[u][i]]
    BY <1>1, <2>2, <2>3
  <2> QED
    BY <2>1, <2>4 DEF IdInv
<1> QED
  BY <1>1, <1>2, <1>3, <1>4 DEF IdInv

\* The steps of a present that make no ids.
LEMMA LockIds ==
  ASSUME IInv, IdInv, NEW t \in Thread, LockPresent(t)
  PROVE  IdInv'
<1>1. /\ pc[t] = "locking" /\ pc' = [pc EXCEPT ![t] = "patching"]
      /\ chains' = chains /\ appIds' = appIds /\ pacers' = pacers
      /\ inFlight' = inFlight /\ lastId' = lastId
  BY DEF LockPresent, Goto, driverVars
<1>2. pc'[t] = "patching" /\ \A u \in Thread \ {t} : pc'[u] = pc[u]
  BY <1>1 DEF IInv, TypeOK
<1> QED
  BY <1>1, <1>2, IdIdle DEF HasPacer

\* Nobody else is presenting when the ids in flight are cleared.
LEMMA FinishPatchIds ==
  ASSUME IInv, IdInv, NEW t \in Thread, FinishPatch(t)
  PROVE  IdInv'
<1>1. /\ pc[t] = "finishing" /\ pc' = [pc EXCEPT ![t] = "collecting"]
      /\ pacers' = [s \in Swapchain |->
           IF result[t] = "queueFull" /\ s \in Named(t) /\ HasPacer(s)
           THEN [pacers[s] EXCEPT !.feedback = FALSE] ELSE pacers[s]]
      /\ chains' = chains /\ appIds' = appIds /\ lastId' = lastId
  BY DEF FinishPatch, Goto, driverVars
<1>2. /\ pc'[t] = "collecting" /\ \A u \in Thread \ {t} : pc'[u] = pc[u]
      /\ \A u \in Thread : pc[u] # "presenting"
  <2>1. \A u \in Thread : pc[u] # "presenting"
    BY <1>1 DEF IInv, LockInv
  <2> QED
    BY <1>1, <2>1 DEF IInv, TypeOK
<1>3. ASSUME NEW s \in Swapchain, HasPacer(s)'
      PROVE  lastId'[s] < pacers'[s].nextId
  <2>1. CASE result[t] = "queueFull" /\ s \in Named(t) /\ HasPacer(s)
    <3>1. pacers[s] \in Pacer /\ pacers'[s] = [pacers[s] EXCEPT !.feedback = FALSE]
      BY <1>1, <2>1 DEF IInv, TypeOK, HasPacer
    <3>2. pacers'[s].nextId = pacers[s].nextId
      BY <3>1 DEF Pacer
    <3> QED
      BY <1>1, <2>1, <3>2 DEF IdInv
  <2>2. CASE ~(result[t] = "queueFull" /\ s \in Named(t) /\ HasPacer(s))
    BY <1>1, <1>3, <2>2 DEF IdInv, HasPacer
  <2> QED
    BY <2>1, <2>2
<1>4. \A u \in Thread : pc'[u] \in {"locking", "patching"} /\ appIds'[u] # <<>> =>
        \A i \in DOMAIN chains'[u] : lastId'[chains'[u][i]] < appIds'[u][i]
  BY <1>1, <1>2 DEF IdInv
<1> QED
  BY <1>2, <1>3, <1>4 DEF IdInv

\* A poll leaves ids alone.
LEMMA BeginPaceIds ==
  ASSUME IInv, IdInv, NEW t \in Thread, BeginPace(t)
  PROVE  IdInv'
<1>1. /\ pc[t] = "collecting" /\ pc' = [pc EXCEPT ![t] = "pacing"]
      /\ chains' = chains /\ appIds' = appIds /\ inFlight' = inFlight
      /\ lastId' = lastId
  BY DEF BeginPace, Goto
<1>2. pc'[t] = "pacing" /\ \A u \in Thread \ {t} : pc'[u] = pc[u]
  BY <1>1 DEF IInv, TypeOK
<1>3. PICK s \in Swapchain : s = First(t)
  BY <1>1, CallFacts
<1>4. \A r \in Swapchain : /\ HasPacer(r)' <=> HasPacer(r)
                           /\ HasPacer(r) => pacers'[r].nextId = pacers[r].nextId
  <2>1. CASE HasFeedback(s)
    <3>1. PollSucceeds(s) \/ PollFails(s)
      BY <1>3, <2>1 DEF BeginPace
    <3> QED
      BY <2>1, <3>1, PollFacts
  <2>2. CASE ~HasFeedback(s)
    <3>1. pacers' = pacers
      BY <1>3, <2>2 DEF BeginPace
    <3> QED
      BY <3>1 DEF HasPacer
  <2> QED
    BY <2>1, <2>2
<1>5. \A u \in Thread : pc'[u] = "presenting" =>
        \A r \in Named(u) : HasPacer(r)' <=> HasPacer(r)
  <2>1. \A u \in Thread : pc'[u] = "presenting" => pc[u] # "idle"
    BY <1>2
  <2> QED
    BY <1>4, <2>1, CallFacts
<1> QED
  BY <1>1, <1>2, <1>4, <1>5, IdIdle

\* A call that ends, or one about a swapchain in no present, changes pacers at
\* most of its own swapchain.
LEMMA OwnerIds ==
  ASSUME IInv, IdInv, NEW t \in Thread, NEW s \in Swapchain,
         lastId' = lastId, inFlight' = inFlight,
         pc[t] = "idle" \/ pc[t] \in OwnerPc \/ pc[t] = "pacing",
         pc'[t] = "idle" \/ pc'[t] \in OwnerPc,
         \A u \in Thread \ {t} :
           /\ pc'[u] = pc[u] /\ chains'[u] = chains[u] /\ appIds'[u] = appIds[u]
           /\ pacers' # pacers => s \notin Named(u),
         \A r \in Swapchain : r # s => pacers'[r] = pacers[r],
         pacers' = pacers \/ (HasPacer(s)' => lastId[s] < pacers'[s].nextId)
  PROVE  IdInv'
<1>1. ASSUME NEW r \in Swapchain, HasPacer(r)'
      PROVE  lastId'[r] < pacers'[r].nextId
  BY <1>1 DEF IdInv, HasPacer
<1>2. ASSUME NEW u \in Thread, pc'[u] \in {"locking", "patching"}, appIds'[u] # <<>>,
             NEW i \in DOMAIN chains'[u]
      PROVE  lastId'[chains'[u][i]] < appIds'[u][i]
  <2>1. u # t
    BY <1>2 DEF OwnerPc
  <2> QED
    BY <1>2, <2>1 DEF IdInv
<1>3. ASSUME NEW u \in Thread, pc'[u] = "presenting", NEW r \in Named(u)', inFlight'[r] # 0
      PROVE  HasPacer(r)' /\ lastId'[r] < inFlight'[r] /\ inFlight'[r] < pacers'[r].nextId
  <2>1. u # t
    BY <1>3 DEF OwnerPc
  <2>2. pc[u] = "presenting" /\ r \in Named(u)
    BY <1>3, <2>1 DEF Named
  <2>3. r \in Swapchain /\ pacers'[r] = pacers[r]
    BY <2>1, <2>2, CallFacts
  <2> QED
    BY <1>3, <2>2, <2>3 DEF IdInv, HasPacer
<1> QED
  BY <1>1, <1>2, <1>3 DEF IdInv

\* Creation and destruction up to the driver's part.
LEMMA CreateIds ==
  ASSUME IInv, IdInv, NEW t \in Thread, NEW s \in Swapchain, Create(t, s) \/ Destroy(t, s)
  PROVE  IdInv'
<1>1. /\ pc[t] = "idle" /\ pacers' = pacers /\ lastId' = lastId /\ inFlight' = inFlight
      /\ chains' = [chains EXCEPT ![t] = <<s>>] /\ appIds' = appIds
      /\ pc' = [pc EXCEPT ![t] = "inserting"] \/ pc' = [pc EXCEPT ![t] = "erasing"]
  BY DEF Create, Destroy, Goto, layerVars, driverVars
<1>2. /\ pc'[t] \in OwnerPc
      /\ \A u \in Thread \ {t} : pc'[u] = pc[u] /\ chains'[u] = chains[u]
  BY <1>1 DEF IInv, TypeOK, OwnerPc
<1> QED
  BY <1>1, <1>2, OwnerIds

\* A new pacer starts above the ids of a new swapchain.
LEMMA NotifyCreateIds ==
  ASSUME IInv, IdInv, NEW t \in Thread, NotifyCreate(t)
  PROVE  IdInv'
<1>1. PICK feedback \in BOOLEAN :
        pacers' = [pacers EXCEPT ![First(t)] = NewPacer(feedback)]
  BY DEF NotifyCreate
<1>2. /\ pc[t] = "inserting" /\ Return(t) /\ live' = live
      /\ inFlight' = inFlight /\ lastId' = lastId
  BY DEF NotifyCreate, driverVars
<1>3. PICK s \in Swapchain : s = First(t)
  BY <1>2, CallFacts
<1>4. s \in Named(t) /\ lastId[s] = 0
  BY <1>2, <1>3, CallFacts DEF IInv, PacerInv, Zero
<1>5. /\ pacers'[s].nextId = 1
      /\ \A r \in Swapchain : r # s => pacers'[r] = pacers[r]
  BY <1>1, <1>3 DEF IInv, TypeOK, NewPacer
<1>6. /\ pc'[t] = "idle"
      /\ \A u \in Thread \ {t} :
           pc'[u] = pc[u] /\ chains'[u] = chains[u] /\ appIds'[u] = appIds[u]
  BY <1>2, ReturnFacts
<1>7. \A u \in Thread \ {t} : s \notin Named(u)
  BY <1>4 DEF IInv, CallInv
<1>8. lastId[s] < pacers'[s].nextId
  BY <1>4, <1>5
<1> QED
  BY <1>2, <1>5, <1>6, <1>7, <1>8, OwnerIds DEF OwnerPc

\* An erased pacer has no ids.
LEMMA NotifyDestroyIds ==
  ASSUME IInv, IdInv, NEW t \in Thread, NotifyDestroy(t)
  PROVE  IdInv'
<1>1. /\ pc[t] = "erasing" /\ pc' = [pc EXCEPT ![t] = "destroying"]
      /\ pacers' = [pacers EXCEPT ![First(t)] = NoPacer]
      /\ chains' = chains /\ appIds' = appIds
      /\ inFlight' = inFlight /\ lastId' = lastId
  BY DEF NotifyDestroy, Goto, driverVars
<1>2. PICK s \in Swapchain : s = First(t)
  BY <1>1, CallFacts
<1>3. s \in Named(t)
  BY <1>1, <1>2, CallFacts
<1>4. /\ ~HasPacer(s)'
      /\ \A r \in Swapchain : r # s => pacers'[r] = pacers[r]
      /\ pc'[t] = "destroying" /\ \A u \in Thread \ {t} : pc'[u] = pc[u]
  BY <1>1, <1>2 DEF IInv, TypeOK, HasPacer
<1>5. \A u \in Thread \ {t} : s \notin Named(u)
  BY <1>3 DEF IInv, CallInv
<1> QED
  BY <1>1, <1>4, <1>5, OwnerIds DEF OwnerPc

\* The driver's ids end with the swapchain, which nobody presents.
LEMMA DriverDestroyIds ==
  ASSUME IInv, IdInv, NEW t \in Thread, DriverDestroy(t)
  PROVE  IdInv'
<1>1. /\ pc[t] = "destroying" /\ Return(t) /\ live' = live \ {First(t)}
      /\ lastId' = [lastId EXCEPT ![First(t)] = 0]
      /\ pacers' = pacers /\ inFlight' = inFlight
  BY DEF DriverDestroy, layerVars
<1>2. PICK s \in Swapchain : s = First(t)
  BY <1>1, CallFacts
<1>3. s \in Named(t) /\ ~HasPacer(s) /\ live \ Named(t) \subseteq live'
  BY <1>1, <1>2, CallFacts DEF IInv, PacerInv
<1>4. /\ pc'[t] = "idle"
      /\ \A u \in Thread \ {t} :
           pc'[u] = pc[u] /\ chains'[u] = chains[u] /\ appIds'[u] = appIds[u]
  BY <1>1, <1>3, ReturnFacts
<1>5. /\ \A u \in Thread \ {t} : s \notin Named(u)
      /\ \A r \in Swapchain : r # s => lastId'[r] = lastId[r]
  BY <1>1, <1>2, <1>3 DEF IInv, TypeOK, CallInv
<1>6. ASSUME NEW r \in Swapchain, HasPacer(r)'
      PROVE  lastId'[r] < pacers'[r].nextId
  <2>1. r # s /\ HasPacer(r)
    BY <1>1, <1>3, <1>6 DEF HasPacer
  <2> QED
    BY <1>1, <1>5, <2>1 DEF IdInv
<1>7. ASSUME NEW u \in Thread, pc'[u] \in {"locking", "patching"}, appIds'[u] # <<>>,
             NEW i \in DOMAIN chains'[u]
      PROVE  lastId'[chains'[u][i]] < appIds'[u][i]
  <2>1. u # t /\ pc[u] = pc'[u] /\ chains'[u] = chains[u] /\ appIds'[u] = appIds[u]
    BY <1>4, <1>7
  <2>2. chains[u][i] \in Named(u) /\ chains[u][i] \in Swapchain
    BY <1>7, <2>1, CallFacts DEF Named
  <2>3. lastId'[chains[u][i]] = lastId[chains[u][i]]
    BY <1>5, <2>1, <2>2
  <2> QED
    BY <1>7, <2>1, <2>3 DEF IdInv
<1>8. ASSUME NEW u \in Thread, pc'[u] = "presenting", NEW r \in Named(u)', inFlight'[r] # 0
      PROVE  HasPacer(r)' /\ lastId'[r] < inFlight'[r] /\ inFlight'[r] < pacers'[r].nextId
  <2>1. u # t /\ pc[u] = pc'[u] /\ r \in Named(u)
    BY <1>4, <1>8 DEF Named
  <2>2. r \in Swapchain /\ lastId'[r] = lastId[r]
    BY <1>5, <1>8, <2>1, CallFacts
  <2> QED
    BY <1>1, <1>8, <2>1, <2>2 DEF IdInv, HasPacer
<1> QED
  BY <1>6, <1>7, <1>8 DEF IdInv

\* One step per action.
LEMMA NextIds ==
  ASSUME ~Relabels
  PROVE  IInv /\ IdInv /\ [Next]_vars => IdInv'
<1> SUFFICES ASSUME IInv, IdInv, [Next]_vars PROVE IdInv'
  OBVIOUS
<1>1. ASSUME NEW t \in Thread, Enter(t)
      PROVE  IdInv'
  BY <1>1, PresentIds, CreateIds DEF Enter
<1>2. ASSUME NEW t \in Thread, Acquire(t)
      PROVE  IdInv'
  BY <1>2, LockIds, NotifyCreateIds, NotifyDestroyIds DEF Acquire
<1>3. ASSUME NEW t \in Thread, EndPace(t)
      PROVE  IdInv'
  <2>1. /\ pc[t] = "pacing" /\ Return(t) /\ live' = live
        /\ pacers' = pacers /\ lastId' = lastId /\ inFlight' = inFlight
    BY <1>3 DEF EndPace, layerVars, driverVars
  <2>2. First(t) \in Swapchain
    BY <2>1, CallFacts
  <2>3. /\ pc'[t] = "idle"
        /\ \A u \in Thread \ {t} :
             pc'[u] = pc[u] /\ chains'[u] = chains[u] /\ appIds'[u] = appIds[u]
    BY <2>1, ReturnFacts
  <2> QED
    BY <2>1, <2>2, <2>3, OwnerIds
<1>4. ASSUME NEW t \in Thread, Proceed(t)
      PROVE  IdInv'
  BY <1>3, <1>4, PatchIds, DriverPresentIds, FinishPatchIds, BeginPaceIds,
     DriverDestroyIds DEF Proceed
<1>5. CASE (\E s \in Swapchain : Display(s)) \/ UNCHANGED vars
  <2>1. /\ pc' = pc /\ chains' = chains /\ appIds' = appIds /\ pacers' = pacers
        /\ inFlight' = inFlight /\ lastId' = lastId
    BY <1>5 DEF Display, vars, threadVars, layerVars, driverVars
  <2> QED
    BY <2>1, IdIdle DEF HasPacer
<1> QED
  BY <1>1, <1>2, <1>4, <1>5 DEF Next

-----------------------------------------------------------------------------
(* Theorems. *)

\* Every variable keeps its type, the driver's queue its size among them.
THEOREM TypeCorrect == Spec => []TypeOK
<1>1. IInv => TypeOK
  BY DEF IInv
<1> QED
  BY <1>1, Invariance, PTL

\* The patch a present hands to the driver is its own until finish() has read
\* it, however many threads present.
THEOREM PatchKept == Spec => []PatchIsOwn
<1>1. IInv => PatchIsOwn
  BY DEF IInv, LockInv, PatchIsOwn
<1> QED
  BY <1>1, Invariance, PTL

\* A pacer lives within the life of its swapchain.
THEOREM PacersLive == Spec => []PacersAreOfLiveSwapchains
<1>1. IInv => PacersAreOfLiveSwapchains
  BY DEF IInv, PacerInv, PacersAreOfLiveSwapchains, HasPacer
<1> QED
  BY <1>1, Invariance, PTL

\* The error for a full timing queue stays inside the layer, and a pacer causes
\* it once at most.
THEOREM FullQueueAbsorbed == Spec => []FullQueueIsAbsorbed
<1>1. IInv => FullQueueIsAbsorbed
  <2> SUFFICES ASSUME IInv PROVE FullQueueIsAbsorbed
    OBVIOUS
  <2>1. \A s \in Swapchain : refused[s] <= 1
    BY DEF IInv, RefusalInv
  <2> QED
    BY <2>1 DEF IInv, RefusalInv, FullQueueIsAbsorbed
<1> QED
  BY <1>1, Invariance, PTL

\* A swapchain that comes first in its presents is polled between any two.
THEOREM FirstRead == Spec => []FirstSwapchainIsRead
<1>1. IInv => FirstSwapchainIsRead
  <2> SUFFICES ASSUME IInv, NEW s \in Swapchain, ComesFirst(s)
               PROVE  unpolled[s] <= 1
    BY DEF FirstSwapchainIsRead
  <2>1. unpolled[s] = 0 \/ unpolled[s] = 1
    BY DEF IInv, ReadInv
  <2> QED
    BY <2>1
<1> QED
  BY <1>1, Invariance, PTL

\* Ids increase for an application that does not label presents again after it
\* has left some to the layer; `mixed_ids' shows that this is needed.
THEOREM IdsGrow ==
  ASSUME ~Relabels
  PROVE  Spec => []IdsIncrease
<1>1. Init => IdInv
  BY DEF Init, IdInv, HasPacer
<1>2. IInv /\ IdInv /\ [Next]_vars => IdInv'
  BY NextIds
<1>3. IdInv => IdsIncrease
  <2> SUFFICES ASSUME IdInv, NEW t \in Thread, pc[t] = "presenting", NEW s \in Named(t),
                      inFlight[s] # 0
               PROVE  inFlight[s] > lastId[s]
    BY DEF IdsIncrease
  <2> QED
    BY DEF IdInv
<1> QED
  BY <1>1, <1>2, <1>3, Invariance, PTL DEF Spec
-----------------------------------------------------------------------------
(* Progress: no call is stuck, and presents return. *)

\* What a thread inside a call can do by itself, and when it can have the lock
\* it waits for: the guards of Proceed and of Acquire.
Ready(t) ==
  \/ pc[t] \in {"patching", "presenting", "finishing", "pacing", "destroying"}
  \/ pc[t] = "collecting" /\ HasPacer(First(t))
LockFree(t) ==
  \/ pc[t] = "locking" /\ holder = NoThread
  \/ pc[t] \in {"inserting", "erasing"} /\ Readers = {}

\* present_mutex is held only on the way to its release, and a swapchain that
\* can be presented has a pacer.
HolderPc == {"patching", "presenting", "finishing"}
EdgePc == {"inserting", "destroying"}
ServedInv ==
  /\ holder # NoThread => pc[holder] \in HolderPc
  /\ \A s \in live : HasPacer(s) \/ \E t \in Thread : pc[t] \in EdgePc /\ First(t) = s

\* No call is stuck: a thread that cannot go on waits for one that can, so
\* neither the two mutexes nor the order in which they are taken close a circle.
NobodyIsStuck ==
  \A t \in Thread : pc[t] # "idle" =>
    \/ Ready(t) \/ LockFree(t)
    \/ pc[t] = "locking" /\ holder \in Thread /\ Ready(holder)
    \/ pc[t] \in {"inserting", "erasing"} /\ \A u \in Readers : Ready(u)

\* A call walks through the hooks in the order of the code.
LEMMA MoveFacts ==
  ASSUME IInv, [Next]_vars, NEW t \in Thread
  PROVE  /\ pc[t] = "locking" => pc'[t] \in {"locking", "patching"}
         /\ pc[t] = "patching" => pc'[t] \in {"patching", "presenting"}
         /\ pc[t] = "presenting" => pc'[t] \in {"presenting", "finishing"}
         /\ pc[t] = "finishing" =>
              \/ pc'[t] = "finishing"
              \/ (pc'[t] = "collecting" /\ holder' = NoThread)
         /\ pc[t] = "collecting" => pc'[t] \in {"collecting", "pacing"}
         /\ pc[t] = "pacing" => pc'[t] \in {"pacing", "idle"}
         /\ pc[t] = "inserting" => pc'[t] \in {"inserting", "idle"}
         /\ pc[t] = "erasing" => pc'[t] \in {"erasing", "destroying"}
         /\ pc[t] = "destroying" => pc'[t] \in {"destroying", "idle"}
<1>0. DOMAIN pc = Thread
  BY DEF IInv, TypeOK
<1>1. ASSUME NEW u \in Thread, Enter(u)
      PROVE  pc[u] = "idle" /\ \E where : pc' = [pc EXCEPT ![u] = where]
  BY <1>1 DEF Enter, Present, Create, Destroy, Goto
<1>2. ASSUME NEW u \in Thread, Acquire(u)
      PROVE  \/ pc[u] = "locking" /\ pc' = [pc EXCEPT ![u] = "patching"]
             \/ pc[u] = "inserting" /\ pc' = [pc EXCEPT ![u] = "idle"]
             \/ pc[u] = "erasing" /\ pc' = [pc EXCEPT ![u] = "destroying"]
  BY <1>2 DEF Acquire, LockPresent, NotifyCreate, NotifyDestroy, Return, Goto
<1>3. ASSUME NEW u \in Thread, Proceed(u)
      PROVE  \/ pc[u] = "patching" /\ pc' = [pc EXCEPT ![u] = "presenting"]
             \/ pc[u] = "presenting" /\ pc' = [pc EXCEPT ![u] = "finishing"]
             \/ /\ pc[u] = "finishing" /\ pc' = [pc EXCEPT ![u] = "collecting"]
                /\ holder' = NoThread
             \/ pc[u] = "collecting" /\ pc' = [pc EXCEPT ![u] = "pacing"]
             \/ pc[u] = "pacing" /\ pc' = [pc EXCEPT ![u] = "idle"]
             \/ pc[u] = "destroying" /\ pc' = [pc EXCEPT ![u] = "idle"]
  BY <1>3 DEF Proceed, Patch, DriverPresent, FinishPatch, BeginPace, EndPace,
     DriverDestroy, Return, Goto
<1>4. CASE (\E s \in Swapchain : Display(s)) \/ UNCHANGED vars
  <2>1. pc' = pc
    BY <1>4 DEF Display, vars, threadVars
  <2> QED
    BY <2>1
<1>5. ASSUME NEW u \in Thread, Enter(u) \/ Acquire(u) \/ Proceed(u), u # t
      PROVE  pc'[t] = pc[t]
  BY <1>0, <1>1, <1>2, <1>3, <1>5
<1>6. CASE Enter(t) \/ Acquire(t) \/ Proceed(t)
  BY <1>0, <1>1, <1>2, <1>3, <1>6
<1> QED
  BY <1>4, <1>5, <1>6 DEF Next

\* A step of Proceed or Acquire of a thread takes it on.
LEMMA StepFacts ==
  ASSUME IInv, NEW t \in Thread, Proceed(t) \/ Acquire(t)
  PROVE  pc'[t] # pc[t]
<1>0. DOMAIN pc = Thread
  BY DEF IInv, TypeOK
<1>1. CASE Acquire(t)
  BY <1>0, <1>1 DEF Acquire, LockPresent, NotifyCreate, NotifyDestroy, Return, Goto
<1>2. CASE Proceed(t)
  BY <1>0, <1>2 DEF Proceed, Patch, DriverPresent, FinishPatch, BeginPace, EndPace,
     DriverDestroy, Return, Goto
<1> QED
  BY <1>1, <1>2

\* A step keeps the pacers of live swapchains, up to the swapchain that its
\* thread creates or destroys.
LEMMA ServedKept ==
  ASSUME IInv, ServedInv, [Next]_vars, NEW t \in Thread,
         \A u \in Thread \ {t} : pc'[u] = pc[u] /\ First(u)' = First(u),
         \A r \in live' :
           \/ HasPacer(r)'
           \/ pc'[t] \in EdgePc /\ First(t)' = r
           \/ /\ r \in live /\ (HasPacer(r) => HasPacer(r)')
              /\ ~(pc[t] \in EdgePc /\ First(t) = r),
         \/ holder' = holder \/ holder' = NoThread
         \/ holder' = t /\ pc'[t] \in HolderPc
  PROVE  ServedInv'
<1>1. holder' # NoThread => pc'[holder'] \in HolderPc
  <2>1. CASE holder' = holder /\ holder # NoThread
    <3>1. PICK u \in Thread : u = holder
      BY <2>1 DEF IInv, TypeOK
    <3>2. pc[u] \in HolderPc
      BY <2>1, <3>1 DEF ServedInv
    <3> QED
      BY <2>1, <3>1, <3>2, MoveFacts DEF HolderPc
  <2> QED
    BY <2>1
<1>2. ASSUME NEW r \in live'
      PROVE  HasPacer(r)' \/ \E u \in Thread : pc'[u] \in EdgePc /\ First(u)' = r
  <2>1. CASE /\ r \in live /\ (HasPacer(r) => HasPacer(r)')
             /\ ~(pc[t] \in EdgePc /\ First(t) = r)
    <3>1. CASE ~HasPacer(r)
      <4>1. PICK u \in Thread : pc[u] \in EdgePc /\ First(u) = r
        BY <2>1, <3>1 DEF ServedInv
      <4>2. u # t
        BY <2>1, <4>1
      <4> QED
        BY <4>1, <4>2
    <3> QED
      BY <2>1, <3>1
  <2> QED
    BY <2>1
<1> QED
  BY <1>1, <1>2 DEF ServedInv

\* Calls begin.
LEMMA EnterServed ==
  ASSUME IInv, ServedInv, [Next]_vars, NEW t \in Thread, Enter(t)
  PROVE  ServedInv'
<1>1. /\ pc[t] = "idle" /\ holder' = holder /\ pacers' = pacers
      /\ \A u \in Thread \ {t} : pc'[u] = pc[u] /\ chains'[u] = chains[u]
  BY DEF Enter, Present, Create, Destroy, Goto, layerVars, IInv, TypeOK
<1>2. \A u \in Thread \ {t} : First(u)' = First(u)
  BY <1>1 DEF First
<1>3. \A r \in live' : r \in live \/ (pc'[t] \in EdgePc /\ First(t)' = r)
  <2>1. CASE live' = live
    BY <2>1
  <2>2. ASSUME NEW s \in Swapchain, Create(t, s)
        PROVE  <1>3
    <3>1. /\ live' = live \union {s} /\ pc' = [pc EXCEPT ![t] = "inserting"]
          /\ chains' = [chains EXCEPT ![t] = <<s>>]
      BY <2>2 DEF Create, Goto
    <3>2. pc'[t] = "inserting" /\ chains'[t] = <<s>>
      BY <3>1 DEF IInv, TypeOK
    <3>3. First(t)' = s
      BY <3>2 DEF First
    <3> QED
      BY <3>1, <3>2, <3>3 DEF EdgePc
  <2>3. live' = live \/ \E s \in Swapchain : Create(t, s)
    BY DEF Enter, Present, Destroy, driverVars
  <2> QED
    BY <2>1, <2>2, <2>3
<1>4. \A r : HasPacer(r) <=> HasPacer(r)'
  BY <1>1 DEF HasPacer
<1>5. pc[t] \notin EdgePc
  BY <1>1 DEF EdgePc
<1> QED
  BY <1>1, <1>2, <1>3, <1>4, <1>5, ServedKept

\* Locks are taken: a pacer is made for the swapchain that is inserted, and
\* none goes but that of a swapchain that is destroyed.
LEMMA AcquireServed ==
  ASSUME IInv, ServedInv, [Next]_vars, NEW t \in Thread, Acquire(t)
  PROVE  ServedInv'
<1>1. CASE LockPresent(t)
  <2>1. /\ pc[t] = "locking" /\ pc' = [pc EXCEPT ![t] = "patching"]
        /\ holder' = t /\ chains' = chains /\ pacers' = pacers /\ live' = live
    BY <1>1 DEF LockPresent, Goto, driverVars
  <2>2. /\ pc'[t] = "patching" /\ \A u \in Thread \ {t} : pc'[u] = pc[u]
        /\ \A u \in Thread : First(u)' = First(u)
        /\ \A r : HasPacer(r) <=> HasPacer(r)'
    BY <2>1 DEF IInv, TypeOK, First, HasPacer
  <2> QED
    BY <2>1, <2>2, ServedKept DEF EdgePc, HolderPc
<1>2. CASE NotifyCreate(t)
  <2>1. PICK feedback \in BOOLEAN :
          pacers' = [pacers EXCEPT ![First(t)] = NewPacer(feedback)]
    BY <1>2 DEF NotifyCreate
  <2>2. pc[t] = "inserting" /\ Return(t) /\ holder' = holder /\ live' = live
    BY <1>2 DEF NotifyCreate, driverVars
  <2>3. PICK s \in Swapchain : s = First(t)
    BY <2>2, CallFacts
  <2>4. NewPacer(feedback) # NoPacer
    BY FramePacerAssumption DEF NewPacer, Pacer
  <2>5. /\ HasPacer(s)'
        /\ \A r \in Swapchain : r # s => (HasPacer(r) <=> HasPacer(r)')
    BY <2>1, <2>3, <2>4 DEF IInv, TypeOK, HasPacer
  <2>6. \A u \in Thread \ {t} : pc'[u] = pc[u] /\ First(u)' = First(u)
    BY <2>2, ReturnFacts
  <2>7. live \subseteq Swapchain
    BY DEF IInv, TypeOK
  <2> QED
    BY <2>2, <2>3, <2>5, <2>6, <2>7, ServedKept
<1>3. CASE NotifyDestroy(t)
  <2>1. /\ pc[t] = "erasing" /\ pc' = [pc EXCEPT ![t] = "destroying"]
        /\ pacers' = [pacers EXCEPT ![First(t)] = NoPacer]
        /\ holder' = holder /\ chains' = chains /\ live' = live
    BY <1>3 DEF NotifyDestroy, Goto, driverVars
  <2>2. /\ pc'[t] = "destroying" /\ \A u \in Thread \ {t} : pc'[u] = pc[u]
        /\ \A u \in Thread : First(u)' = First(u)
    BY <2>1 DEF IInv, TypeOK, First
  <2>3. \A r \in Swapchain : r # First(t) => (HasPacer(r) <=> HasPacer(r)')
    BY <2>1 DEF IInv, TypeOK, HasPacer
  <2>4. live \subseteq Swapchain
    BY DEF IInv, TypeOK
  <2> QED
    BY <2>1, <2>2, <2>3, <2>4, ServedKept DEF EdgePc
<1> QED
  BY <1>1, <1>2, <1>3 DEF Acquire

\* Presents keep every pacer, whatever becomes of its feedback.
LEMMA ProceedServed ==
  ASSUME IInv, ServedInv, [Next]_vars, NEW t \in Thread, Proceed(t)
  PROVE  ServedInv'
<1>0. live \subseteq Swapchain
  BY DEF IInv, TypeOK
<1>1. CASE Patch(t) \/ DriverPresent(t) \/ FinishPatch(t) \/ BeginPace(t)
  <2>1. /\ pc[t] \notin EdgePc /\ chains' = chains /\ live' = live
        /\ holder' = holder \/ holder' = NoThread
        /\ \A u \in Thread \ {t} : pc'[u] = pc[u]
    BY <1>1 DEF Patch, DriverPresent, FinishPatch, BeginPace, Goto, EdgePc, layerVars,
       driverVars, IInv, TypeOK
  <2>2. \A u \in Thread : First(u)' = First(u)
    BY <2>1 DEF First
  <2>3. \A r \in Swapchain : HasPacer(r) => HasPacer(r)'
    <3>1. CASE Patch(t)
      BY <3>1, PatchFacts
    <3>2. CASE DriverPresent(t)
      BY <3>2 DEF DriverPresent, layerVars, HasPacer
    <3>3. CASE FinishPatch(t)
      <4> SUFFICES ASSUME NEW r \in Swapchain, HasPacer(r) PROVE HasPacer(r)'
        OBVIOUS
      <4>1. pacers[r] \in Pacer
        BY DEF IInv, TypeOK, HasPacer
      <4>2. [pacers[r] EXCEPT !.feedback = FALSE] \in Pacer
        BY <4>1 DEF Pacer
      <4>3. pacers'[r] \in Pacer
        BY <3>3, <4>1, <4>2 DEF FinishPatch
      <4> QED
        BY <4>3, FramePacerAssumption DEF HasPacer
    <3>4. CASE BeginPace(t)
      <4>1. PICK s \in Swapchain : s = First(t)
        BY <3>4, CallFacts DEF BeginPace
      <4>2. CASE HasFeedback(s)
        <5>1. PollSucceeds(s) \/ PollFails(s)
          BY <3>4, <4>1, <4>2 DEF BeginPace
        <5> QED
          BY <4>2, <5>1, PollFacts
      <4>3. CASE ~HasFeedback(s)
        BY <3>4, <4>1, <4>3 DEF BeginPace, HasPacer
      <4> QED
        BY <4>2, <4>3
    <3> QED
      BY <1>1, <3>1, <3>2, <3>3, <3>4
  <2> QED
    BY <1>0, <2>1, <2>2, <2>3, ServedKept
<1>2. CASE EndPace(t)
  <2>1. /\ pc[t] \notin EdgePc /\ Return(t) /\ live' = live /\ holder' = holder
        /\ pacers' = pacers
    BY <1>2 DEF EndPace, EdgePc, layerVars, driverVars
  <2>2. \A u \in Thread \ {t} : pc'[u] = pc[u] /\ First(u)' = First(u)
    BY <2>1, ReturnFacts
  <2> QED
    BY <2>1, <2>2, ServedKept DEF HasPacer
<1>3. CASE DriverDestroy(t)
  <2>1. /\ pc[t] = "destroying" /\ Return(t) /\ live' = live \ {First(t)}
        /\ holder' = holder /\ pacers' = pacers
    BY <1>3 DEF DriverDestroy, layerVars
  <2>2. Named(t) = {First(t)}
    BY <2>1, CallFacts DEF OwnerPc
  <2>3. \A u \in Thread \ {t} : pc'[u] = pc[u] /\ First(u)' = First(u)
    BY <2>1, <2>2, ReturnFacts
  <2> QED
    BY <2>1, <2>3, ServedKept DEF HasPacer
<1> QED
  BY <1>1, <1>2, <1>3 DEF Proceed

\* The mutex is never left behind, and what can be presented can be paced.
LEMMA Served == Spec => []ServedInv
<1>1. Init => ServedInv
  BY DEF Init, ServedInv
<1>2. IInv /\ ServedInv /\ [Next]_vars => ServedInv'
  <2> SUFFICES ASSUME IInv, ServedInv, [Next]_vars PROVE ServedInv'
    OBVIOUS
  <2>1. CASE (\E s \in Swapchain : Display(s)) \/ UNCHANGED vars
    <3>1. pc' = pc /\ chains' = chains /\ pacers' = pacers /\ holder' = holder /\ live' = live
      BY <2>1 DEF Display, vars, threadVars, layerVars, driverVars
    <3> QED
      BY <3>1 DEF ServedInv, HasPacer, First
  <2> QED
    BY <2>1, EnterServed, AcquireServed, ProceedServed DEF Next
<1> QED
  BY <1>1, <1>2, Invariance, PTL DEF Spec

\* A thread that is past its locks can go on.
LEMMA ReadyFacts ==
  ASSUME IInv, ServedInv, NEW t \in Thread,
         pc[t] \in {"patching", "presenting", "finishing", "collecting", "pacing",
                    "destroying"}
  PROVE  Ready(t)
<1>1. CASE pc[t] = "collecting"
  <2>1. First(t) \in live /\ First(t) \in Named(t)
    BY <1>1, CallFacts
  <2>2. ASSUME NEW u \in Thread, pc[u] \in EdgePc, First(u) = First(t)
        PROVE  FALSE
    <3>1. u # t /\ First(u) \in Named(u)
      BY <1>1, <2>2, CallFacts DEF EdgePc
    <3> QED
      BY <2>1, <2>2, <3>1 DEF IInv, CallInv
  <2>3. HasPacer(First(t))
    BY <2>1, <2>2 DEF ServedInv
  <2> QED
    BY <1>1, <2>3 DEF Ready
<1> QED
  BY <1>1 DEF Ready

\* No call is stuck, however many threads there are.
THEOREM DeadlockFree == Spec => []NobodyIsStuck
<1>1. IInv /\ ServedInv => NobodyIsStuck
  <2> SUFFICES ASSUME IInv, ServedInv, NEW t \in Thread, pc[t] # "idle", ~Ready(t)
               PROVE  \/ LockFree(t)
                      \/ pc[t] = "locking" /\ holder \in Thread /\ Ready(holder)
                      \/ pc[t] \in {"inserting", "erasing"} /\ \A u \in Readers : Ready(u)
    BY DEF NobodyIsStuck
  <2>1. pc[t] \in {"locking", "inserting", "erasing"}
    BY ReadyFacts DEF IInv, TypeOK
  <2>2. CASE pc[t] = "locking" /\ holder # NoThread
    <3>1. holder \in Thread /\ pc[holder] \in HolderPc
      BY <2>2 DEF IInv, TypeOK, ServedInv
    <3> QED
      BY <2>2, <3>1 DEF Ready, HolderPc
  <2>3. CASE pc[t] \in {"inserting", "erasing"}
    BY <2>3 DEF Readers, Ready
  <2> QED
    BY <2>1, <2>2, <2>3 DEF LockFree
<1> QED
  BY <1>1, Invariance, Served, PTL

\* Fairness with the guards written out: a thread that can go on for good does
\* go on, and one that finds its lock free again and again gets it.
GoesOn(t) == []Ready(t) => <><<Proceed(t)>>_vars
GetsLock(t) == []<>LockFree(t) => <><<Acquire(t)>>_vars
ThreadsGoOn == [](\A u \in Thread : GoesOn(u))
LocksAreGiven == [](\A u \in Thread : GetsLock(u))

\* The steps a thread takes by itself, and what a call is on its way to.
Path == {<<"patching", "presenting">>, <<"presenting", "finishing">>,
         <<"finishing", "collecting">>, <<"collecting", "pacing">>,
         <<"pacing", "idle">>, <<"destroying", "idle">>}
Leads(t, a, b) == (pc[t] = a) ~> (pc[t] = b)

\* A thread past its locks goes from each place of its path to the next.
LEMMA PathIsTaken ==
  ASSUME NEW t \in Thread, NEW a, NEW b, <<a, b>> \in Path
  PROVE  [](IInv /\ ServedInv) /\ [][Next]_vars /\ ThreadsGoOn => Leads(t, a, b)
<1>1. (\A u \in Thread : GoesOn(u)) => GoesOn(t)
  OBVIOUS
<1>2. IInv /\ ServedInv => ((pc[t] = a) => Ready(t))
  BY ReadyFacts DEF Path
<1>3. IInv /\ [Next]_vars => ((pc[t] = a) => (pc[t] = a)' \/ (pc[t] = b)')
  BY MoveFacts DEF Path
<1>4. IInv /\ <<Proceed(t)>>_vars => ((pc[t] = a) => ~(pc[t] = a)')
  BY StepFacts
<1> QED
  BY <1>1, <1>2, <1>3, <1>4, PTL DEF ThreadsGoOn, GoesOn, Leads

\* A thread that holds present_mutex releases it, so it is free again and again.
LEMMA MutexIsReleased ==
  [](IInv /\ ServedInv) /\ [][Next]_vars /\ ThreadsGoOn => []<>(holder = NoThread)
<1> DEFINE P == [](IInv /\ ServedInv) /\ [][Next]_vars /\ ThreadsGoOn
           Free == <>(holder = NoThread)
<1>1. ASSUME NEW t \in Thread
      PROVE  P => (holder = t => Free)
  <2>1. P => Leads(t, "patching", "presenting") /\ Leads(t, "presenting", "finishing")
               /\ Leads(t, "finishing", "collecting")
    BY PathIsTaken DEF Path
  <2>2. IInv /\ [Next]_vars =>
          ((pc[t] = "finishing") => (pc[t] = "finishing")' \/ (holder = NoThread)')
    BY MoveFacts
  <2>3. ServedInv => (holder = t =>
          pc[t] = "patching" \/ pc[t] = "presenting" \/ pc[t] = "finishing")
    BY FramePacerAssumption DEF ServedInv, HolderPc
  <2>4. (pc[t] = "finishing") => ~(pc[t] = "collecting")
    OBVIOUS
  <2> QED
    BY <2>1, <2>2, <2>3, <2>4, PTL DEF Leads
<1>2. IInv => holder \in Thread \/ holder = NoThread
  BY DEF IInv, TypeOK
<1>3. P => (holder \in Thread => Free)
  BY <1>1
<1> QED
  BY <1>2, <1>3, PTL DEF ThreadsGoOn

\* What the liveness proofs assume, besides that the system takes only its steps.
Behaviour == [](IInv /\ ServedInv) /\ [][Next]_vars

\* Every step of the path can be taken, so a thread past its locks returns.
LEMMA PathIsWalked ==
  ASSUME NEW t \in Thread
  PROVE  Behaviour /\ ThreadsGoOn =>
           /\ Leads(t, "patching", "idle")
           /\ Leads(t, "collecting", "idle")
           /\ Leads(t, "pacing", "idle")
           /\ Leads(t, "presenting", "idle")
           /\ Leads(t, "finishing", "idle")
           /\ Leads(t, "destroying", "idle")
<1> DEFINE P == Behaviour /\ ThreadsGoOn
<1>1. P => Leads(t, "pacing", "idle")
  BY PathIsTaken DEF Path, Behaviour
<1>2. P => Leads(t, "collecting", "pacing")
  BY PathIsTaken DEF Path, Behaviour
<1>3. P => Leads(t, "collecting", "idle")
  BY <1>1, <1>2, PTL DEF Leads
<1>4. P => Leads(t, "finishing", "collecting")
  BY PathIsTaken DEF Path, Behaviour
<1>5. P => Leads(t, "finishing", "idle")
  BY <1>3, <1>4, PTL DEF Leads
<1>6. P => Leads(t, "presenting", "finishing")
  BY PathIsTaken DEF Path, Behaviour
<1>7. P => Leads(t, "presenting", "idle")
  BY <1>5, <1>6, PTL DEF Leads
<1>8. P => Leads(t, "patching", "presenting")
  BY PathIsTaken DEF Path, Behaviour
<1>9. P => Leads(t, "patching", "idle")
  BY <1>7, <1>8, PTL DEF Leads
<1>10. P => Leads(t, "destroying", "idle")
  BY PathIsTaken DEF Path, Behaviour
<1> QED
  BY <1>1, <1>3, <1>5, <1>7, <1>9, <1>10

\* A thread that waits for present_mutex finds it free again and again.
LEMMA MutexIsGiven ==
  ASSUME NEW t \in Thread
  PROVE  Behaviour /\ ThreadsGoOn /\ LocksAreGiven => Leads(t, "locking", "patching")
<1>1. (\A u \in Thread : GetsLock(u)) => GetsLock(t)
  OBVIOUS
<1>2. Behaviour /\ ThreadsGoOn => []<>(holder = NoThread)
  BY MutexIsReleased DEF Behaviour
<1>3. IInv /\ [Next]_vars => ((pc[t] = "locking") => (pc[t] = "locking")' \/ (pc[t] = "patching")')
  BY MoveFacts
<1>4. IInv /\ <<Acquire(t)>>_vars => ((pc[t] = "locking") => ~(pc[t] = "locking")')
  BY StepFacts
<1>5. (pc[t] = "locking") /\ (holder = NoThread) => LockFree(t)
  BY DEF LockFree
<1> QED
  BY <1>1, <1>2, <1>3, <1>4, <1>5, PTL DEF LocksAreGiven, GetsLock, Leads, Behaviour

\* An exclusive section waits for all readers to be gone at once.  Nothing in
\* the layer keeps readers that overlap from holding a writer off for good;
\* this says that they do not.
AtPacers(t) == pc[t] \in {"inserting", "erasing"}
ReadersLeave(t) == AtPacers(t) ~> (Readers = {} \/ ~AtPacers(t))
ReadersMakeRoom == \A t \in Thread : ReadersLeave(t)

\* A thread that waits to insert or to erase a pacer does it, if the readers
\* make room.
LEMMA WriterIsLetIn ==
  ASSUME NEW t \in Thread
  PROVE  Behaviour /\ LocksAreGiven /\ ReadersLeave(t) =>
           /\ Leads(t, "inserting", "idle")
           /\ Leads(t, "erasing", "destroying")
<1> DEFINE P == Behaviour /\ LocksAreGiven /\ ReadersLeave(t)
<1>1. (\A u \in Thread : GetsLock(u)) => GetsLock(t)
  OBVIOUS
<1>2. /\ (pc[t] = "inserting") /\ (Readers = {}) => LockFree(t)
      /\ (pc[t] = "erasing") /\ (Readers = {}) => LockFree(t)
  BY DEF LockFree
<1>3. /\ (pc[t] = "inserting") => AtPacers(t)
      /\ (pc[t] = "erasing") => AtPacers(t)
  BY DEF AtPacers
<1>4. IInv /\ [Next]_vars => ((pc[t] = "inserting") => (pc[t] = "inserting")' \/ (pc[t] = "idle")')
  BY MoveFacts
<1>5. IInv /\ <<Acquire(t)>>_vars => ((pc[t] = "inserting") => ~(pc[t] = "inserting")')
  BY StepFacts
<1>6. IInv /\ [Next]_vars => ((pc[t] = "erasing") => (pc[t] = "erasing")' \/ (pc[t] = "destroying")')
  BY MoveFacts
<1>7. IInv /\ <<Acquire(t)>>_vars => ((pc[t] = "erasing") => ~(pc[t] = "erasing")')
  BY StepFacts
<1>8. P => Leads(t, "inserting", "idle")
  BY <1>1, <1>2, <1>3, <1>4, <1>5, PTL DEF LocksAreGiven, GetsLock, Leads, Behaviour,
     ReadersLeave
<1>9. P => Leads(t, "erasing", "destroying")
  BY <1>1, <1>2, <1>3, <1>6, <1>7, PTL DEF LocksAreGiven, GetsLock, Leads, Behaviour,
     ReadersLeave
<1> QED
  BY <1>8, <1>9

\* A present goes from its lock to the return.
Returns(t) == (pc[t] \in PresentPc) ~> (pc[t] = "idle")
PresentsReturn == \A t \in Thread : Returns(t)

\* Each present returns, however many threads there are and whatever they do.
THEOREM PresentsDoReturn == Spec /\ ThreadsGoOn /\ LocksAreGiven => PresentsReturn
<1> DEFINE P == Behaviour /\ ThreadsGoOn /\ LocksAreGiven
<1>1. ASSUME NEW t \in Thread
      PROVE  P => Returns(t)
  <2>1. P => Leads(t, "locking", "patching")
    BY MutexIsGiven
  <2>2. P => Leads(t, "patching", "idle")
    BY PathIsWalked
  <2>3. P => Leads(t, "locking", "idle")
    BY <2>1, <2>2, PTL DEF Leads
  <2>4. P => Leads(t, "presenting", "idle") /\ Leads(t, "finishing", "idle")
    BY PathIsWalked
  <2>5. P => Leads(t, "collecting", "idle") /\ Leads(t, "pacing", "idle")
    BY PathIsWalked
  <2>6. pc[t] \in PresentPc =>
          \/ pc[t] = "locking" \/ pc[t] = "patching" \/ pc[t] = "presenting"
          \/ pc[t] = "finishing" \/ pc[t] = "collecting" \/ pc[t] = "pacing"
    BY DEF PresentPc
  <2> QED
    BY <2>2, <2>3, <2>4, <2>5, <2>6, PTL DEF Leads, Returns
<1>2. P => PresentsReturn
  BY <1>1 DEF PresentsReturn
<1>3. Spec => Behaviour
  BY Invariance, Served, PTL DEF Behaviour, Spec
<1> QED
  BY <1>2, <1>3

Finishes(t) == (pc[t] # "idle") ~> (pc[t] = "idle")

\* A call is a present, which returns, or waits for the lock as a writer.
LEMMA CallReturns ==
  ASSUME NEW t \in Thread
  PROVE  Behaviour /\ ThreadsGoOn /\ LocksAreGiven /\ PresentsReturn /\ ReadersLeave(t) =>
           Finishes(t)
<1> DEFINE P == Behaviour /\ ThreadsGoOn /\ LocksAreGiven /\ PresentsReturn /\ ReadersLeave(t)
<1>1. P => Returns(t)
  BY DEF PresentsReturn
<1>2. P => Leads(t, "destroying", "idle")
  BY PathIsWalked
<1>3. P => Leads(t, "inserting", "idle") /\ Leads(t, "erasing", "destroying")
  BY WriterIsLetIn
<1>4. IInv => ((pc[t] # "idle") =>
        \/ pc[t] \in PresentPc \/ pc[t] = "inserting" \/ pc[t] = "erasing"
        \/ pc[t] = "destroying")
  BY DEF IInv, TypeOK, PresentPc
<1> QED
  BY <1>1, <1>2, <1>3, <1>4, PTL DEF Leads, Returns, Finishes, Behaviour

\* Every call returns, however many threads there are, as long as the readers
\* make room for the writers.
THEOREM CallsDoReturn ==
  Spec /\ ThreadsGoOn /\ LocksAreGiven /\ ReadersMakeRoom => CallsReturn
<1> DEFINE P == Behaviour /\ ThreadsGoOn /\ LocksAreGiven /\ PresentsReturn
                 /\ ReadersMakeRoom
<1>1. ASSUME NEW t \in Thread
      PROVE  P => Finishes(t)
  <2>1. P => ReadersLeave(t)
    BY DEF ReadersMakeRoom
  <2> QED
    BY <2>1, CallReturns
<1>2. P => \A t \in Thread : Finishes(t)
  BY <1>1
<1>3. P => CallsReturn
  BY <1>2 DEF CallsReturn, Finishes
<1>4. Spec => Behaviour
  BY Invariance, Served, PTL DEF Behaviour, Spec
<1> QED
  BY <1>3, <1>4, PresentsDoReturn

\* Two threads cannot hold a third off: of two, every call returns.
THEOREM TwoThreadsReturn ==
  ASSUME NEW a, NEW b, Thread = {a, b}
  PROVE  Spec /\ ThreadsGoOn /\ LocksAreGiven => CallsReturn
<1> DEFINE P == Behaviour /\ ThreadsGoOn /\ LocksAreGiven
<1>1. ASSUME NEW t \in Thread, NEW u \in Thread, Thread = {t, u}
      PROVE  P => ReadersLeave(t)
  <2>1. P => Leads(u, "pacing", "idle")
    BY PathIsWalked
  <2>2. AtPacers(t) /\ ~(pc[u] = "pacing") => Readers = {}
    BY <1>1 DEF AtPacers, Readers
  <2>3. pc[u] = "idle" => ~(pc[u] = "pacing")
    OBVIOUS
  <2> QED
    BY <2>1, <2>2, <2>3, PTL DEF ReadersLeave, Leads
<1>2. a \in Thread /\ b \in Thread /\ Thread = {b, a}
  OBVIOUS
<1>3. P => ReadersLeave(a) /\ ReadersLeave(b)
  BY <1>1, <1>2
<1>4. P => ReadersMakeRoom
  BY <1>3 DEF ReadersMakeRoom
<1>5. Spec => Behaviour
  BY Invariance, Served, PTL DEF Behaviour, Spec
<1> QED
  BY <1>4, <1>5, CallsDoReturn
=============================================================================
