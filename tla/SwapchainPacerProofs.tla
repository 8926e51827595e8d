------------------------ MODULE SwapchainPacerProofs ------------------------
(***************************************************************************)
(* Proofs about SwapchainPacer, for any swapchains, queues, spans and      *)
(* queue depth.                                                            *)
(***************************************************************************)
EXTENDS SwapchainPacer, FiniteSetTheorems, TLAPS

\* Where the work of a swapchain may be, by where its thread is.
PcInv ==
  \A s \in Swapchain :
    /\ frame[s] # {} => pc[s] = "pacing"
    /\ waiting[s] # {} => pc[s] = "waiting"
    /\ mode = "off" => pc[s] \in {"app", "pacing"} /\ pending[s] = <<>>

\* A frame that counts is still waited for, or will be.
OutInv ==
  \A s \in Swapchain : \A w \in outstanding[s] :
    /\ w \intersect running # {}
    /\ w = waiting[s] \/ \E i \in DOMAIN pending[s] : pending[s][i] = w

IInv == TypeOK /\ SpanInOnePlace /\ PcInv /\ OutInv

\* The frames of one swapchain share no span.
Apart(s) ==
  /\ \A i, j \in DOMAIN pending[s] : i # j => pending[s][i] \intersect pending[s][j] = {}
  /\ \A i \in DOMAIN pending[s] : pending[s][i] \intersect (waiting[s] \union frame[s]) = {}

-----------------------------------------------------------------------------
(* Lemmas. *)

\* What the two operations of the queue of frames do.
LEMMA AppendFacts ==
  ASSUME NEW S, NEW p \in Seq(S), NEW f \in S
  PROVE  /\ Append(p, f) \in Seq(S)
         /\ DOMAIN Append(p, f) = DOMAIN p \union {Len(p) + 1}
         /\ \A i \in DOMAIN p : Append(p, f)[i] = p[i]
         /\ Append(p, f)[Len(p) + 1] = f
         /\ Len(p) + 1 \notin DOMAIN p
OBVIOUS

\* Taking the oldest frame moves the others up by one.
LEMMA TailFacts ==
  ASSUME NEW S, NEW p \in Seq(S), Len(p) > 0
  PROVE  /\ Tail(p) \in Seq(S) /\ Head(p) \in S /\ Head(p) = p[1] /\ 1 \in DOMAIN p
         /\ \A i \in DOMAIN Tail(p) : i + 1 \in DOMAIN p /\ Tail(p)[i] = p[i + 1]
                                      /\ i + 1 # 1 /\ i \in Int
         /\ \A j \in DOMAIN p : j # 1 => \E i \in DOMAIN Tail(p) : i + 1 = j
<1>1. Len(p) \in Nat /\ DOMAIN p = 1..Len(p)
  OBVIOUS
<1>2. /\ Tail(p) \in Seq(S) /\ Len(Tail(p)) = Len(p) - 1
      /\ \A i \in 1..(Len(p) - 1) : Tail(p)[i] = p[i + 1]
  OBVIOUS
<1>3. DOMAIN Tail(p) = 1..(Len(p) - 1)
  BY <1>2
<1>4. \A j \in DOMAIN p : j # 1 => \E i \in DOMAIN Tail(p) : i + 1 = j
  <2> TAKE j \in DOMAIN p
  <2> HAVE j # 1
  <2>1. j - 1 \in DOMAIN Tail(p) /\ (j - 1) + 1 = j
    BY <1>1, <1>3
  <2> QED
    BY <2>1
<1> QED
  BY <1>1, <1>2, <1>3, <1>4

\* The types of one swapchain's work.
LEMMA TypeFacts ==
  ASSUME IInv, NEW s \in Swapchain
  PROVE  /\ frame[s] \subseteq Span /\ waiting[s] \subseteq Span
         /\ pending[s] \in Seq(SUBSET Span) /\ outstanding[s] \subseteq SUBSET Span
         /\ Tracked \subseteq Span /\ Held(s) \subseteq Span
         /\ \A i \in DOMAIN pending[s] : pending[s][i] \subseteq Span
         /\ Apart(s)
<1>1. /\ frame[s] \subseteq Span /\ waiting[s] \subseteq Span
      /\ pending[s] \in Seq(SUBSET Span) /\ outstanding[s] \subseteq SUBSET Span
  BY DEF IInv, TypeOK
<1>2. Tracked \subseteq Span
  BY DEF IInv, TypeOK, Tracked
<1>3. \A i \in DOMAIN pending[s] : pending[s][i] \subseteq Span
  BY <1>1
<1>4. Held(s) \subseteq Span
  BY <1>1, <1>3 DEF Held
<1>5. Apart(s)
  BY DEF IInv, SpanInOnePlace, Apart
<1> QED
  BY <1>1, <1>2, <1>3, <1>4, <1>5

\* A step of one swapchain that takes up no new span keeps spans in one place.
LEMMA PlaceStep ==
  ASSUME IInv, NEW s \in Swapchain, tracked' = tracked,
         \A r \in Swapchain \ {s} :
           frame'[r] = frame[r] /\ pending'[r] = pending[r] /\ waiting'[r] = waiting[r],
         Held(s)' \subseteq Held(s), Apart(s)'
  PROVE  SpanInOnePlace'
<1>1. Tracked' = Tracked
  BY DEF Tracked
<1>2. \A r \in Swapchain \ {s} : Held(r)' = Held(r)
  BY DEF Held
<1>3. \A q, r \in Queue : q # r /\ tracked'[q] # NoSpan => tracked'[q] # tracked'[r]
  BY DEF IInv, SpanInOnePlace
<1>4. ASSUME NEW r \in Swapchain
      PROVE  /\ Held(r)' \intersect Tracked' = {}
             /\ \A t \in Swapchain \ {r} : Held(r)' \intersect Held(t)' = {}
  <2>1. \A t \in Swapchain : Held(t)' \subseteq Held(t)
    BY <1>2
  <2>2. /\ Held(r) \intersect Tracked = {}
        /\ \A t \in Swapchain \ {r} : Held(r) \intersect Held(t) = {}
    BY DEF IInv, SpanInOnePlace
  <2> QED
    BY <1>1, <2>1, <2>2
<1>5. ASSUME NEW r \in Swapchain
      PROVE  Apart(r)'
  <2>1. CASE r = s
    BY <2>1
  <2>2. CASE r # s
    <3>1. frame'[r] = frame[r] /\ pending'[r] = pending[r] /\ waiting'[r] = waiting[r]
      BY <2>2
    <3> QED
      BY <3>1, TypeFacts DEF Apart
  <2> QED
    BY <2>1, <2>2
<1> QED
  BY <1>3, <1>4, <1>5 DEF SpanInOnePlace, Apart

-----------------------------------------------------------------------------
(* One lemma per action. *)

\* Nothing is submitted or presented yet.
LEMMA InitInv == Init => IInv
<1> SUFFICES ASSUME Init PROVE IInv
  OBVIOUS
<1>1. TypeOK
  BY DEF Init, TypeOK
<1>2. SpanInOnePlace
  BY DEF Init, SpanInOnePlace, Held, Tracked
<1>3. PcInv
  BY DEF Init, PcInv
<1>4. OutInv
  BY DEF Init, OutInv
<1> QED
  BY <1>1, <1>2, <1>3, <1>4 DEF IInv

\* A queue that needs a span gets one that is nowhere in use.
LEMMA SubmitStep ==
  ASSUME IInv, NEW q \in Queue, Submit(q)
  PROVE  IInv'
<1>1. PICK x \in IF tracked[q] = NoSpan THEN Span \ InUse ELSE {tracked[q]} :
             tracked' = [tracked EXCEPT ![q] = x] /\ running' = running \union {x}
  BY DEF Submit
<1>2. /\ mode' = mode /\ enabled' = enabled /\ pc' = pc /\ frame' = frame
      /\ pending' = pending /\ waiting' = waiting /\ outstanding' = outstanding
  BY DEF Submit, pacerVars
<1>3. tracked \in [Queue -> Span \union {NoSpan}] /\ NoSpan \notin Span
  BY PacerAssumption DEF IInv, TypeOK
<1>4. x \in Span /\ x # NoSpan
  BY <1>1, <1>3
<1>5. TypeOK'
  BY <1>1, <1>2, <1>3, <1>4 DEF IInv, TypeOK
<1>6. \A s \in Swapchain : Held(s)' = Held(s) /\ Apart(s)'
  BY <1>2, TypeFacts DEF Held, Apart
<1>7. x \in Tracked \/ (x \notin Tracked /\ \A s \in Swapchain : x \notin Held(s))
  BY <1>1, <1>3, <1>4 DEF Tracked, InUse
<1>8. Tracked' \subseteq Tracked \union {x}
  BY <1>1, <1>3 DEF Tracked
<1>9. SpanInOnePlace'
  <2>1. ASSUME NEW p \in Queue, NEW r \in Queue, p # r, tracked'[p] # NoSpan
        PROVE  tracked'[p] # tracked'[r]
    <3>1. \A k \in Queue : tracked'[k] = IF k = q THEN x ELSE tracked[k]
      BY <1>1, <1>3
    <3>2. \A k \in Queue : k # q => x # tracked[k]
      <4>1. CASE tracked[q] = NoSpan
        BY <1>1, <1>4, <4>1 DEF InUse, Tracked
      <4>2. CASE tracked[q] # NoSpan
        BY <1>1, <4>2 DEF IInv, SpanInOnePlace
      <4> QED
        BY <4>1, <4>2
    <3> QED
      BY <2>1, <3>1, <3>2 DEF IInv, SpanInOnePlace
  <2>2. ASSUME NEW s \in Swapchain
        PROVE  /\ Held(s)' \intersect Tracked' = {}
               /\ \A r \in Swapchain \ {s} : Held(s)' \intersect Held(r)' = {}
    <3>1. /\ Held(s) \intersect Tracked = {}
          /\ \A r \in Swapchain \ {s} : Held(s) \intersect Held(r) = {}
      BY DEF IInv, SpanInOnePlace
    <3> QED
      BY <1>6, <1>7, <1>8, <3>1
  <2> QED
    BY <1>6, <2>1, <2>2 DEF SpanInOnePlace, Apart
<1>10. PcInv'
  BY <1>2 DEF IInv, PcInv
<1>11. OutInv'
  BY <1>1, <1>2 DEF IInv, OutInv
<1> QED
  BY <1>5, <1>9, <1>10, <1>11 DEF IInv

\* A span that completes may complete the frame that holds it.
LEMMA FinishStep ==
  ASSUME IInv, NEW x \in Span, GpuFinish(x)
  PROVE  IInv'
<1>1. /\ running' = running \ {x} /\ mode' = mode /\ enabled' = enabled
      /\ tracked' = tracked /\ pc' = pc /\ frame' = frame
      /\ pending' = pending /\ waiting' = waiting
      /\ \A s \in Swapchain : outstanding'[s] = {w \in outstanding[s] : w \intersect running' # {}}
      /\ outstanding' = [s \in Swapchain |-> {w \in outstanding[s] : w \intersect running' # {}}]
  BY DEF GpuFinish, pacerVars
<1>2. TypeOK'
  BY <1>1 DEF IInv, TypeOK
<1>3. SpanInOnePlace'
  BY <1>1 DEF IInv, SpanInOnePlace, Held, Tracked
<1>4. PcInv'
  BY <1>1 DEF IInv, PcInv
<1>5. OutInv'
  BY <1>1 DEF IInv, OutInv
<1> QED
  BY <1>2, <1>3, <1>4, <1>5 DEF IInv

\* The present takes the spans of every queue: they were with no frame.
LEMMA CollectStep ==
  ASSUME IInv, NEW s \in Swapchain, Collect(s)
  PROVE  IInv'
<1>1. /\ pc[s] = "app" /\ pc' = [pc EXCEPT ![s] = "pacing"]
      /\ frame' = [frame EXCEPT ![s] = Tracked] /\ tracked' = [q \in Queue |-> NoSpan]
      /\ mode' = mode /\ enabled' = enabled /\ running' = running
      /\ pending' = pending /\ waiting' = waiting /\ outstanding' = outstanding
  BY DEF Collect, Goto
<1>2. /\ pc \in [Swapchain -> {"app", "pacing", "bounding", "waiting"}]
      /\ frame \in [Swapchain -> SUBSET Span] /\ Tracked \subseteq Span
  BY TypeFacts DEF IInv, TypeOK
<1>3. frame[s] = {} /\ waiting[s] = {}
  BY <1>1 DEF IInv, PcInv
<1>4. Tracked' = {}
  BY <1>1 DEF Tracked
<1>5. /\ \A r \in Swapchain : frame'[r] = IF r = s THEN Tracked ELSE frame[r]
      /\ \A r \in Swapchain : pc'[r] = IF r = s THEN "pacing" ELSE pc[r]
  BY <1>1, <1>2
<1>6. TypeOK'
  BY <1>1, <1>2 DEF IInv, TypeOK
<1>7. \A r \in Swapchain : Held(r)' = IF r = s THEN Held(s) \union Tracked ELSE Held(r)
  BY <1>1, <1>3, <1>5 DEF Held
<1>8. ASSUME NEW r \in Swapchain
      PROVE  Apart(r)'
  <2>1. Apart(r) /\ Held(s) \intersect Tracked = {}
    BY TypeFacts DEF IInv, SpanInOnePlace
  <2>2. \A i \in DOMAIN pending[s] : pending[s][i] \subseteq Held(s)
    BY DEF Held
  <2>3. \A i \in DOMAIN pending[r] : pending[r][i] \intersect (waiting[r] \union frame'[r]) = {}
    BY <1>3, <1>5, <2>1, <2>2 DEF Apart
  <2> QED
    BY <1>1, <2>1, <2>3 DEF Apart
<1>9. SpanInOnePlace'
  <2>1. ASSUME NEW r \in Swapchain
        PROVE  \A t \in Swapchain \ {r} : Held(r)' \intersect Held(t)' = {}
    <3>1. \A a, b \in Swapchain : a # b => Held(a) \intersect Held(b) = {}
      BY DEF IInv, SpanInOnePlace
    <3>2. \A a \in Swapchain : Held(a) \intersect Tracked = {}
      BY DEF IInv, SpanInOnePlace
    <3> QED
      BY <1>7, <3>1, <3>2
  <2> QED
    BY <1>1, <1>4, <1>8, <2>1 DEF SpanInOnePlace, Apart
<1>10. PcInv'
  BY <1>1, <1>3, <1>5 DEF IInv, PcInv
<1>11. OutInv'
  BY <1>1 DEF IInv, OutInv
<1> QED
  BY <1>6, <1>9, <1>10, <1>11 DEF IInv

\* A step that drops work of one swapchain, or leaves it where it is.
LEMMA DropStep ==
  ASSUME IInv, NEW s \in Swapchain, NEW where \in {"app", "bounding"},
         UNCHANGED deviceVars,
         pc' = [pc EXCEPT ![s] = where],
         \/ UNCHANGED frame
         \/ frame' = [frame EXCEPT ![s] = {}],
         \/ UNCHANGED <<pending, outstanding>>
         \/ /\ pending' = [pending EXCEPT ![s] = <<>>]
            /\ outstanding' = [outstanding EXCEPT ![s] = {}],
         \/ UNCHANGED waiting
         \/ waiting[s] \intersect running = {} /\ waiting' = [waiting EXCEPT ![s] = {}],
         frame'[s] = {}, waiting'[s] = {},
         mode = "off" => where = "app"
  PROVE  IInv'
<1>1. /\ pc \in [Swapchain -> {"app", "pacing", "bounding", "waiting"}]
      /\ frame \in [Swapchain -> SUBSET Span]
      /\ pending \in [Swapchain -> Seq(SUBSET Span)]
      /\ waiting \in [Swapchain -> SUBSET Span]
      /\ outstanding \in [Swapchain -> SUBSET SUBSET Span]
  BY DEF IInv, TypeOK
<1>2. /\ mode' = mode /\ enabled' = enabled /\ tracked' = tracked /\ running' = running
  BY DEF deviceVars
<1>3. <<>> \in Seq(SUBSET Span) /\ DOMAIN (<<>>) = {}
  OBVIOUS
<1>4. \A r \in Swapchain \ {s} :
        /\ pc'[r] = pc[r] /\ frame'[r] = frame[r] /\ pending'[r] = pending[r]
        /\ waiting'[r] = waiting[r] /\ outstanding'[r] = outstanding[r]
  BY <1>1
<1>5. /\ pc'[s] = where
      /\ \/ pending'[s] = pending[s] /\ outstanding'[s] = outstanding[s]
         \/ pending'[s] = <<>> /\ outstanding'[s] = {}
      /\ waiting'[s] = waiting[s] \/ waiting[s] \intersect running = {}
  BY <1>1
<1>6. TypeOK'
  <2>1. frame' \in [Swapchain -> SUBSET Span] /\ waiting' \in [Swapchain -> SUBSET Span]
    BY <1>1
  <2>2. /\ pending' \in [Swapchain -> Seq(SUBSET Span)]
        /\ outstanding' \in [Swapchain -> SUBSET SUBSET Span]
    BY <1>1, <1>3
  <2>3. pc' \in [Swapchain -> {"app", "pacing", "bounding", "waiting"}]
    BY <1>1
  <2> QED
    BY <1>2, <2>1, <2>2, <2>3 DEF IInv, TypeOK
<1>7. SpanInOnePlace'
  <2>1. Held(s)' \subseteq Held(s)
    BY <1>3, <1>5 DEF Held
  <2>2. Apart(s)'
    <3>1. Apart(s)
      BY TypeFacts
    <3> QED
      BY <1>3, <1>5, <3>1 DEF Apart
  <2> QED
    BY <1>2, <1>4, <2>1, <2>2, PlaceStep
<1>8. PcInv'
  <2> SUFFICES ASSUME NEW r \in Swapchain
               PROVE  /\ frame'[r] # {} => pc'[r] = "pacing"
                      /\ waiting'[r] # {} => pc'[r] = "waiting"
                      /\ mode' = "off" => pc'[r] \in {"app", "pacing"} /\ pending'[r] = <<>>
    BY DEF PcInv
  <2>1. CASE r = s
    BY <1>2, <1>5, <2>1 DEF IInv, PcInv
  <2>2. CASE r # s
    BY <1>2, <1>4, <2>2 DEF IInv, PcInv
  <2> QED
    BY <2>1, <2>2
<1>9. OutInv'
  <2> SUFFICES ASSUME NEW r \in Swapchain, NEW w \in outstanding'[r]
               PROVE  /\ w \intersect running # {}
                      /\ w = waiting'[r] \/ \E i \in DOMAIN pending'[r] : pending'[r][i] = w
    BY <1>2 DEF OutInv
  <2>1. CASE r = s
    <3>1. w \in outstanding[s] /\ pending'[s] = pending[s]
      BY <1>5, <2>1
    <3>2. /\ w \intersect running # {}
          /\ w = waiting[s] \/ \E i \in DOMAIN pending[s] : pending[s][i] = w
      BY <3>1 DEF IInv, OutInv
    <3>3. w = waiting[s] => w = waiting'[s]
      BY <1>5, <3>2
    <3> QED
      BY <2>1, <3>1, <3>2, <3>3
  <2>2. CASE r # s
    <3>1. w \in outstanding[r] /\ pending'[r] = pending[r] /\ waiting'[r] = waiting[r]
      BY <1>4, <2>2
    <3> QED
      BY <3>1 DEF IInv, OutInv
  <2> QED
    BY <2>1, <2>2
<1> QED
  BY <1>6, <1>7, <1>8, <1>9 DEF IInv

\* The present's frame goes to the end of the queue.
LEMMA PushStep ==
  ASSUME IInv, NEW s \in Swapchain, Push(s)
  PROVE  IInv'
<1> DEFINE f == frame[s]
           p == pending[s]
<1>1. /\ pc[s] = "pacing" /\ mode # "off"
      /\ mode' = mode /\ enabled' = enabled /\ tracked' = tracked /\ running' = running
      /\ waiting' = waiting
      /\ pc' = [pc EXCEPT ![s] = "bounding"]
      /\ pending' = [pending EXCEPT ![s] = Append(p, f)]
      /\ frame' = [frame EXCEPT ![s] = {}]
      /\ outstanding' = [outstanding EXCEPT ![s] =
                           outstanding[s] \union {w \in {f} : w \intersect running # {}}]
  BY DEF Push, Goto, deviceVars, IInv, TypeOK
<1>2. /\ pc \in [Swapchain -> {"app", "pacing", "bounding", "waiting"}]
      /\ frame \in [Swapchain -> SUBSET Span]
      /\ pending \in [Swapchain -> Seq(SUBSET Span)]
      /\ outstanding \in [Swapchain -> SUBSET SUBSET Span]
  BY DEF IInv, TypeOK
<1>3. f \in SUBSET Span /\ p \in Seq(SUBSET Span) /\ Apart(s)
  BY <1>2, TypeFacts
<1> DEFINE n == Len(p) + 1
<1>4. /\ Append(p, f) \in Seq(SUBSET Span)
      /\ DOMAIN Append(p, f) = DOMAIN p \union {n}
      /\ \A i \in DOMAIN p : Append(p, f)[i] = p[i]
      /\ Append(p, f)[n] = f /\ n \notin DOMAIN p
  BY <1>3, AppendFacts
<1>5. /\ \A r \in Swapchain \ {s} :
           /\ pc'[r] = pc[r] /\ frame'[r] = frame[r] /\ pending'[r] = pending[r]
           /\ outstanding'[r] = outstanding[r]
      /\ pc'[s] = "bounding" /\ frame'[s] = {} /\ pending'[s] = Append(p, f)
      /\ outstanding'[s] = outstanding[s] \union {w \in {f} : w \intersect running # {}}
  BY <1>1, <1>2
<1>6. waiting[s] = {}
  BY <1>1 DEF IInv, PcInv
<1> HIDE DEF n
<1>7. TypeOK'
  <2>1. pending' \in [Swapchain -> Seq(SUBSET Span)]
    BY <1>1, <1>2, <1>4
  <2>2. outstanding' \in [Swapchain -> SUBSET SUBSET Span]
    BY <1>1, <1>2, <1>3
  <2>3. frame' \in [Swapchain -> SUBSET Span]
    BY <1>1, <1>2
  <2>4. pc' \in [Swapchain -> {"app", "pacing", "bounding", "waiting"}]
    BY <1>1, <1>2
  <2> QED
    BY <1>1, <2>1, <2>2, <2>3, <2>4 DEF IInv, TypeOK
<1>8. SpanInOnePlace'
  <2>1. Held(s)' \subseteq Held(s)
    <3>1. \A i \in DOMAIN Append(p, f) : Append(p, f)[i] \subseteq Held(s)
      BY <1>4 DEF Held
    <3> QED
      BY <1>1, <1>5, <3>1 DEF Held
  <2>2. Apart(s)'
    <3>1. \A i \in DOMAIN p : p[i] \intersect f = {} /\ f \intersect p[i] = {}
      BY <1>3 DEF Apart
    <3>2. \A i, j \in DOMAIN Append(p, f) :
            i # j => Append(p, f)[i] \intersect Append(p, f)[j] = {}
      BY <1>3, <1>4, <3>1 DEF Apart
    <3> QED
      BY <1>1, <1>5, <1>6, <3>2 DEF Apart
  <2> QED
    BY <1>1, <1>5, <2>1, <2>2, PlaceStep
<1>9. PcInv'
  <2> SUFFICES ASSUME NEW r \in Swapchain
               PROVE  /\ frame'[r] # {} => pc'[r] = "pacing"
                      /\ waiting'[r] # {} => pc'[r] = "waiting"
                      /\ mode' = "off" => pc'[r] \in {"app", "pacing"} /\ pending'[r] = <<>>
    BY DEF PcInv
  <2>1. CASE r = s
    BY <1>1, <1>5, <1>6, <2>1
  <2>2. CASE r # s
    BY <1>1, <1>5, <2>2 DEF IInv, PcInv
  <2> QED
    BY <2>1, <2>2
<1>10. OutInv'
  <2> SUFFICES ASSUME NEW r \in Swapchain, NEW w \in outstanding'[r]
               PROVE  /\ w \intersect running # {}
                      /\ w = waiting[r] \/ \E i \in DOMAIN pending'[r] : pending'[r][i] = w
    BY <1>1 DEF OutInv
  <2>1. CASE r # s
    BY <1>5, <2>1 DEF IInv, OutInv
  <2>2. CASE r = s /\ w \in outstanding[s]
    <3>1. /\ w \intersect running # {}
          /\ w = waiting[s] \/ \E i \in DOMAIN p : p[i] = w
      BY <2>2 DEF IInv, OutInv
    <3> QED
      BY <1>4, <1>5, <2>2, <3>1
  <2>3. CASE r = s /\ w \in {v \in {f} : v \intersect running # {}}
    BY <1>4, <1>5, <2>3
  <2> QED
    BY <1>5, <2>1, <2>2, <2>3
<1> QED
  BY <1>7, <1>8, <1>9, <1>10 DEF IInv

\* The oldest frame is waited for.
LEMMA PopStep ==
  ASSUME IInv, NEW s \in Swapchain, Pop(s)
  PROVE  IInv'
<1> DEFINE p == pending[s]
<1>1. /\ pc[s] = "bounding" /\ Len(p) > QueueDepth
      /\ mode' = mode /\ enabled' = enabled /\ tracked' = tracked /\ running' = running
      /\ frame' = frame /\ outstanding' = outstanding
      /\ pc' = [pc EXCEPT ![s] = "waiting"]
      /\ pending' = [pending EXCEPT ![s] = Tail(p)]
      /\ waiting' = [waiting EXCEPT ![s] = Head(p)]
  BY DEF Pop, Goto, deviceVars, IInv, TypeOK
<1>2. /\ pc \in [Swapchain -> {"app", "pacing", "bounding", "waiting"}]
      /\ waiting \in [Swapchain -> SUBSET Span]
      /\ pending \in [Swapchain -> Seq(SUBSET Span)]
  BY DEF IInv, TypeOK
<1>3. p \in Seq(SUBSET Span) /\ Apart(s) /\ Len(p) > 0
  BY <1>1, <1>2, TypeFacts, PacerAssumption
<1>4. /\ Tail(p) \in Seq(SUBSET Span) /\ Head(p) \in SUBSET Span
      /\ Head(p) = p[1] /\ 1 \in DOMAIN p
      /\ \A i \in DOMAIN Tail(p) : i + 1 \in DOMAIN p /\ Tail(p)[i] = p[i + 1]
                                   /\ i + 1 # 1 /\ i \in Int
      /\ \A j \in DOMAIN p : j # 1 => \E i \in DOMAIN Tail(p) : i + 1 = j
  BY <1>3, TailFacts
<1>5. /\ \A r \in Swapchain \ {s} :
           pc'[r] = pc[r] /\ waiting'[r] = waiting[r] /\ pending'[r] = pending[r]
      /\ pc'[s] = "waiting" /\ waiting'[s] = p[1] /\ pending'[s] = Tail(p)
  BY <1>1, <1>2, <1>4
<1>6. frame[s] = {} /\ waiting[s] = {} /\ mode # "off"
  BY <1>1 DEF IInv, PcInv
<1>7. TypeOK'
  <2>1. /\ pending' \in [Swapchain -> Seq(SUBSET Span)]
        /\ waiting' \in [Swapchain -> SUBSET Span]
        /\ pc' \in [Swapchain -> {"app", "pacing", "bounding", "waiting"}]
    BY <1>1, <1>2, <1>4
  <2> QED
    BY <1>1, <2>1 DEF IInv, TypeOK
<1>8. SpanInOnePlace'
  <2>1. Held(s)' \subseteq Held(s)
    <3>1. \A i \in DOMAIN p : p[i] \subseteq Held(s)
      BY DEF Held
    <3>2. \A i \in DOMAIN Tail(p) : Tail(p)[i] \subseteq Held(s)
      BY <1>4, <3>1
    <3> QED
      BY <1>1, <1>4, <1>5, <1>6, <3>1, <3>2 DEF Held
  <2>2. Apart(s)'
    <3>1. \A i, j \in DOMAIN p : i # j => p[i] \intersect p[j] = {}
      BY <1>3 DEF Apart
    <3>2. \A i, j \in DOMAIN Tail(p) : i # j => i + 1 # j + 1
      BY <1>4
    <3>3. \A i, j \in DOMAIN Tail(p) : i # j => Tail(p)[i] \intersect Tail(p)[j] = {}
      BY <1>4, <3>1, <3>2
    <3>4. \A i \in DOMAIN Tail(p) : Tail(p)[i] \intersect p[1] = {}
      BY <1>4, <3>1
    <3> QED
      BY <1>1, <1>5, <1>6, <3>3, <3>4 DEF Apart
  <2> QED
    BY <1>1, <1>5, <2>1, <2>2, PlaceStep
<1>9. PcInv'
  <2> SUFFICES ASSUME NEW r \in Swapchain
               PROVE  /\ frame[r] # {} => pc'[r] = "pacing"
                      /\ waiting'[r] # {} => pc'[r] = "waiting"
                      /\ mode = "off" => pc'[r] \in {"app", "pacing"} /\ pending'[r] = <<>>
    BY <1>1 DEF PcInv
  <2>1. CASE r = s
    BY <1>5, <1>6, <2>1
  <2>2. CASE r # s
    BY <1>5, <2>2 DEF IInv, PcInv
  <2> QED
    BY <2>1, <2>2
<1>10. OutInv'
  <2> SUFFICES ASSUME NEW r \in Swapchain, NEW w \in outstanding[r]
               PROVE  /\ w \intersect running # {}
                      /\ w = waiting'[r] \/ \E i \in DOMAIN pending'[r] : pending'[r][i] = w
    BY <1>1 DEF OutInv
  <2>1. /\ w \intersect running # {}
        /\ w = waiting[r] \/ \E i \in DOMAIN pending[r] : pending[r][i] = w
    BY DEF IInv, OutInv
  <2>2. CASE r # s
    BY <1>5, <2>1, <2>2
  <2>3. CASE r = s
    <3>1. PICK j \in DOMAIN p : p[j] = w
      BY <1>6, <2>1, <2>3
    <3>2. CASE j = 1
      BY <1>5, <2>1, <2>3, <3>1, <3>2
    <3>3. CASE j # 1
      <4>1. PICK i \in DOMAIN Tail(p) : i + 1 = j
        BY <1>4, <3>3
      <4>2. Tail(p)[i] = w
        BY <1>4, <3>1, <4>1
      <4> QED
        BY <1>5, <2>1, <2>3, <4>1, <4>2
    <3> QED
      BY <3>2, <3>3
  <2> QED
    BY <2>2, <2>3
<1> QED
  BY <1>7, <1>8, <1>9, <1>10 DEF IInv

-----------------------------------------------------------------------------
\* Every step keeps the invariant.
LEMMA NextInv == IInv /\ [Next]_vars => IInv'
<1> SUFFICES ASSUME IInv, [Next]_vars PROVE IInv'
  OBVIOUS
<1>1. CASE \E q \in Queue : Submit(q)
  BY <1>1, SubmitStep
<1>2. CASE \E x \in Span : GpuFinish(x)
  BY <1>2, FinishStep
<1>3. CASE Toggle
  BY <1>3 DEF Toggle, pacerVars, IInv, TypeOK, SpanInOnePlace, Held, Tracked, PcInv, OutInv
<1>4. ASSUME NEW s \in Swapchain, Collect(s)
      PROVE  IInv'
  BY <1>4, CollectStep
<1>5. ASSUME NEW s \in Swapchain, PaceOff(s) \/ PaceDisabled(s)
      PROVE  IInv'
  <2>1. pc[s] = "pacing" /\ UNCHANGED deviceVars /\ waiting' = waiting
    BY <1>5 DEF PaceOff, PaceDisabled
  <2>2. waiting[s] = {} /\ frame \in [Swapchain -> SUBSET Span]
    BY <2>1 DEF IInv, PcInv, TypeOK
  <2>3. frame' = [frame EXCEPT ![s] = {}] /\ pc' = [pc EXCEPT ![s] = "app"]
    BY <1>5 DEF PaceOff, PaceDisabled, Goto
  <2>4. frame'[s] = {} /\ waiting'[s] = {}
    BY <2>1, <2>2, <2>3
  <2>5. \/ UNCHANGED <<pending, outstanding>>
        \/ /\ pending' = [pending EXCEPT ![s] = <<>>]
           /\ outstanding' = [outstanding EXCEPT ![s] = {}]
    BY <1>5 DEF PaceOff, PaceDisabled
  <2> QED
    BY <2>1, <2>3, <2>4, <2>5, DropStep
<1>6. ASSUME NEW s \in Swapchain, Push(s)
      PROVE  IInv'
  BY <1>6, PushStep
<1>7. ASSUME NEW s \in Swapchain, Pop(s)
      PROVE  IInv'
  BY <1>7, PopStep
<1>8. ASSUME NEW s \in Swapchain, AwaitWork(s)
      PROVE  IInv'
  <2>1. /\ pc[s] = "waiting" /\ UNCHANGED deviceVars /\ frame' = frame
        /\ waiting[s] \intersect running = {}
        /\ waiting' = [waiting EXCEPT ![s] = {}] /\ pc' = [pc EXCEPT ![s] = "bounding"]
        /\ UNCHANGED <<pending, outstanding>>
    BY <1>8 DEF AwaitWork, Goto
  <2>2. frame'[s] = {} /\ mode # "off" /\ waiting'[s] = {}
    BY <2>1 DEF IInv, PcInv, TypeOK
  <2> QED
    BY <2>1, <2>2, DropStep
<1>9. ASSUME NEW s \in Swapchain, Release(s) \/ Recreate(s)
      PROVE  IInv'
  <2>1. /\ pc[s] \in {"app", "bounding"} /\ UNCHANGED <<deviceVars, frame, waiting>>
        /\ \/ UNCHANGED <<pending, outstanding>>
           \/ /\ pending' = [pending EXCEPT ![s] = <<>>]
              /\ outstanding' = [outstanding EXCEPT ![s] = {}]
    BY <1>9 DEF Release, Recreate
  <2>2. frame'[s] = {} /\ waiting'[s] = {}
    BY <2>1 DEF IInv, PcInv
  <2>3. pc' = [pc EXCEPT ![s] = "app"]
    <3>1. pc \in [Swapchain -> {"app", "pacing", "bounding", "waiting"}]
      BY DEF IInv, TypeOK
    <3> QED
      BY <1>9, <3>1 DEF Release, Recreate, Goto
  <2> QED
    BY <2>1, <2>2, <2>3, DropStep
<1>10. CASE UNCHANGED vars
  BY <1>10 DEF vars, deviceVars, pacerVars, IInv, TypeOK, SpanInOnePlace, Held, Tracked,
               PcInv, OutInv
<1> QED
  BY <1>1, <1>2, <1>3, <1>4, <1>5, <1>6, <1>7, <1>8, <1>9, <1>10 DEF Next, Pace

\* The invariant holds throughout.
LEMMA Invariance == Spec => []IInv
BY InitInv, NextInv, PTL DEF Spec

\* The types of the device's and of every pacer's variables.
THEOREM TypeCorrect == Spec => []TypeOK
<1>1. IInv => TypeOK
  BY DEF IInv
<1> QED
  BY <1>1, Invariance, PTL

\* No two frames wait for the same work, whichever thread has collected it.
THEOREM OnePlace == Spec => []SpanInOnePlace
<1>1. IInv => SpanInOnePlace
  BY DEF IInv
<1> QED
  BY <1>1, Invariance, PTL

-----------------------------------------------------------------------------
(* Work is kept. *)

\* A step loses no work that the GPU has not completed.
LEMMA KeepStep ==
  ASSUME IInv, [Next]_vars
  PROVE  /\ Tracked \subseteq Tracked' \union UNION {Held(s)' : s \in Swapchain}
         /\ \A s \in Swapchain :
              mode = "paced" /\ enabled /\ pc[s] # "app"
                => Held(s) \intersect running \subseteq Held(s)'
<1> DEFINE Keeps(s) == Held(s) \intersect running \subseteq Held(s)'
<1>1. ASSUME tracked' = tracked
      PROVE  Tracked \subseteq Tracked'
  BY <1>1 DEF Tracked
<1>2. ASSUME NEW s \in Swapchain,
             frame'[s] = frame[s], pending'[s] = pending[s], waiting'[s] = waiting[s]
      PROVE  Keeps(s)
  BY <1>2 DEF Held
<1>3. ASSUME UNCHANGED pacerVars
      PROVE  \A s \in Swapchain : Keeps(s)
  BY <1>3, <1>2 DEF pacerVars
<1>4. CASE \E q \in Queue : Submit(q)
  <2> PICK q \in Queue : Submit(q)
    BY <1>4
  <2>1. PICK x \in IF tracked[q] = NoSpan THEN Span \ InUse ELSE {tracked[q]} :
               tracked' = [tracked EXCEPT ![q] = x]
    BY DEF Submit
  <2>2. Tracked \subseteq Tracked'
    <3>1. tracked \in [Queue -> Span \union {NoSpan}]
      BY DEF IInv, TypeOK
    <3>2. \A r \in Queue : tracked[r] # NoSpan => tracked'[r] = tracked[r]
      BY <2>1, <3>1
    <3> QED
      BY <3>2 DEF Tracked
  <2> QED
    BY <1>3, <2>2 DEF Submit
<1>5. CASE (\E x \in Span : GpuFinish(x)) \/ Toggle
  BY <1>1, <1>3, <1>5 DEF GpuFinish, Toggle
<1>6. CASE UNCHANGED vars
  BY <1>1, <1>3, <1>6 DEF vars, deviceVars
<1>7. ASSUME NEW s \in Swapchain, Collect(s)
      PROVE  /\ Tracked \subseteq Tracked' \union UNION {Held(r)' : r \in Swapchain}
             /\ \A r \in Swapchain : Keeps(r)
  <2>1. /\ pc[s] = "app" /\ frame' = [frame EXCEPT ![s] = Tracked]
        /\ UNCHANGED <<pending, waiting>> /\ frame \in [Swapchain -> SUBSET Span]
    BY <1>7 DEF Collect, IInv, TypeOK
  <2>2. frame'[s] = Tracked /\ frame[s] = {}
    BY <2>1 DEF IInv, PcInv
  <2>3. Tracked \subseteq Held(s)' /\ Held(s) \subseteq Held(s)'
    BY <2>1, <2>2 DEF Held
  <2>4. \A r \in Swapchain \ {s} : Keeps(r)
    BY <1>2, <2>1
  <2> QED
    BY <2>3, <2>4
<1>8. ASSUME NEW s \in Swapchain, Pace(s) \/ Recreate(s)
      PROVE  /\ Tracked \subseteq Tracked'
             /\ \A r \in Swapchain :
                  mode = "paced" /\ enabled /\ pc[r] # "app" => Keeps(r)
  <2>1. /\ tracked' = tracked
        /\ \A r \in Swapchain \ {s} :
             frame'[r] = frame[r] /\ pending'[r] = pending[r] /\ waiting'[r] = waiting[r]
    <3>1. /\ frame \in [Swapchain -> SUBSET Span] /\ waiting \in [Swapchain -> SUBSET Span]
          /\ pending \in [Swapchain -> Seq(SUBSET Span)]
      BY DEF IInv, TypeOK
    <3> QED
      BY <1>8, <3>1 DEF Pace, PaceOff, PaceDisabled, Push, Pop, AwaitWork, Release, Recreate,
                      deviceVars
  <2>2. ASSUME mode = "paced", enabled, pc[s] # "app"
        PROVE  Keeps(s)
    <3>1. CASE Push(s)
      <4>1. /\ frame \in [Swapchain -> SUBSET Span] /\ pending \in [Swapchain -> Seq(SUBSET Span)]
            /\ frame[s] \in SUBSET Span /\ pending[s] \in Seq(SUBSET Span)
        BY DEF IInv, TypeOK
      <4>2. frame'[s] = {} /\ waiting' = waiting /\ pending'[s] = Append(pending[s], frame[s])
        BY <3>1, <4>1 DEF Push
      <4>3. /\ DOMAIN Append(pending[s], frame[s]) = DOMAIN pending[s] \union {Len(pending[s]) + 1}
            /\ \A i \in DOMAIN pending[s] : Append(pending[s], frame[s])[i] = pending[s][i]
            /\ Append(pending[s], frame[s])[Len(pending[s]) + 1] = frame[s]
        BY <4>1, AppendFacts
      <4> QED
        BY <4>2, <4>3 DEF Held
    <3>2. CASE Pop(s)
      <4> DEFINE p == pending[s]
      <4>1. /\ waiting \in [Swapchain -> SUBSET Span] /\ pending \in [Swapchain -> Seq(SUBSET Span)]
            /\ p \in Seq(SUBSET Span)
        BY DEF IInv, TypeOK
      <4>2. /\ frame' = frame /\ waiting'[s] = Head(p) /\ pending'[s] = Tail(p)
            /\ Len(p) > 0 /\ waiting[s] = {}
        BY <3>2, <4>1, PacerAssumption DEF Pop, IInv, PcInv
      <4>3. /\ Head(p) = p[1]
            /\ \A i \in DOMAIN Tail(p) : Tail(p)[i] = p[i + 1]
            /\ \A j \in DOMAIN p : j # 1 => \E i \in DOMAIN Tail(p) : i + 1 = j
        BY <4>1, <4>2, TailFacts
      <4>4. ASSUME NEW j \in DOMAIN p
            PROVE  p[j] \subseteq Held(s)'
        <5>1. CASE j = 1
          BY <4>2, <4>3, <5>1 DEF Held
        <5>2. CASE j # 1
          <6>1. PICK i \in DOMAIN Tail(p) : i + 1 = j
            BY <4>3, <5>2
          <6>2. pending'[s][i] = p[j] /\ i \in DOMAIN pending'[s]
            BY <4>2, <4>3, <6>1
          <6> QED
            BY <6>2 DEF Held
        <5> QED
          BY <5>1, <5>2
      <4>5. frame[s] \subseteq Held(s)'
        BY <4>2 DEF Held
      <4> QED
        BY <4>2, <4>4, <4>5 DEF Held
    <3>3. CASE AwaitWork(s)
      <4>1. /\ frame' = frame /\ pending' = pending /\ waiting[s] \intersect running = {}
        BY <3>3 DEF AwaitWork
      <4> QED
        BY <4>1 DEF Held
    <3>4. CASE Release(s)
      BY <1>2, <3>4 DEF Release
    <3> QED
      BY <1>8, <2>2, <3>1, <3>2, <3>3, <3>4 DEF Pace, PaceOff, PaceDisabled, Recreate
  <2> QED
    BY <1>1, <1>2, <2>1, <2>2
<1> QED
  BY <1>4, <1>5, <1>6, <1>7, <1>8, <1>1, <1>3 DEF Next

\* No submission is lost between its queue, the present that collects it and the
\* wait for it.
THEOREM Kept == Spec => WorkIsKept
<1>1. IInv /\ [Next]_vars =>
        [/\ Tracked \subseteq Tracked' \union UNION {Held(s)' : s \in Swapchain}
         /\ \A s \in Swapchain :
              mode = "paced" /\ enabled /\ pc[s] # "app"
                => Held(s) \intersect running \subseteq Held(s)']_vars
  BY KeepStep
<1> QED
  BY <1>1, Invariance, PTL DEF Spec, WorkIsKept

-----------------------------------------------------------------------------
(* The window. *)

\* A pacer that waits for no frame has no more frames unfinished than pending.
LEMMA BoundFacts ==
  ASSUME IInv, NEW s \in Swapchain, waiting[s] = {}
  PROVE  /\ IsFiniteSet(outstanding[s])
         /\ Cardinality(outstanding[s]) \in Nat /\ Len(pending[s]) \in Nat
         /\ Cardinality(outstanding[s]) <= Len(pending[s])
<1> DEFINE p == pending[s]
           n == Len(p)
           T == {p[i] : i \in 1..n}
<1>1. p \in Seq(SUBSET Span) /\ n \in Nat /\ DOMAIN p = 1..n
  BY TypeFacts
<1>2. outstanding[s] \subseteq T
  BY <1>1 DEF IInv, OutInv
<1>3. ExistsSurjection(1..n, T)
  <2>1. [i \in 1..n |-> p[i]] \in Surjection(1..n, T)
    BY DEF Surjection
  <2> QED
    BY <2>1 DEF ExistsSurjection
<1> HIDE DEF n, T
<1>4. IsFiniteSet(T) /\ Cardinality(T) <= n
  BY <1>1, <1>3, FS_NatSurjection, FS_SurjCardinalityBound
<1>5. /\ IsFiniteSet(outstanding[s]) /\ Cardinality(outstanding[s]) <= Cardinality(T)
      /\ Cardinality(outstanding[s]) \in Nat /\ Cardinality(T) \in Nat
  BY <1>2, <1>4, FS_Subset, FS_CardinalityType
<1> QED
  BY <1>1, <1>4, <1>5 DEF n

\* One step of the code is at most one step of every swapchain's window.
LEMMA WindowStep ==
  ASSUME IInv, [Next]_vars, NEW s \in Swapchain
  PROVE  Window(s)!Next \/ UNCHANGED Window(s)!vars
<1> USE DEF Window!vars
<1>1. ASSUME UNCHANGED <<enabled, pc, outstanding>>
      PROVE  UNCHANGED Window(s)!vars
  BY <1>1
<1>2. ASSUME enabled' = enabled, (pc'[s] # "app") = (pc[s] # "app"),
             outstanding'[s] = outstanding[s]
      PROVE  UNCHANGED Window(s)!vars
  BY <1>2
<1>3. CASE (\E q \in Queue : Submit(q)) \/ UNCHANGED vars
  BY <1>1, <1>3 DEF Submit, vars, pacerVars, deviceVars
<1>4. CASE Toggle
  <2>1. Window(s)!Toggle
    BY <1>4 DEF Toggle, pacerVars, Window!Toggle
  <2> QED
    BY <2>1 DEF Window!Next
<1>5. CASE \E x \in Span : GpuFinish(x)
  <2> PICK x \in Span : GpuFinish(x)
    BY <1>5
  <2>1. /\ running' = running \ {x} /\ enabled' = enabled /\ pc' = pc
        /\ outstanding'[s] = {w \in outstanding[s] : w \intersect running' # {}}
    BY DEF GpuFinish, pacerVars
  <2>2. CASE outstanding'[s] = outstanding[s]
    BY <1>2, <2>1, <2>2
  <2>3. CASE outstanding'[s] # outstanding[s]
    <3>1. PICK f \in outstanding[s] : f \intersect running' = {}
      BY <2>1, <2>3
    <3>2. f \in SUBSET Span /\ x \in f
      BY <2>1, <3>1, TypeFacts DEF IInv, OutInv
    <3>3. \A w \in outstanding[s] : x \in w => w = f
      <4> SUFFICES ASSUME NEW w \in outstanding[s], x \in w, w # f PROVE FALSE
        OBVIOUS
      <4>1. /\ w = waiting[s] \/ \E i \in DOMAIN pending[s] : pending[s][i] = w
            /\ f = waiting[s] \/ \E i \in DOMAIN pending[s] : pending[s][i] = f
        BY DEF IInv, OutInv
      <4>2. Apart(s)
        BY TypeFacts
      <4> QED
        BY <3>2, <4>1, <4>2 DEF Apart
    <3>4. outstanding'[s] = outstanding[s] \ {f}
      <4>1. \A w \in outstanding[s] \ {f} : w \intersect running' # {}
        BY <2>1, <3>3 DEF IInv, OutInv
      <4> QED
        BY <2>1, <3>1, <4>1
    <3>5. Window(s)!Finish(f)
      BY <2>1, <3>4 DEF Window!Finish
    <3> QED
      BY <3>2, <3>5 DEF Window!Next
  <2> QED
    BY <2>2, <2>3
<1>6. ASSUME NEW r \in Swapchain, r # s, Collect(r) \/ Pace(r) \/ Recreate(r)
      PROVE  UNCHANGED Window(s)!vars
  <2>1. pc \in [Swapchain -> {"app", "pacing", "bounding", "waiting"}]
        /\ outstanding \in [Swapchain -> SUBSET SUBSET Span]
    BY DEF IInv, TypeOK
  <2>2. enabled' = enabled /\ pc'[s] = pc[s] /\ outstanding'[s] = outstanding[s]
    BY <1>6, <2>1 DEF Collect, Pace, PaceOff, PaceDisabled, Push, Pop, AwaitWork, Release,
                    Recreate, deviceVars, Goto
  <2> QED
    BY <1>2, <2>2
<1>7. ASSUME Collect(s) \/ Pace(s) \/ Recreate(s)
      PROVE  Window(s)!Next \/ UNCHANGED Window(s)!vars
  <2>1. pc \in [Swapchain -> {"app", "pacing", "bounding", "waiting"}]
        /\ outstanding \in [Swapchain -> SUBSET SUBSET Span]
    BY DEF IInv, TypeOK
  <2>2. enabled' = enabled
    BY <1>7 DEF Collect, Pace, PaceOff, PaceDisabled, Push, Pop, AwaitWork, Release, Recreate,
              deviceVars
  <2>3. CASE Collect(s)
    <3>1. Window(s)!Begin
      BY <2>1, <2>2, <2>3 DEF Collect, Goto, Window!Begin
    <3> QED
      BY <3>1 DEF Window!Next
  <2>4. ASSUME waiting[s] = {}, Len(pending[s]) <= QueueDepth \/ pending[s] = <<>>,
               pc[s] # "app", pc'[s] = "app", outstanding'[s] = outstanding[s]
        PROVE  Window(s)!Next
    <3>1. /\ Cardinality(outstanding[s]) \in Nat /\ Len(pending[s]) \in Nat
          /\ Cardinality(outstanding[s]) <= Len(pending[s])
      BY <2>4, BoundFacts
    <3>2. Len(pending[s]) <= QueueDepth
      <4>1. Len(<<>>) = 0
        OBVIOUS
      <4> QED
        BY <2>4, <4>1, PacerAssumption
    <3>3. Cardinality(outstanding[s]) <= QueueDepth
      BY <3>1, <3>2, PacerAssumption
    <3>4. Window(s)!Cardinality(outstanding[s]) = Cardinality(outstanding[s])
      BY DEF Window!Cardinality, Cardinality
    <3>5. Window(s)!Resume
      BY <2>2, <2>4, <3>3, <3>4 DEF Window!Resume
    <3> QED
      BY <3>5 DEF Window!Next
  <2>5. CASE PaceOff(s)
    <3>1. waiting[s] = {} /\ pending[s] = <<>>
      BY <2>5 DEF PaceOff, IInv, PcInv
    <3> QED
      BY <2>1, <2>4, <2>5, <3>1 DEF PaceOff, Goto
  <2>6. CASE Release(s)
    <3>1. waiting[s] = {}
      BY <2>6 DEF Release, IInv, PcInv
    <3> QED
      BY <2>1, <2>4, <2>6, <3>1 DEF Release, Goto
  <2>7. CASE PaceDisabled(s) \/ Recreate(s)
    <3>1. outstanding'[s] = {} /\ pc'[s] = "app" /\ (pc[s] # "app" => ~enabled)
      BY <2>1, <2>7 DEF PaceDisabled, Recreate, Goto
    <3>2. Window(s)!Abandon
      BY <2>2, <3>1 DEF Window!Abandon
    <3> QED
      BY <3>2 DEF Window!Next
  <2>8. CASE Push(s)
    <3>1. /\ pc[s] = "pacing" /\ pc'[s] = "bounding" /\ frame[s] \in SUBSET Span
          /\ outstanding'[s] = outstanding[s] \union {w \in {frame[s]} : w \intersect running # {}}
      BY <2>1, <2>8 DEF Push, Goto, IInv, TypeOK
    <3>2. CASE frame[s] \intersect running = {}
      <4>1. outstanding'[s] = outstanding[s]
        BY <3>1, <3>2
      <4> QED
        BY <1>2, <2>2, <3>1, <4>1
    <3>3. CASE frame[s] \intersect running # {}
      <4>1. outstanding'[s] = outstanding[s] \union {frame[s]}
        BY <3>1, <3>3
      <4>2. frame[s] \notin outstanding[s]
        <5> SUFFICES ASSUME frame[s] \in outstanding[s] PROVE FALSE
          OBVIOUS
        <5>1. waiting[s] = {}
          BY <3>1 DEF IInv, PcInv
        <5>2. PICK i \in DOMAIN pending[s] : pending[s][i] = frame[s]
          BY <3>3, <5>1 DEF IInv, OutInv
        <5>3. Apart(s)
          BY TypeFacts
        <5> QED
          BY <3>3, <5>2, <5>3 DEF Apart
      <4>3. Window(s)!Count(frame[s])
        BY <2>2, <3>1, <4>1, <4>2 DEF Window!Count
      <4> QED
        BY <3>1, <4>3 DEF Window!Next
    <3> QED
      BY <3>2, <3>3
  <2>9. CASE Pop(s) \/ AwaitWork(s)
    <3>1. pc[s] # "app" /\ pc'[s] # "app" /\ outstanding'[s] = outstanding[s]
      BY <2>1, <2>9 DEF Pop, AwaitWork, Goto
    <3> QED
      BY <1>2, <2>2, <3>1
  <2> QED
    BY <1>7, <2>3, <2>5, <2>6, <2>7, <2>8, <2>9 DEF Pace
<1> QED
  BY <1>3, <1>4, <1>5, <1>6, <1>7 DEF Next

\* The refinement: each swapchain's application runs at most queue_depth frames
\* ahead of the GPU, whatever other threads submit, present or toggle.
THEOREM WindowRefinement == Spec => WindowContract
<1>1. Init => \A s \in Swapchain : Window(s)!Init
  BY DEF Init, Window!Init
<1>2. IInv /\ [Next]_vars =>
        [\A s \in Swapchain : Window(s)!Next \/ UNCHANGED Window(s)!vars]_vars
  BY WindowStep
<1> QED
  BY <1>1, <1>2, Invariance, PTL DEF Spec, WindowContract

-----------------------------------------------------------------------------
(* How far an application is ahead, and that its presents return. *)

\* Outside the loop that bounds them no more than queue_depth frames are
\* pending, and in it one more: a present waits for one frame at most.
ShortInv ==
  \A s \in Swapchain :
    /\ pc[s] # "bounding" => Len(pending[s]) <= QueueDepth
    /\ Len(pending[s]) <= QueueDepth + 1

\* The number of frames that are pending.
LEMMA LengthFacts ==
  ASSUME IInv, NEW s \in Swapchain
  PROVE  /\ Len(pending[s]) \in Nat
         /\ Len(Append(pending[s], frame[s])) = Len(pending[s]) + 1
         /\ Len(pending[s]) > 0 => Len(Tail(pending[s])) = Len(pending[s]) - 1
<1>1. pending[s] \in Seq(SUBSET Span) /\ frame[s] \in SUBSET Span
  BY TypeFacts
<1> QED
  BY <1>1

\* A present adds one frame, and returns only when few enough are pending.
LEMMA ShortStep == IInv /\ ShortInv /\ [Next]_vars => ShortInv'
<1> SUFFICES ASSUME IInv, ShortInv, [Next]_vars, NEW s \in Swapchain
             PROVE  /\ pc'[s] # "bounding" => Len(pending'[s]) <= QueueDepth
                    /\ Len(pending'[s]) <= QueueDepth + 1
  BY DEF ShortInv
<1> DEFINE n == Len(pending[s])
<1>0. /\ n \in Nat /\ QueueDepth \in Nat /\ n <= QueueDepth + 1
      /\ pc[s] # "bounding" => n <= QueueDepth
  BY LengthFacts, PacerAssumption DEF ShortInv
<1>1. /\ pc \in [Swapchain -> {"app", "pacing", "bounding", "waiting"}]
      /\ pending \in [Swapchain -> Seq(SUBSET Span)]
  BY DEF IInv, TypeOK
<1>2. ASSUME pending'[s] = pending[s], pc'[s] = pc[s] \/ n <= QueueDepth
      PROVE  /\ pc'[s] # "bounding" => Len(pending'[s]) <= QueueDepth
             /\ Len(pending'[s]) <= QueueDepth + 1
  BY <1>0, <1>2
<1>3. ASSUME NEW r \in Swapchain, r # s, Collect(r) \/ Pace(r) \/ Recreate(r)
      PROVE  pending'[s] = pending[s] /\ pc'[s] = pc[s]
  BY <1>1, <1>3 DEF Collect, Pace, Recreate, PaceOff, PaceDisabled, Push, Pop, AwaitWork,
     Release, Goto
<1>4. CASE \/ (\E q \in Queue : Submit(q)) \/ (\E x \in Span : GpuFinish(x)) \/ Toggle
           \/ UNCHANGED vars
  <2>1. pending' = pending /\ pc' = pc
    BY <1>4 DEF Submit, GpuFinish, Toggle, pacerVars, vars
  <2> QED
    BY <1>2, <2>1
<1>5. CASE Collect(s) \/ PaceOff(s) \/ AwaitWork(s) \/ Release(s)
  <2>1. pending' = pending /\ (pc[s] # "bounding" \/ n <= QueueDepth)
    BY <1>5 DEF Collect, PaceOff, AwaitWork, Release
  <2> QED
    BY <1>0, <1>2, <2>1
<1>6. CASE PaceDisabled(s) \/ Recreate(s)
  <2>1. pending'[s] = <<>>
    BY <1>1, <1>6 DEF PaceDisabled, Recreate
  <2> QED
    BY <1>0, <2>1
<1>7. CASE Push(s)
  <2>1. /\ pc[s] = "pacing" /\ pc'[s] = "bounding"
        /\ pending'[s] = Append(pending[s], frame[s])
    BY <1>1, <1>7 DEF Push, Goto
  <2> QED
    BY <1>0, <2>1, LengthFacts
<1>8. CASE Pop(s)
  <2>1. n > QueueDepth /\ pending'[s] = Tail(pending[s])
    BY <1>1, <1>8 DEF Pop
  <2> QED
    BY <1>0, <2>1, LengthFacts
<1> QED
  BY <1>2, <1>3, <1>4, <1>5, <1>6, <1>7, <1>8 DEF Next, Pace

\* At most one frame more than queue_depth is ever pending.
THEOREM QueueIsShort == Spec => []ShortInv
<1>1. Init => ShortInv
  BY PacerAssumption DEF Init, ShortInv
<1> QED
  BY <1>1, ShortStep, Invariance, PTL DEF Spec

\* The bound in numbers: an application that is not inside a present is at most
\* queue_depth frames ahead of the GPU, and one that is, one frame more.
DepthIsKept ==
  \A s \in Swapchain :
    /\ IsFiniteSet(outstanding[s])
    /\ pc[s] = "app" => Cardinality(outstanding[s]) <= QueueDepth
    /\ Cardinality(outstanding[s]) <= QueueDepth + 1

\* The frames that count are the pending ones and the one that is waited for.
LEMMA AheadFacts ==
  ASSUME IInv, NEW s \in Swapchain
  PROVE  /\ IsFiniteSet(outstanding[s])
         /\ Cardinality(outstanding[s]) \in Nat
         /\ Cardinality(outstanding[s]) <= Len(pending[s]) + 1
<1> DEFINE p == pending[s]
           n == Len(p)
           f == [i \in 1..(n + 1) |-> IF i = n + 1 THEN waiting[s] ELSE p[i]]
           T == {f[i] : i \in 1..(n + 1)}
<1>1. p \in Seq(SUBSET Span) /\ n \in Nat /\ DOMAIN p = 1..n
  BY TypeFacts
<1>2. outstanding[s] \subseteq T
  <2> SUFFICES ASSUME NEW w \in outstanding[s] PROVE \E i \in 1..(n + 1) : f[i] = w
    OBVIOUS
  <2>1. CASE w = waiting[s]
    BY <1>1, <2>1
  <2>2. CASE \E i \in 1..n : p[i] = w
    <3>1. PICK i \in 1..n : p[i] = w
      BY <2>2
    <3>2. i \in 1..(n + 1) /\ i # n + 1
      BY <1>1
    <3> QED
      BY <3>1, <3>2
  <2> QED
    BY <1>1, <2>1, <2>2 DEF IInv, OutInv
<1>3. ExistsSurjection(1..(n + 1), T)
  <2> HIDE DEF n
  <2>1. f \in Surjection(1..(n + 1), T)
    BY DEF Surjection
  <2> QED
    BY <2>1 DEF ExistsSurjection
<1> HIDE DEF n, T
<1>4. IsFiniteSet(T) /\ Cardinality(T) <= n + 1
  BY <1>1, <1>3, FS_NatSurjection, FS_SurjCardinalityBound
<1>5. /\ IsFiniteSet(outstanding[s]) /\ Cardinality(outstanding[s]) <= Cardinality(T)
      /\ Cardinality(outstanding[s]) \in Nat /\ Cardinality(T) \in Nat
  BY <1>2, <1>4, FS_Subset, FS_CardinalityType
<1> QED
  BY <1>1, <1>4, <1>5 DEF n

\* A wait takes the oldest frame out before it begins.
THEOREM Ahead == Spec => []DepthIsKept
<1>1. IInv /\ ShortInv => DepthIsKept
  <2> SUFFICES ASSUME IInv, ShortInv, NEW s \in Swapchain
               PROVE  /\ IsFiniteSet(outstanding[s])
                      /\ pc[s] = "app" => Cardinality(outstanding[s]) <= QueueDepth
                      /\ Cardinality(outstanding[s]) <= QueueDepth + 1
    BY DEF DepthIsKept
  <2>0. /\ Len(pending[s]) \in Nat /\ QueueDepth \in Nat
        /\ IsFiniteSet(outstanding[s]) /\ Cardinality(outstanding[s]) \in Nat
    BY LengthFacts, AheadFacts, PacerAssumption
  <2>1. CASE pc[s] = "waiting"
    <3>1. Len(pending[s]) <= QueueDepth
      BY <2>1 DEF ShortInv
    <3> QED
      BY <2>0, <2>1, <3>1, AheadFacts
  <2>2. CASE pc[s] # "waiting"
    <3>1. waiting[s] = {}
      BY <2>2 DEF IInv, PcInv
    <3>2. /\ pc[s] = "app" => Len(pending[s]) <= QueueDepth
          /\ Len(pending[s]) <= QueueDepth + 1
      BY DEF ShortInv
    <3> QED
      BY <2>0, <3>1, <3>2, BoundFacts
  <2> QED
    BY <2>1, <2>2
<1> QED
  BY <1>1, QueueIsShort, Invariance, PTL

\* Fairness with the guards written out: a thread that can go on inside pace()
\* does, and the GPU completes any finite work that is not added to (which is
\* what fairness of GpuFinish for each of its spans comes to).
CanPace(s) ==
  \/ pc[s] \in {"pacing", "bounding"}
  \/ pc[s] = "waiting" /\ waiting[s] \intersect running = {}
PaceGoesOn(s) == []CanPace(s) => <><<Pace(s)>>_vars
ThreadsGoOn == [](\A r \in Swapchain : PaceGoesOn(r))
NotAddedTo(W) == W \intersect running' \subseteq running
Completes(W) == [][NotAddedTo(W)]_vars => <>(W \intersect running = {})
FiniteWork == {V \in SUBSET Span : IsFiniteSet(V)}
GpuCompletes == [](\A V \in FiniteWork : Completes(V))

\* A frame has one span of each queue at most, so with finitely many queues a
\* wait is for finite work.
FiniteInv ==
  \A s \in Swapchain :
    /\ IsFiniteSet(frame[s]) /\ IsFiniteSet(waiting[s])
    /\ \A i \in DOMAIN pending[s] : IsFiniteSet(pending[s][i])

Behaviour == [](IInv /\ ShortInv /\ FiniteInv) /\ [][Next]_vars

\* Where a present is: before the loop, in it, at its end, in a wait.
Pacing(s) == pc[s] = "pacing"
Long(s) == pc[s] = "bounding" /\ Len(pending[s]) > QueueDepth
Short(s) == pc[s] = "bounding" /\ Len(pending[s]) <= QueueDepth
Waits(s, W) == pc[s] = "waiting" /\ waiting[s] = W
Done(s, W) == Waits(s, W) /\ W \intersect running = {}
Back(s) == pc[s] = "app"

\* Only its own thread moves a present on.
LEMMA OthersStay ==
  ASSUME IInv, [Next]_vars, NEW s \in Swapchain, pc[s] # "app"
  PROVE  \/ Pace(s)
         \/ pc'[s] = pc[s] /\ pending'[s] = pending[s] /\ waiting'[s] = waiting[s]
<1>0. /\ pc \in [Swapchain -> {"app", "pacing", "bounding", "waiting"}]
      /\ pending \in [Swapchain -> Seq(SUBSET Span)]
      /\ waiting \in [Swapchain -> SUBSET Span]
  BY DEF IInv, TypeOK
<1>1. ASSUME NEW r \in Swapchain, r # s, Collect(r) \/ Pace(r) \/ Recreate(r)
      PROVE  pc'[s] = pc[s] /\ pending'[s] = pending[s] /\ waiting'[s] = waiting[s]
  BY <1>0, <1>1 DEF Collect, Pace, Recreate, PaceOff, PaceDisabled, Push, Pop, AwaitWork,
     Release, Goto
<1>2. CASE \/ (\E q \in Queue : Submit(q)) \/ (\E x \in Span : GpuFinish(x)) \/ Toggle
           \/ UNCHANGED vars
  BY <1>2 DEF Submit, GpuFinish, Toggle, pacerVars, vars
<1>3. ~Collect(s) /\ ~Recreate(s)
  BY DEF Collect, Recreate
<1> QED
  BY <1>1, <1>2, <1>3 DEF Next

\* A wait is for spans of its own: no queue adds to one that a frame holds.
LEMMA WaitIsNotExtended ==
  ASSUME IInv, [Next]_vars, NEW s \in Swapchain
  PROVE  waiting[s] \intersect running' \subseteq running
<1>1. ASSUME NEW q \in Queue, Submit(q)
      PROVE  waiting[s] \intersect running' \subseteq running
  <2>1. PICK x \in IF tracked[q] = NoSpan THEN Span \ InUse ELSE {tracked[q]} :
               running' = running \union {x}
    BY <1>1 DEF Submit
  <2>2. waiting[s] \subseteq Held(s)
    BY DEF Held
  <2>3. CASE tracked[q] = NoSpan
    BY <2>1, <2>2, <2>3 DEF InUse
  <2>4. CASE tracked[q] # NoSpan
    <3>1. tracked[q] \in Tracked /\ Held(s) \intersect Tracked = {}
      BY <2>4 DEF Tracked, IInv, SpanInOnePlace
    <3> QED
      BY <2>1, <2>2, <2>4, <3>1
  <2> QED
    BY <2>1, <2>2, <2>3, <2>4
<1>2. CASE \E q \in Queue : Submit(q)
  BY <1>1, <1>2
<1>3. CASE \/ (\E x \in Span : GpuFinish(x)) \/ Toggle \/ UNCHANGED vars
           \/ \E r \in Swapchain : Collect(r) \/ Pace(r) \/ Recreate(r)
  <2>1. running' \subseteq running
    BY <1>3 DEF GpuFinish, Toggle, Collect, Pace, Recreate, PaceOff, PaceDisabled, Push, Pop,
       AwaitWork, Release, deviceVars, vars
  <2> QED
    BY <2>1
<1> QED
  BY <1>2, <1>3 DEF Next

\* What its thread's steps do to a present.
LEMMA PaceFacts ==
  ASSUME IInv, ShortInv, NEW s \in Swapchain, Pace(s)
  PROVE  /\ Pacing(s) => Back(s)' \/ Long(s)' \/ Short(s)'
         /\ Long(s) => pc'[s] = "waiting"
         /\ Short(s) => Back(s)'
         /\ pc[s] = "waiting" => Short(s)' /\ waiting[s] \intersect running = {}
<1>0. /\ pc \in [Swapchain -> {"app", "pacing", "bounding", "waiting"}]
      /\ pending \in [Swapchain -> Seq(SUBSET Span)]
  BY DEF IInv, TypeOK
<1>1. /\ Len(pending[s]) \in Nat /\ QueueDepth \in Nat
      /\ pc[s] # "bounding" => Len(pending[s]) <= QueueDepth
  BY LengthFacts, PacerAssumption DEF ShortInv
<1> USE DEF Pacing, Long, Short, Back
<1>2. CASE PaceOff(s) \/ PaceDisabled(s)
  <2>1. pc[s] = "pacing" /\ pc'[s] = "app"
    BY <1>0, <1>2 DEF PaceOff, PaceDisabled, Goto
  <2> QED
    BY <2>1
<1>3. CASE Push(s)
  <2>1. /\ pc[s] = "pacing" /\ pc'[s] = "bounding"
        /\ pending'[s] = Append(pending[s], frame[s])
    BY <1>0, <1>3 DEF Push, Goto
  <2>2. Len(pending'[s]) \in Nat
    BY <2>1, <1>1, LengthFacts
  <2>3. Len(pending'[s]) > QueueDepth \/ Len(pending'[s]) <= QueueDepth
    BY <1>1, <2>2
  <2> QED
    BY <2>1, <2>3
<1>4. CASE Pop(s)
  <2>1. pc[s] = "bounding" /\ pc'[s] = "waiting" /\ Len(pending[s]) > QueueDepth
    BY <1>0, <1>4 DEF Pop, Goto
  <2>2. ~(Len(pending[s]) <= QueueDepth)
    BY <1>1, <2>1
  <2> QED
    BY <2>1, <2>2
<1>5. CASE AwaitWork(s)
  <2>1. /\ pc[s] = "waiting" /\ pc'[s] = "bounding" /\ pending' = pending
        /\ waiting[s] \intersect running = {}
    BY <1>0, <1>5 DEF AwaitWork, Goto
  <2>2. Len(pending[s]) <= QueueDepth
    BY <1>1, <2>1
  <2> QED
    BY <2>1, <2>2
<1>6. CASE Release(s)
  <2>1. pc[s] = "bounding" /\ pc'[s] = "app" /\ Len(pending[s]) <= QueueDepth
    BY <1>0, <1>6 DEF Release, Goto
  <2>2. ~(Len(pending[s]) > QueueDepth)
    BY <1>1, <2>1
  <2> QED
    BY <2>1, <2>2
<1> QED
  BY <1>2, <1>3, <1>4, <1>5, <1>6 DEF Pace

\* A present that can go on stays where it is until it does.
LEMMA PlaceFacts ==
  ASSUME NEW s \in Swapchain
  PROVE  /\ IInv /\ ShortInv /\ [Next]_vars => (Pacing(s) => Pacing(s)' \/ Back(s)' \/ Long(s)' \/ Short(s)')
         /\ IInv /\ ShortInv /\ [Next]_vars => (Long(s) => Long(s)' \/ (pc[s] = "waiting")')
         /\ IInv /\ ShortInv /\ [Next]_vars => (Short(s) => Short(s)' \/ Back(s)')
         /\ IInv /\ ShortInv /\ <<Pace(s)>>_vars => (Pacing(s) => ~Pacing(s)')
         /\ IInv /\ ShortInv /\ <<Pace(s)>>_vars => (Long(s) => ~Long(s)')
         /\ IInv /\ ShortInv /\ <<Pace(s)>>_vars => (Short(s) => ~Short(s)')
         /\ Pacing(s) => CanPace(s)
         /\ Long(s) => CanPace(s)
         /\ Short(s) => CanPace(s)
<1>1. ASSUME IInv, ShortInv, [Next]_vars
      PROVE  /\ Pacing(s) => Pacing(s)' \/ Back(s)' \/ Long(s)' \/ Short(s)'
             /\ Long(s) => Long(s)' \/ (pc[s] = "waiting")'
             /\ Short(s) => Short(s)' \/ Back(s)'
  <2>1. CASE Pace(s)
    BY <1>1, <2>1, PaceFacts
  <2>2. CASE /\ pc'[s] = pc[s] /\ pending'[s] = pending[s] /\ waiting'[s] = waiting[s]
    BY <2>2 DEF Pacing, Long, Short
  <2>3. CASE pc[s] = "app"
    BY <2>3 DEF Pacing, Long, Short
  <2> QED
    BY <1>1, <2>1, <2>2, <2>3, OthersStay
<1>2. ASSUME IInv, ShortInv, Pace(s)
      PROVE  /\ Pacing(s) => ~Pacing(s)'
             /\ Long(s) => ~Long(s)'
             /\ Short(s) => ~Short(s)'
  BY <1>2, PaceFacts DEF Pacing, Long, Short, Back
<1> QED
  BY <1>1, <1>2 DEF CanPace, Pacing, Long, Short

\* A wait that has begun is for a fixed set of spans until it ends.
LEMMA WaitFacts ==
  ASSUME NEW s \in Swapchain, NEW W
  PROVE  /\ IInv /\ ShortInv /\ [Next]_vars => (Waits(s, W) => Waits(s, W)' \/ Short(s)')
         /\ IInv /\ ShortInv /\ [Next]_vars => (Waits(s, W) => NotAddedTo(W))
         /\ IInv /\ ShortInv /\ [Next]_vars => (Done(s, W) => Done(s, W)' \/ Short(s)')
         /\ IInv /\ ShortInv /\ <<Pace(s)>>_vars => (Done(s, W) => ~Done(s, W)')
         /\ Done(s, W) => CanPace(s)
         /\ Waits(s, W) /\ W \intersect running = {} => Done(s, W)
<1>1. ASSUME IInv, ShortInv, [Next]_vars, Waits(s, W)
      PROVE  /\ Waits(s, W)' \/ Short(s)'
             /\ NotAddedTo(W)
             /\ W \intersect running = {} => W \intersect running' = {}
  <2>1. NotAddedTo(W)
    BY <1>1, WaitIsNotExtended DEF NotAddedTo, Waits
  <2>2. CASE Pace(s)
    BY <1>1, <2>1, <2>2, PaceFacts DEF Waits, NotAddedTo
  <2>3. CASE ~Pace(s)
    <3>1. pc'[s] = pc[s] /\ waiting'[s] = waiting[s]
      BY <1>1, <2>3, OthersStay DEF Waits
    <3> QED
      BY <1>1, <2>1, <3>1 DEF Waits, NotAddedTo
  <2> QED
    BY <2>2, <2>3
<1>2. ASSUME IInv, ShortInv, Pace(s), Done(s, W)
      PROVE  ~Done(s, W)'
  BY <1>2, PaceFacts DEF Done, Waits, Short
<1>3. IInv /\ ShortInv /\ [Next]_vars => (Waits(s, W) => Waits(s, W)' \/ Short(s)')
  BY <1>1
<1>4. IInv /\ ShortInv /\ [Next]_vars => (Waits(s, W) => NotAddedTo(W))
  BY <1>1
<1>5. IInv /\ ShortInv /\ [Next]_vars => (Done(s, W) => Done(s, W)' \/ Short(s)')
  <2> SUFFICES ASSUME IInv, ShortInv, [Next]_vars, Done(s, W)
               PROVE  Done(s, W)' \/ Short(s)'
    OBVIOUS
  <2>1. Waits(s, W) /\ W \intersect running = {}
    BY DEF Done
  <2> QED
    BY <1>1, <2>1 DEF Done
<1>6. Waits(s, W) /\ W \intersect running = {} => Done(s, W)
  BY DEF Done
<1>7. Done(s, W) => CanPace(s)
  BY DEF Done, Waits, CanPace
<1> QED
  BY <1>2, <1>3, <1>4, <1>5, <1>6, <1>7

\* Out of the loop the application is released.
LEMMA ShortEnds ==
  ASSUME NEW s \in Swapchain
  PROVE  Behaviour /\ ThreadsGoOn => (Short(s) ~> Back(s))
<1>1. (\A r \in Swapchain : PaceGoesOn(r)) => PaceGoesOn(s)
  OBVIOUS
<1>2. IInv /\ ShortInv /\ [Next]_vars => (Short(s) => Short(s)' \/ Back(s)')
  BY PlaceFacts
<1>3. IInv /\ ShortInv /\ <<Pace(s)>>_vars => (Short(s) => ~Short(s)')
  BY PlaceFacts
<1>4. Short(s) => CanPace(s)
  BY PlaceFacts
<1> QED
  BY <1>1, <1>2, <1>3, <1>4, PTL DEF Behaviour, ThreadsGoOn, PaceGoesOn

\* A wait ends: what is waited for is not added to, so the GPU completes it.
LEMMA WaitEnds ==
  ASSUME NEW s \in Swapchain, NEW W \in FiniteWork
  PROVE  Behaviour /\ ThreadsGoOn /\ GpuCompletes => (Waits(s, W) ~> Short(s))
<1> DEFINE Empty == W \intersect running = {}
<1>1. (\A r \in Swapchain : PaceGoesOn(r)) => PaceGoesOn(s)
  OBVIOUS
<1>2. (\A V \in FiniteWork : Completes(V)) => Completes(W)
  OBVIOUS
<1>3. IInv /\ ShortInv /\ [Next]_vars => (Waits(s, W) => Waits(s, W)' \/ Short(s)')
  BY WaitFacts
<1>4. IInv /\ ShortInv /\ [Next]_vars => (Waits(s, W) => NotAddedTo(W))
  BY WaitFacts
<1>5. IInv /\ ShortInv /\ [Next]_vars => (Done(s, W) => Done(s, W)' \/ Short(s)')
  BY WaitFacts
<1>6. IInv /\ ShortInv /\ <<Pace(s)>>_vars => (Done(s, W) => ~Done(s, W)')
  BY WaitFacts
<1>7. Done(s, W) => CanPace(s)
  BY WaitFacts
<1>8. Waits(s, W) /\ Empty => Done(s, W)
  BY WaitFacts
<1>9. Behaviour /\ ThreadsGoOn => (Done(s, W) ~> Short(s))
  BY <1>1, <1>5, <1>6, <1>7, PTL DEF Behaviour, ThreadsGoOn, PaceGoesOn
<1>10. Behaviour /\ GpuCompletes => (Waits(s, W) ~> (Done(s, W) \/ Short(s)))
  BY <1>2, <1>3, <1>4, <1>8, PTL DEF Behaviour, GpuCompletes, Completes
<1> QED
  BY <1>9, <1>10, PTL

\* What is collected has as many members as there are queues.
LEMMA FiniteStep ==
  ASSUME IsFiniteSet(Queue), IInv, FiniteInv, [Next]_vars
  PROVE  FiniteInv'
<1> SUFFICES ASSUME NEW s \in Swapchain
             PROVE  /\ IsFiniteSet(frame'[s]) /\ IsFiniteSet(waiting'[s])
                    /\ \A i \in DOMAIN pending'[s] : IsFiniteSet(pending'[s][i])
  BY DEF FiniteInv
<1>0. /\ frame \in [Swapchain -> SUBSET Span] /\ waiting \in [Swapchain -> SUBSET Span]
      /\ pending \in [Swapchain -> Seq(SUBSET Span)]
  BY DEF IInv, TypeOK
<1>1. /\ IsFiniteSet(frame[s]) /\ IsFiniteSet(waiting[s])
      /\ \A i \in DOMAIN pending[s] : IsFiniteSet(pending[s][i])
      /\ IsFiniteSet({})
  BY FS_EmptySet DEF FiniteInv
<1>2. IsFiniteSet(Tracked)
  <2>1. IsFiniteSet({tracked[q] : q \in Queue})
    <3>1. [q \in Queue |-> tracked[q]] \in Surjection(Queue, {tracked[q] : q \in Queue})
      BY DEF Surjection
    <3> QED
      BY <3>1, FS_Surjection DEF ExistsSurjection
  <2> QED
    BY <2>1, FS_Subset DEF Tracked
<1>3. ASSUME NEW r \in Swapchain, r # s, Collect(r) \/ Pace(r) \/ Recreate(r)
      PROVE  frame'[s] = frame[s] /\ pending'[s] = pending[s] /\ waiting'[s] = waiting[s]
  BY <1>0, <1>3 DEF Collect, Pace, Recreate, PaceOff, PaceDisabled, Push, Pop, AwaitWork,
     Release
<1>4. CASE \/ (\E q \in Queue : Submit(q)) \/ (\E x \in Span : GpuFinish(x)) \/ Toggle
           \/ UNCHANGED vars
  BY <1>1, <1>4 DEF Submit, GpuFinish, Toggle, pacerVars, vars
<1>5. CASE Collect(s)
  BY <1>0, <1>1, <1>2, <1>5 DEF Collect
<1>6. CASE PaceOff(s) \/ PaceDisabled(s) \/ AwaitWork(s) \/ Release(s) \/ Recreate(s)
  <2>1. /\ frame'[s] = frame[s] \/ frame'[s] = {}
        /\ waiting'[s] = waiting[s] \/ waiting'[s] = {}
        /\ pending'[s] = pending[s] \/ pending'[s] = <<>>
    BY <1>0, <1>6 DEF PaceOff, PaceDisabled, AwaitWork, Release, Recreate
  <2>2. DOMAIN (<<>>) = {}
    OBVIOUS
  <2>3. \A i \in DOMAIN pending'[s] : IsFiniteSet(pending'[s][i])
    BY <1>1, <2>1, <2>2
  <2> QED
    BY <1>1, <2>1, <2>3
<1>7. CASE Push(s)
  <2>1. /\ frame'[s] = {} /\ waiting'[s] = waiting[s]
        /\ pending'[s] = Append(pending[s], frame[s])
    BY <1>0, <1>7 DEF Push
  <2>2. \A i \in DOMAIN Append(pending[s], frame[s]) :
          \/ i \in DOMAIN pending[s] /\ Append(pending[s], frame[s])[i] = pending[s][i]
          \/ Append(pending[s], frame[s])[i] = frame[s]
    BY <1>0, AppendFacts
  <2> QED
    BY <1>1, <2>1, <2>2
<1>8. CASE Pop(s)
  <2>1. /\ frame'[s] = frame[s] /\ waiting'[s] = Head(pending[s])
        /\ pending'[s] = Tail(pending[s]) /\ Len(pending[s]) > 0
    BY <1>0, <1>8, PacerAssumption DEF Pop
  <2>2. /\ 1 \in DOMAIN pending[s] /\ Head(pending[s]) = pending[s][1]
        /\ \A i \in DOMAIN Tail(pending[s]) :
             i + 1 \in DOMAIN pending[s] /\ Tail(pending[s])[i] = pending[s][i + 1]
    BY <1>0, <2>1, TailFacts
  <2> QED
    BY <1>1, <2>1, <2>2
<1>9. CASE \E r \in Swapchain \ {s} : Collect(r) \/ Pace(r) \/ Recreate(r)
  <2>1. frame'[s] = frame[s] /\ pending'[s] = pending[s] /\ waiting'[s] = waiting[s]
    BY <1>3, <1>9
  <2> QED
    BY <1>1, <2>1
<1> QED
  BY <1>4, <1>5, <1>6, <1>7, <1>8, <1>9 DEF Next, Pace

\* So every frame is finite work.
LEMMA FramesAreFinite ==
  ASSUME IsFiniteSet(Queue)
  PROVE  Spec => []FiniteInv
<1>1. Init => FiniteInv
  BY FS_EmptySet DEF Init, FiniteInv
<1>2. IInv /\ FiniteInv /\ [Next]_vars => FiniteInv'
  BY FiniteStep
<1> QED
  BY <1>1, <1>2, Invariance, PTL DEF Spec

Finishes(s) == (pc[s] # "app") ~> (pc[s] = "app")

\* A present goes through the loop once: it takes one frame at most, waits for
\* it, and is released.
LEMMA PresentFinishes ==
  ASSUME NEW s \in Swapchain
  PROVE  Behaviour /\ ThreadsGoOn /\ GpuCompletes => Finishes(s)
<1> DEFINE P == Behaviour /\ ThreadsGoOn /\ GpuCompletes
           Waiting == pc[s] = "waiting"
           Ends == <>Short(s)
<1>1. ASSUME NEW W \in FiniteWork
      PROVE  P => (Waits(s, W) => Ends)
  <2>1. P => (Waits(s, W) ~> Short(s))
    BY WaitEnds
  <2> QED
    BY <2>1, PTL
<1>2. P => ((\E W \in FiniteWork : Waits(s, W)) => Ends)
  BY <1>1
<1>3. IInv /\ FiniteInv => (Waiting => \E W \in FiniteWork : Waits(s, W))
  BY DEF IInv, TypeOK, FiniteInv, FiniteWork, Waits
<1>4. P => (Waiting ~> Short(s))
  BY <1>2, <1>3, PTL DEF Behaviour, ThreadsGoOn, GpuCompletes
<1>5. (\A r \in Swapchain : PaceGoesOn(r)) => PaceGoesOn(s)
  OBVIOUS
<1>6. IInv /\ ShortInv /\ [Next]_vars => (Long(s) => Long(s)' \/ Waiting')
  BY PlaceFacts
<1>7. IInv /\ ShortInv /\ <<Pace(s)>>_vars => (Long(s) => ~Long(s)')
  BY PlaceFacts
<1>8. Long(s) => CanPace(s)
  BY PlaceFacts
<1>9. Behaviour /\ ThreadsGoOn => (Long(s) ~> Waiting)
  BY <1>5, <1>6, <1>7, <1>8, PTL DEF Behaviour, ThreadsGoOn, PaceGoesOn
<1>10. IInv /\ ShortInv /\ [Next]_vars =>
         (Pacing(s) => Pacing(s)' \/ Back(s)' \/ Long(s)' \/ Short(s)')
  BY PlaceFacts
<1>11. IInv /\ ShortInv /\ <<Pace(s)>>_vars => (Pacing(s) => ~Pacing(s)')
  BY PlaceFacts
<1>12. Pacing(s) => CanPace(s)
  BY PlaceFacts
<1>13. Behaviour /\ ThreadsGoOn => (Pacing(s) ~> (Back(s) \/ Long(s) \/ Short(s)))
  BY <1>5, <1>10, <1>11, <1>12, PTL DEF Behaviour, ThreadsGoOn, PaceGoesOn
<1>14. P => (Short(s) ~> Back(s))
  BY ShortEnds
<1>15. P => (Waiting ~> Back(s))
  BY <1>4, <1>14, PTL
<1>16. P => (Long(s) ~> Back(s))
  BY <1>9, <1>15, PTL
<1>17. P => (Pacing(s) ~> Back(s))
  BY <1>13, <1>14, <1>16, PTL
<1>18. IInv => (pc[s] # "app" => Pacing(s) \/ Long(s) \/ Short(s) \/ Waiting)
  <2> SUFFICES ASSUME IInv PROVE pc[s] # "app" => Pacing(s) \/ Long(s) \/ Short(s) \/ Waiting
    OBVIOUS
  <2>1. Len(pending[s]) > QueueDepth \/ Len(pending[s]) <= QueueDepth
    BY LengthFacts, PacerAssumption
  <2>2. pc[s] \in {"app", "pacing", "bounding", "waiting"}
    BY DEF IInv, TypeOK
  <2> QED
    BY <2>1, <2>2 DEF Pacing, Long, Short
<1>19. Back(s) <=> pc[s] = "app"
  BY DEF Back
<1> QED
  BY <1>14, <1>15, <1>16, <1>17, <1>18, <1>19, PTL DEF Behaviour, Finishes

\* Every present returns, however often the effect is toggled meanwhile.
THEOREM PresentsReturn ==
  ASSUME IsFiniteSet(Queue)
  PROVE  Spec /\ ThreadsGoOn /\ GpuCompletes => PresentReturns
<1> DEFINE P == Behaviour /\ ThreadsGoOn /\ GpuCompletes
<1>1. P => \A s \in Swapchain : Finishes(s)
  BY PresentFinishes
<1>2. P => PresentReturns
  BY <1>1 DEF PresentReturns, Finishes
<1>3. Spec => Behaviour
  BY Invariance, QueueIsShort, FramesAreFinite, PTL DEF Behaviour, Spec
<1> QED
  BY <1>2, <1>3
=============================================================================
