------------------------- MODULE TimestampPoolProofs -------------------------
(***************************************************************************)
(* Proofs about TimestampPool, for any chunks, indices and bounds.         *)
(***************************************************************************)
EXTENDS TimestampPool, FiniteSetTheorems, TLAPS

-----------------------------------------------------------------------------
(* Sequences of handles as sets of slots. *)

\* Appending adds the element, and repeats none that was not there.
LEMMA AppendFacts ==
  ASSUME NEW T, NEW q \in Seq(T), NEW e \in T
  PROVE  /\ Append(q, e) \in Seq(T)
         /\ RangeOf(Append(q, e)) = RangeOf(q) \union {e}
         /\ NoDuplicates(q) /\ e \notin RangeOf(q) => NoDuplicates(Append(q, e))
<1> DEFINE a == Append(q, e)
<1>1. /\ a \in Seq(T)
      /\ DOMAIN a = DOMAIN q \union {Len(q) + 1}
      /\ \A i \in DOMAIN q : a[i] = q[i] /\ i # Len(q) + 1
      /\ a[Len(q) + 1] = e
  OBVIOUS
<1> HIDE DEF a
<1>2. RangeOf(a) = RangeOf(q) \union {e}
  BY <1>1 DEF RangeOf
<1>3. NoDuplicates(q) /\ e \notin RangeOf(q) => NoDuplicates(a)
  BY <1>1 DEF NoDuplicates, RangeOf
<1> QED
  BY <1>1, <1>2, <1>3 DEF a

\* The head and the tail of a queue share its elements out.
LEMMA TailFacts ==
  ASSUME NEW T, NEW q \in Seq(T), q # <<>>
  PROVE  /\ Head(q) \in T
         /\ Tail(q) \in Seq(T)
         /\ RangeOf(q) = RangeOf(Tail(q)) \union {Head(q)}
         /\ NoDuplicates(q) => /\ NoDuplicates(Tail(q))
                               /\ Head(q) \notin RangeOf(Tail(q))
<1> DEFINE t == Tail(q)
<1>1. /\ t \in Seq(T)
      /\ Head(q) \in T
      /\ Head(q) = q[1]
      /\ 1 \in DOMAIN q
      /\ \A i \in DOMAIN t : i + 1 \in DOMAIN q /\ t[i] = q[i + 1]
      /\ DOMAIN q \subseteq Nat
      /\ DOMAIN t \subseteq Nat \ {0}
      /\ \A i \in DOMAIN q : i # 1 => i - 1 \in DOMAIN t /\ q[i] = t[i - 1]
  OBVIOUS
<1> HIDE DEF t
<1>2. RangeOf(q) = RangeOf(t) \union {Head(q)}
  <2>1. \A i \in DOMAIN q : q[i] \in RangeOf(t) \union {Head(q)}
    BY <1>1 DEF RangeOf
  <2>2. \A i \in DOMAIN t : t[i] \in RangeOf(q)
    BY <1>1 DEF RangeOf
  <2>3. Head(q) \in RangeOf(q)
    BY <1>1 DEF RangeOf
  <2>4. /\ \A e \in RangeOf(q) : \E i \in DOMAIN q : e = q[i]
        /\ \A e \in RangeOf(t) : \E i \in DOMAIN t : e = t[i]
    BY DEF RangeOf
  <2> QED
    BY <2>1, <2>2, <2>3, <2>4
<1>3. NoDuplicates(q) => NoDuplicates(t) /\ Head(q) \notin RangeOf(t)
  BY <1>1 DEF RangeOf, NoDuplicates
<1> QED
  BY <1>1, <1>2, <1>3 DEF t

\* A concatenation has the elements of both parts.
LEMMA ConcatFacts ==
  ASSUME NEW T, NEW p \in Seq(T), NEW q \in Seq(T)
  PROVE  /\ p \o q \in Seq(T)
         /\ RangeOf(p \o q) = RangeOf(p) \union RangeOf(q)
         /\ NoDuplicates(p) /\ NoDuplicates(q)
              /\ RangeOf(p) \intersect RangeOf(q) = {}
            => NoDuplicates(p \o q)
<1> DEFINE c == p \o q
<1>1. /\ c \in Seq(T)
      /\ \A i \in DOMAIN p : i \in DOMAIN c /\ c[i] = p[i]
      /\ \A i \in DOMAIN q : i + Len(p) \in DOMAIN c /\ c[i + Len(p)] = q[i]
      /\ \A i \in DOMAIN c : i \notin DOMAIN p =>
            i - Len(p) \in DOMAIN q /\ c[i] = q[i - Len(p)]
      /\ Len(p) \in Nat
      /\ DOMAIN c \subseteq Nat /\ DOMAIN q \subseteq Nat
  OBVIOUS
<1> HIDE DEF c
<1>2. RangeOf(c) = RangeOf(p) \union RangeOf(q)
  <2>1. \A i \in DOMAIN c : c[i] \in RangeOf(p) \union RangeOf(q)
    BY <1>1 DEF RangeOf
  <2>2. \A i \in DOMAIN p : p[i] \in RangeOf(c)
    BY <1>1 DEF RangeOf
  <2>3. \A i \in DOMAIN q : q[i] \in RangeOf(c)
    BY <1>1 DEF RangeOf
  <2>4. /\ \A e \in RangeOf(c) : \E i \in DOMAIN c : e = c[i]
        /\ \A e \in RangeOf(p) : \E i \in DOMAIN p : e = p[i]
        /\ \A e \in RangeOf(q) : \E i \in DOMAIN q : e = q[i]
    BY DEF RangeOf
  <2> QED
    BY <2>1, <2>2, <2>3, <2>4
<1>3. ASSUME NoDuplicates(p), NoDuplicates(q),
             RangeOf(p) \intersect RangeOf(q) = {}
      PROVE  NoDuplicates(c)
  <2> SUFFICES ASSUME NEW i \in DOMAIN c, NEW j \in DOMAIN c, i # j
               PROVE  c[i] # c[j]
    BY DEF NoDuplicates
  <2>1. CASE i \in DOMAIN p /\ j \in DOMAIN p
    BY <2>1, <1>1, <1>3 DEF NoDuplicates
  <2>2. CASE i \notin DOMAIN p /\ j \notin DOMAIN p
    <3>1. i - Len(p) # j - Len(p)
      BY <1>1
    <3> QED
      BY <2>2, <3>1, <1>1, <1>3 DEF NoDuplicates
  <2>3. /\ \A k \in DOMAIN p : c[k] \in RangeOf(p)
        /\ \A k \in DOMAIN c : k \notin DOMAIN p => c[k] \in RangeOf(q)
    BY <1>1 DEF RangeOf
  <2>4. CASE i \in DOMAIN p /\ j \notin DOMAIN p
    BY <2>3, <2>4, <1>3
  <2>5. CASE i \notin DOMAIN p /\ j \in DOMAIN p
    BY <2>3, <2>5, <1>3
  <2> QED
    BY <2>1, <2>2, <2>4, <2>5
<1> QED
  BY <1>1, <1>2, <1>3 DEF c

\* Dropping a span drops each of its handles once.
LEMMA ReleasedFacts ==
  ASSUME NEW w \in Span, w.head # w.tail
  PROVE  /\ Released(w) \in Seq(Slot)
         /\ RangeOf(Released(w)) = SpanSlots(w)
         /\ NoDuplicates(Released(w))
<1> w.head \in Slot /\ w.tail \in Slot \union {NoSlot} /\ NoSlot \notin Slot
  BY PoolAssumption DEF Span
<1>1. CASE w.tail = NoSlot
  <2>1. Released(w) = <<w.head>> /\ SpanSlots(w) = {w.head}
    BY <1>1 DEF Released, SpanSlots
  <2> QED
    BY <2>1 DEF RangeOf, NoDuplicates
<1>2. CASE w.tail # NoSlot
  <2>1. Released(w) = <<w.tail, w.head>> /\ SpanSlots(w) = {w.tail, w.head}
    BY <1>2 DEF Released, SpanSlots
  <2> QED
    BY <2>1, <1>2 DEF RangeOf, NoDuplicates
<1> QED
  BY <1>1, <1>2

-----------------------------------------------------------------------------
(* The inductive invariant. *)

\* How far a destruction has come bounds what still exists.
Life ==
  /\ submitPc = "notifying" => handles # <<>>
  /\ phase # "alive" => handles = <<>> /\ pacing = NoSpan
  /\ clearing => pacing = NoSpan
  /\ phase = "noPacer" /\ ~clearing => work = {}
  /\ phase \in {"stopping", "destroyed"} =>
        span = NoSpan /\ work = {} /\ ~clearing
  /\ reaperDone => /\ phase \in {"stopping", "destroyed"}
                   /\ expiring = <<>> /\ reaping = NoSlot
  /\ phase = "destroyed" => reaperDone

Reaped == {reaping} \ {NoSlot}

\* OneOwner, with the pairs of places written out.
Apart ==
  /\ free \intersect RangeOf(handles) = {}
  /\ free \intersect SpanSlots(span) = {}
  /\ free \intersect SpansSlots(work) = {}
  /\ free \intersect RangeOf(expiring) = {}
  /\ free \intersect Reaped = {}
  /\ RangeOf(handles) \intersect SpanSlots(span) = {}
  /\ RangeOf(handles) \intersect SpansSlots(work) = {}
  /\ RangeOf(handles) \intersect RangeOf(expiring) = {}
  /\ RangeOf(handles) \intersect Reaped = {}
  /\ SpanSlots(span) \intersect SpansSlots(work) = {}
  /\ SpanSlots(span) \intersect RangeOf(expiring) = {}
  /\ SpanSlots(span) \intersect Reaped = {}
  /\ SpansSlots(work) \intersect RangeOf(expiring) = {}
  /\ SpansSlots(work) \intersect Reaped = {}
  /\ RangeOf(expiring) \intersect Reaped = {}

Single ==
  /\ \A w, x \in work : w # x => SpanSlots(w) \intersect SpanSlots(x) = {}
  /\ \A w \in work \union {span} : w # NoSpan => w.head # w.tail
  /\ NoDuplicates(handles) /\ NoDuplicates(expiring)

Allocated == free \union Leased = {s \in Slot : s[1] \in chunks}

\* What is known of the queries of the slots in each place.
Queried ==
  /\ unwritten \intersect available = {}
  /\ \A s \in Slot : <<s, 0>> \in unwritten => <<s, 1>> \in unwritten
  /\ Outstanding \subseteq Leased
  /\ \A s \in RangeOf(handles) :
       IF submitPc = "building"
       THEN Queries(s) \intersect (available \union unwritten) = {}
       ELSE Queries(s) \subseteq available \union unwritten
  /\ \A s \in Outstanding : s \in wasSubmitted \/ s \in RangeOf(handles)
  /\ OnlySubmittedWorkIsTracked

IInv == TypeOK /\ Life /\ Apart /\ Single /\ Allocated /\ Queried

-----------------------------------------------------------------------------
(* Facts about places and spans. *)

\* Apart in terms of the six places by number, as OneOwner has them.
LEMMA PlacesApart ==
  Apart <=> \A i, j \in 1..6 : i # j => Places[i] \intersect Places[j] = {}
<1>1. /\ Places[1] = free
      /\ Places[2] = RangeOf(handles)
      /\ Places[3] = SpanSlots(span)
      /\ Places[4] = SpansSlots(work)
      /\ Places[5] = RangeOf(expiring)
      /\ Places[6] = Reaped
  BY DEF Places, Reaped
<1> HIDE DEF Places
<1>2. \A i : i \in 1..6 <=> \/ i = 1 \/ i = 2 \/ i = 3
                            \/ i = 4 \/ i = 5 \/ i = 6
  OBVIOUS
<1> QED
  BY <1>1, <1>2 DEF Apart

\* OneOwner is the conjunction of its three parts.
LEMMA OwnerFacts == Apart /\ Single /\ Allocated <=> OneOwner
  BY PlacesApart DEF OneOwner, Single, Allocated

\* The slots of a set of spans grow with the set.
LEMMA SpanFacts ==
  ASSUME NEW W, W \subseteq Span
  PROVE  /\ SpanSlots(NoSpan) = {}
         /\ NoSpan \notin Span
         /\ \A w \in Span : SpanSlots(w) \subseteq Slot
         /\ \A w \in W : SpanSlots(w) \subseteq SpansSlots(W)
         /\ SpansSlots({}) = {}
         /\ \A w : SpansSlots(W \union {w}) = SpansSlots(W) \union SpanSlots(w)
<1>1. NoSlot \notin Slot
  BY PoolAssumption
<1>2. SpanSlots(NoSpan) = {} /\ NoSpan \notin Span
  BY <1>1 DEF SpanSlots, NoSpan, Span
<1>3. \A w \in Span : SpanSlots(w) \subseteq Slot
  BY DEF SpanSlots, Span
<1> QED
  BY <1>2, <1>3 DEF SpansSlots

\* Taking one span out of a set of disjoint ones takes exactly its slots out.
LEMMA WithoutSpan ==
  ASSUME NEW W, NEW w \in W,
         \A x, y \in W : x # y => SpanSlots(x) \intersect SpanSlots(y) = {}
  PROVE  SpansSlots(W \ {w}) = SpansSlots(W) \ SpanSlots(w)
<1>1. \A s : s \in SpansSlots(W) <=> \E x \in W : s \in SpanSlots(x)
  BY DEF SpansSlots
<1>2. \A s : s \in SpansSlots(W \ {w}) <=> \E x \in W : x # w /\ s \in SpanSlots(x)
  BY DEF SpansSlots
<1> QED
  BY <1>1, <1>2

-----------------------------------------------------------------------------
(* Types. *)

\* Every step preserves the types.
LEMMA TypeStep == IInv /\ [Next]_vars => TypeOK'
<1> SUFFICES ASSUME IInv, [Next]_vars PROVE TypeOK'
  OBVIOUS
<1> USE DEF IInv
<1>1. ASSUME NEW s \in Slot, Acquire(s) PROVE TypeOK'
  <2>1. Append(handles, s) \in Seq(Slot)
    BY AppendFacts DEF TypeOK
  <2>2. chunks' \subseteq Chunk /\ free' \subseteq Slot
    BY <1>1 DEF Acquire, TakeFree, TypeOK, Slot
  <2> QED
    BY <1>1, <2>1, <2>2 DEF Acquire, TypeOK
<1>2. CASE SubmitOk
  <2>1. RangeOf(handles) \subseteq Slot
    BY DEF TypeOK, RangeOf
  <2>2. unwritten' \subseteq Slot \X {0, 1} /\ executing' \subseteq Slot
    BY <1>2, <2>1 DEF SubmitOk, TypeOK, Queries
  <2> QED
    BY <1>2, <2>2 DEF SubmitOk, TypeOK, poolVars
<1>3. CASE SubmitFail
  <2>1. expiring \o handles \in Seq(Slot)
    BY ConcatFacts DEF TypeOK
  <2> QED
    BY <1>3, <2>1 DEF SubmitFail, TypeOK, gpuVars
<1>4. CASE Notify
  <2>1. Head(handles) \in Slot /\ Tail(handles) \in Seq(Slot)
    BY <1>4, TailFacts DEF Notify, Life, TypeOK
  <2>2. span' \in Span \union {NoSpan} /\ expiring' \in Seq(Slot)
    <3>1. CASE span = NoSpan
      BY <1>4, <2>1, <3>1 DEF Notify, Track, TypeOK, Span
    <3>2. CASE span # NoSpan
      <4>1. span \in Span
        BY <3>2 DEF TypeOK
      <4>2. span' \in Span
        BY <1>4, <2>1, <3>2, <4>1 DEF Notify, Track, Span
      <4>3. span.tail # NoSlot => Append(expiring, span.tail) \in Seq(Slot)
        BY <4>1, AppendFacts DEF Span, TypeOK
      <4> QED
        BY <1>4, <3>2, <4>2, <4>3 DEF Notify, Track, TypeOK
    <3> QED
      BY <3>1, <3>2
  <2> QED
    BY <1>4, <2>1, <2>2 DEF Notify, TypeOK, gpuVars
<1>5. CASE Take
  BY <1>5 DEF Take, TypeOK, poolVars, gpuVars
<1>6. ASSUME NEW w \in work, BeginAwait(w) PROVE TypeOK'
  BY <1>6 DEF BeginAwait, TypeOK, poolVars, gpuVars
<1>7. CASE EndAwait
  <2>1. pacing \in work /\ pacing \in Span /\ pacing.head # pacing.tail
    BY <1>7 DEF EndAwait, TypeOK, Single
  <2>2. expiring \o Released(pacing) \in Seq(Slot)
    BY <2>1, ReleasedFacts, ConcatFacts DEF TypeOK
  <2> QED
    BY <1>7, <2>2 DEF EndAwait, TypeOK, gpuVars
<1>8. CASE BeginClear
  BY <1>8 DEF BeginClear, TypeOK, poolVars, gpuVars
<1>9. ASSUME NEW w \in work, Clear(w) PROVE TypeOK'
  <2>1. w \in Span /\ w.head # w.tail
    BY SpanFacts DEF TypeOK, Single
  <2>2. expiring \o Released(w) \in Seq(Slot)
    BY <2>1, ReleasedFacts, ConcatFacts DEF TypeOK
  <2> QED
    BY <1>9, <2>2 DEF Clear, TypeOK, gpuVars, Life
<1>10. CASE ReaperPop
  <2>1. Head(expiring) \in Slot /\ Tail(expiring) \in Seq(Slot)
    BY <1>10, TailFacts DEF ReaperPop, TypeOK
  <2> QED
    BY <1>10, <2>1 DEF ReaperPop, TypeOK, clientVars, gpuVars
<1>11. CASE ReaperRecycle
  BY <1>11 DEF ReaperRecycle, TypeOK, clientVars, gpuVars
<1>12. CASE ReaperExit
  BY <1>12 DEF ReaperExit, TypeOK, clientVars, gpuVars
<1>13. CASE DestroyPacer
  BY <1>13 DEF DestroyPacer, TypeOK, poolVars, gpuVars
<1>14. CASE DestroyTracker
  <2>1. span # NoSpan => /\ span \in Span
                         /\ span.head # span.tail
    BY DEF TypeOK, Single
  <2>2. span # NoSpan => expiring \o Released(span) \in Seq(Slot)
    BY <2>1, ReleasedFacts, ConcatFacts DEF TypeOK
  <2> QED
    BY <1>14, <2>2 DEF DestroyTracker, TypeOK, gpuVars
<1>15. CASE DestroyChunks
  BY <1>15 DEF DestroyChunks, TypeOK, clientVars, gpuVars
<1>16. ASSUME NEW s \in Slot, GpuWrite(s) PROVE TypeOK'
  BY <1>16 DEF GpuWrite, TypeOK, clientVars, poolVars
<1>17. ASSUME NEW s \in Slot, GpuRetire(s) PROVE TypeOK'
  BY <1>17 DEF GpuRetire, TypeOK, clientVars, poolVars
<1>18. CASE UNCHANGED vars
  BY <1>18 DEF vars, clientVars, poolVars, gpuVars, TypeOK
<1> QED
  BY <1>1, <1>2, <1>3, <1>4, <1>5, <1>6, <1>7, <1>8, <1>9, <1>10, <1>11, <1>12,
     <1>13, <1>14, <1>15, <1>16, <1>17, <1>18
  DEF Next, Submitter, Pacer, Reaper, Destroyer, Gpu, Terminated

-----------------------------------------------------------------------------
(* The order of a destruction. *)

\* Every step preserves what a phase of the destruction implies.
LEMMA LifeStep == IInv /\ [Next]_vars => Life'
<1> SUFFICES ASSUME IInv, [Next]_vars PROVE Life'
  OBVIOUS
<1> USE DEF IInv
<1>1. ASSUME NEW s \in Slot, Acquire(s) PROVE Life'
  BY <1>1 DEF Acquire, Life
<1>2. CASE SubmitOk \/ SubmitFail \/ Notify
  <2>1. phase = "alive" /\ ~reaperDone
    BY <1>2 DEF SubmitOk, SubmitFail, Notify, Life
  <2>2. /\ pacing' = pacing /\ clearing' = clearing /\ work' = work
        /\ phase' = phase /\ reaperDone' = reaperDone
        /\ submitPc' = "notifying" => handles' # <<>>
    BY <1>2 DEF SubmitOk, SubmitFail, Notify, poolVars
  <2> QED
    BY <2>1, <2>2 DEF Life
<1>3. CASE Take
  BY <1>3 DEF Take, Life, poolVars, gpuVars
<1>4. ASSUME NEW w \in work, BeginAwait(w) PROVE Life'
  BY <1>4 DEF BeginAwait, Life, poolVars, gpuVars
<1>5. CASE EndAwait
  BY <1>5 DEF EndAwait, Life, gpuVars
<1>6. CASE BeginClear
  BY <1>6 DEF BeginClear, Life, poolVars, gpuVars
<1>7. ASSUME NEW w \in work, Clear(w) PROVE Life'
  BY <1>7 DEF Clear, Life, gpuVars
<1>8. CASE Reaper
  BY <1>8 DEF Reaper, ReaperPop, ReaperRecycle, ReaperExit, Life, clientVars,
     gpuVars
<1>9. CASE Destroyer
  <2>1. CASE DestroyPacer
    <3>1. /\ phase = "alive" /\ phase' = "noPacer" /\ handles = <<>>
          /\ handles' = handles /\ pacing' = pacing /\ pacing = NoSpan
          /\ work' = work /\ reaperDone' = reaperDone /\ submitPc' = submitPc
          /\ ~clearing' => work' = {}
      BY <2>1 DEF DestroyPacer, poolVars
    <3> QED
      BY <3>1 DEF Life
  <2>2. CASE DestroyTracker
    BY <2>2 DEF DestroyTracker, Life, gpuVars
  <2>3. CASE DestroyChunks
    BY <2>3 DEF DestroyChunks, Life, clientVars, gpuVars
  <2> QED
    BY <1>9, <2>1, <2>2, <2>3 DEF Destroyer
<1>10. CASE Gpu
  BY <1>10 DEF Gpu, GpuWrite, GpuRetire, Life, clientVars, poolVars
<1>11. CASE UNCHANGED vars
  BY <1>11 DEF vars, clientVars, poolVars, gpuVars, Life
<1> QED
  BY <1>1, <1>2, <1>3, <1>4, <1>5, <1>6, <1>7, <1>8, <1>9, <1>10, <1>11
  DEF Next, Submitter, Pacer, Terminated

-----------------------------------------------------------------------------
(* Owners.  For each action, what becomes of the places it touches; the    *)
(* rest is set algebra on the places.                                      *)

Owners == Apart /\ Single /\ Allocated

\* A new handle leases a slot that was free.
LEMMA AcquireOwners ==
  ASSUME IInv, NEW s \in Slot, Acquire(s)
  PROVE  Owners' /\ s \notin Leased /\ Leased' = Leased \union {s}
<1> USE DEF IInv
<1>1. /\ handles \in Seq(Slot) /\ handles' = Append(handles, s)
      /\ span' = span /\ work' = work /\ expiring' = expiring
      /\ reaping' = reaping
  BY DEF Acquire, TypeOK
<1>2. s \notin Leased
  BY DEF Acquire, TakeFree, Allocated, Apart, Leased, Reaped
<1>3. /\ RangeOf(handles') = RangeOf(handles) \union {s}
      /\ NoDuplicates(handles')
  BY <1>1, <1>2, AppendFacts DEF Single, Leased
<1>4. /\ s \notin free'
      /\ free' \subseteq Slot
      /\ free' \intersect Leased = {}
      /\ free' \union {s} \union Leased = {t \in Slot : t[1] \in chunks'}
  <2>1. CASE free # {}
    BY <2>1 DEF Acquire, TakeFree, Allocated, Apart, Leased, TypeOK, Reaped
  <2>2. CASE free = {}
    <3>1. /\ s[1] \notin chunks /\ chunks' = chunks \union {s[1]}
          /\ free' = ({s[1]} \X Index) \ {s}
      BY <2>2 DEF Acquire, TakeFree
    <3>2. {s[1]} \X Index = {t \in Slot : t[1] = s[1]}
      BY DEF Slot
    <3>3. Leased = {t \in Slot : t[1] \in chunks}
      BY <2>2 DEF Allocated
    <3> QED
      BY <3>1, <3>2, <3>3
  <2> QED
    BY <2>1, <2>2
<1>5. Leased' = Leased \union {s}
  BY <1>1, <1>3 DEF Leased
<1>6. Apart'
  BY <1>1, <1>2, <1>3, <1>4 DEF Apart, Leased, Reaped
<1>7. Single'
  BY <1>1, <1>3 DEF Single
<1>8. Allocated'
  BY <1>4, <1>5 DEF Allocated
<1> QED
  BY <1>2, <1>5, <1>6, <1>7, <1>8 DEF Owners

\* A failed submission moves its handles to the dropped ones.
LEMMA SubmitFailOwners ==
  ASSUME IInv, SubmitFail
  PROVE  Owners' /\ Leased' = Leased
<1> USE DEF IInv
<1>1. /\ expiring' = expiring \o handles /\ handles' = <<>>
      /\ span' = span /\ work' = work /\ reaping' = reaping
      /\ free' = free /\ chunks' = chunks
  BY DEF SubmitFail
<1>2. RangeOf(handles') = {} /\ NoDuplicates(handles')
  BY <1>1 DEF RangeOf, NoDuplicates
<1>3. /\ RangeOf(expiring') = RangeOf(expiring) \union RangeOf(handles)
      /\ NoDuplicates(expiring')
  BY <1>1, ConcatFacts DEF TypeOK, Apart, Single
<1>4. Leased' = Leased
  BY <1>1, <1>2, <1>3 DEF Leased
<1> QED
  BY <1>1, <1>2, <1>3, <1>4 DEF Owners, Apart, Single, Allocated, Reaped

\* A notified handle enters the span, and the tail it replaces is dropped.
LEMMA NotifyOwners ==
  ASSUME IInv, Notify
  PROVE  /\ Owners'
         /\ Leased' = Leased
         /\ RangeOf(handles) = RangeOf(handles') \union {Head(handles)}
         /\ SpanSlots(span') \subseteq SpanSlots(span) \union {Head(handles)}
<1> USE DEF IInv
<1> DEFINE h == Head(handles)
<1>1. /\ handles # <<>> /\ handles' = Tail(handles)
      /\ work' = work /\ reaping' = reaping
      /\ free' = free /\ chunks' = chunks
  BY DEF Notify, Life
<1>2. /\ h \in Slot
      /\ RangeOf(handles) = RangeOf(handles') \union {h}
      /\ h \notin RangeOf(handles')
      /\ NoDuplicates(handles')
  BY <1>1, TailFacts DEF TypeOK, Single
<1>3. /\ SpanSlots(span') \subseteq SpanSlots(span) \union {h}
      /\ RangeOf(expiring') \subseteq RangeOf(expiring) \union SpanSlots(span)
      /\ RangeOf(expiring) \subseteq RangeOf(expiring')
      /\ SpanSlots(span') \union RangeOf(expiring') =
           SpanSlots(span) \union RangeOf(expiring) \union {h}
      /\ SpanSlots(span') \intersect RangeOf(expiring') = {}
      /\ NoDuplicates(expiring')
      /\ span' # NoSpan => span'.head # span'.tail
  <2>1. NoSlot \notin Slot
    BY PoolAssumption
  <2>2. h \notin RangeOf(expiring) /\ h \notin SpanSlots(span)
    BY <1>2 DEF Apart
  <2>3. CASE span = NoSpan
    <3>1. span' = [head |-> h, tail |-> NoSlot] /\ expiring' = expiring
      BY <2>3 DEF Notify, Track
    <3>2. SpanSlots(span') = {h} /\ SpanSlots(span) = {}
      BY <3>1, <2>3, <2>1, <1>2 DEF SpanSlots, NoSpan
    <3> QED
      BY <3>1, <3>2, <2>1, <2>2, <1>2 DEF Single
  <2>4. CASE span # NoSpan
    <3>1. span \in Span /\ span' = [span EXCEPT !.tail = h]
      BY <2>4 DEF Notify, Track, TypeOK
    <3>2. /\ span'.head = span.head /\ span'.tail = h
          /\ span.head \in Slot /\ span.tail \in Slot \union {NoSlot}
          /\ span.head # span.tail
      BY <3>1, <2>4 DEF Span, Single
    <3>3. /\ SpanSlots(span') = {span.head, h}
          /\ SpanSlots(span) = {span.head, span.tail} \ {NoSlot}
      BY <3>2, <2>1, <1>2 DEF SpanSlots
    <3>4. CASE span.tail = NoSlot
      <4>1. expiring' = expiring
        BY <2>4, <3>4 DEF Notify, Track
      <4> QED
        BY <4>1, <3>2, <3>3, <3>4, <2>1, <2>2 DEF Apart, Single
    <3>5. CASE span.tail # NoSlot
      <4>1. expiring' = Append(expiring, span.tail)
        BY <2>4, <3>5 DEF Notify, Track
      <4>2. span.tail \in Slot /\ span.tail \notin RangeOf(expiring)
        BY <3>2, <3>3, <3>5 DEF Apart
      <4>3. /\ RangeOf(expiring') = RangeOf(expiring) \union {span.tail}
            /\ NoDuplicates(expiring')
        BY <4>1, <4>2, AppendFacts DEF TypeOK, Single
      <4> QED
        BY <4>2, <4>3, <3>2, <3>3, <3>5, <2>1, <2>2 DEF Apart
    <3> QED
      BY <3>4, <3>5
  <2> QED
    BY <2>3, <2>4
<1>4. Leased' = Leased
  BY <1>1, <1>2, <1>3 DEF Leased
<1>5. Apart'
  BY <1>1, <1>2, <1>3 DEF Apart, Reaped
<1>6. Single'
  BY <1>1, <1>2, <1>3 DEF Single
<1> HIDE DEF h
<1> QED
  BY <1>1, <1>2, <1>3, <1>4, <1>5, <1>6 DEF Owners, Allocated, h

\* take() moves the span to the work of a present.
LEMMA TakeOwners ==
  ASSUME IInv, Take
  PROVE  Owners' /\ Leased' = Leased
<1> USE DEF IInv
<1>1. /\ span \in Span /\ span # NoSpan /\ span' = NoSpan
      /\ work' = work \union {span} /\ work \subseteq Span
      /\ handles' = handles /\ expiring' = expiring /\ reaping' = reaping
      /\ free' = free /\ chunks' = chunks
  BY DEF Take, TypeOK, poolVars
<1>2. SpansSlots(work') = SpansSlots(work) \union SpanSlots(span)
  BY <1>1, SpanFacts
<1>3. SpanSlots(span') = {}
  BY <1>1, SpanFacts
<1>4. \A w \in work : SpanSlots(w) \intersect SpanSlots(span) = {}
  BY <1>1, SpanFacts DEF Apart
<1>5. Single'
  BY <1>1, <1>4 DEF Single
<1> QED
  BY <1>1, <1>2, <1>3, <1>5 DEF Owners, Apart, Allocated, Leased, Reaped

\* A span of `work' is released, after a wait or while pending is cleared.
LEMMA ReleaseOwners ==
  ASSUME IInv, NEW w \in work,
         work' = work \ {w}, expiring' = expiring \o Released(w),
         span' = span, handles' = handles, reaping' = reaping,
         free' = free, chunks' = chunks
  PROVE  Owners' /\ Leased' = Leased
<1> USE DEF IInv
<1>1. /\ work \subseteq Span /\ w \in Span /\ w.head # w.tail
      /\ SpanSlots(w) \subseteq SpansSlots(work)
  BY SpanFacts DEF TypeOK, Single
<1>2. SpansSlots(work') = SpansSlots(work) \ SpanSlots(w)
  BY WithoutSpan DEF Single
<1>3. SpanSlots(w) \intersect RangeOf(expiring) = {}
  BY <1>1 DEF Apart
<1>4. /\ RangeOf(expiring') = RangeOf(expiring) \union SpanSlots(w)
      /\ NoDuplicates(expiring')
  BY <1>1, <1>3, ReleasedFacts, ConcatFacts DEF TypeOK, Single
<1>5. Leased' = Leased
  BY <1>1, <1>2, <1>4 DEF Leased
<1>6. Apart'
  BY <1>1, <1>2, <1>4 DEF Apart, Reaped
<1>7. Single'
  BY <1>4 DEF Single
<1> QED
  BY <1>5, <1>6, <1>7 DEF Owners, Allocated

\* A destroyed tracker drops the handles of its span.
LEMMA DestroyTrackerOwners ==
  ASSUME IInv, DestroyTracker
  PROVE  Owners' /\ Leased' = Leased
<1> USE DEF IInv
<1>1. /\ span' = NoSpan /\ work' = work /\ handles' = handles
      /\ reaping' = reaping /\ free' = free /\ chunks' = chunks
  BY DEF DestroyTracker
<1>2. SpanSlots(span') = {} /\ SpanSlots(NoSpan) = {}
  BY <1>1, SpanFacts
<1>3. /\ RangeOf(expiring') = RangeOf(expiring) \union SpanSlots(span)
      /\ NoDuplicates(expiring')
  <2>1. CASE span = NoSpan
    BY <2>1, <1>2 DEF DestroyTracker, Single
  <2>2. CASE span # NoSpan
    <3>1. /\ span \in Span /\ span.head # span.tail
          /\ expiring' = expiring \o Released(span)
      BY <2>2 DEF DestroyTracker, TypeOK, Single
    <3> QED
      BY <3>1, ReleasedFacts, ConcatFacts DEF TypeOK, Single, Apart
  <2> QED
    BY <2>1, <2>2
<1>4. Leased' = Leased
  BY <1>1, <1>2, <1>3 DEF Leased
<1>5. Apart'
  BY <1>1, <1>2, <1>3 DEF Apart, Reaped
<1>6. Single'
  BY <1>1, <1>3 DEF Single
<1> QED
  BY <1>1, <1>4, <1>5, <1>6 DEF Owners, Allocated

\* A popped handle is with the reaper.
LEMMA ReaperPopOwners ==
  ASSUME IInv, ReaperPop
  PROVE  Owners' /\ Leased' = Leased
<1> USE DEF IInv
<1>1. /\ expiring # <<>> /\ reaping = NoSlot
      /\ expiring' = Tail(expiring) /\ reaping' = Head(expiring)
      /\ span' = span /\ work' = work /\ handles' = handles
      /\ free' = free /\ chunks' = chunks
  BY DEF ReaperPop, clientVars
<1>2. /\ RangeOf(expiring) = RangeOf(expiring') \union {reaping'}
      /\ reaping' \in Slot /\ reaping' \notin RangeOf(expiring')
      /\ NoDuplicates(expiring')
  BY <1>1, TailFacts DEF TypeOK, Single
<1>3. Reaped = {} /\ Reaped' = {reaping'}
  BY <1>1, <1>2, PoolAssumption DEF Reaped
<1>4. Leased' = Leased
  BY <1>1, <1>2, <1>3 DEF Leased, Reaped
<1>5. Apart'
  BY <1>1, <1>2, <1>3 DEF Apart
<1> QED
  BY <1>1, <1>2, <1>4, <1>5 DEF Owners, Allocated, Single

\* A recycled slot is leased no more.
LEMMA ReaperRecycleOwners ==
  ASSUME IInv, ReaperRecycle
  PROVE  Owners' /\ Leased' = Leased \ {reaping} /\ reaping \in Leased
<1> USE DEF IInv
<1>1. /\ reaping \in Slot /\ reaping # NoSlot /\ reaping' = NoSlot
      /\ free' = free \union {reaping}
      /\ span' = span /\ work' = work /\ handles' = handles
      /\ expiring' = expiring /\ chunks' = chunks
  BY DEF ReaperRecycle, TypeOK, clientVars
<1>2. Reaped = {reaping} /\ Reaped' = {}
  BY <1>1 DEF Reaped
<1>3. Leased' = Leased \ {reaping} /\ reaping \in Leased
  BY <1>1, <1>2 DEF Leased, Reaped, Apart
<1>4. Apart'
  BY <1>1, <1>2 DEF Apart
<1> QED
  BY <1>1, <1>3, <1>4 DEF Owners, Allocated, Single

\* At the end no slot is leased.
LEMMA DestroyChunksOwners ==
  ASSUME IInv, DestroyChunks
  PROVE  Owners' /\ Leased' = Leased /\ Leased = {}
<1> USE DEF IInv
<1>1. /\ handles = <<>> /\ span = NoSpan /\ work = {} /\ expiring = <<>>
      /\ reaping = NoSlot
  BY DEF DestroyChunks, Life
<1>2. /\ handles' = handles /\ span' = span /\ work' = work
      /\ expiring' = expiring /\ reaping' = reaping
      /\ free' = {} /\ chunks' = {}
  BY DEF DestroyChunks, clientVars
<1>3. Leased = {}
  <2>1. SpanSlots(NoSpan) = {} /\ SpansSlots({}) = {}
    BY SpanFacts
  <2>2. RangeOf(<<>>) = {}
    BY DEF RangeOf
  <2> QED
    BY <1>1, <2>1, <2>2 DEF Leased
<1>4. Leased' = Leased
  BY <1>2 DEF Leased
<1> QED
  BY <1>2, <1>3, <1>4 DEF Owners, Apart, Allocated, Single, Reaped

\* The other actions move no handle.
LEMMA OtherOwners ==
  ASSUME IInv,
         \/ SubmitOk \/ BeginClear \/ ReaperExit \/ DestroyPacer
         \/ \E w \in work : BeginAwait(w)
         \/ Gpu \/ UNCHANGED vars
  PROVE  Owners' /\ Leased' = Leased
<1>1. /\ handles' = handles /\ span' = span /\ work' = work
      /\ expiring' = expiring /\ reaping' = reaping
      /\ free' = free /\ chunks' = chunks
  BY DEF SubmitOk, BeginClear, ReaperExit, DestroyPacer, BeginAwait, Gpu,
     GpuWrite, GpuRetire, vars, clientVars, poolVars, gpuVars
<1> QED
  BY <1>1 DEF IInv, Owners, Apart, Allocated, Single, Leased, Reaped

\* A span that is waited for stays where it is.
LEMMA EndAwaitOwners ==
  ASSUME IInv, EndAwait
  PROVE  Owners' /\ Leased' = Leased
<1>1. pacing \in work
  BY DEF EndAwait, IInv, TypeOK
<1> QED
  BY <1>1, ReleaseOwners DEF EndAwait

\* Work that is let go is dropped.
LEMMA ClearOwners ==
  ASSUME IInv, NEW w \in work, Clear(w)
  PROVE  Owners' /\ Leased' = Leased
BY ReleaseOwners DEF Clear

\* Every step preserves the ownership of slots.
LEMMA OwnersStep == IInv /\ [Next]_vars => Owners'
<1> SUFFICES ASSUME IInv, [Next]_vars PROVE Owners'
  OBVIOUS
<1>1. CASE Submitter
  BY <1>1, AcquireOwners, SubmitFailOwners, NotifyOwners, OtherOwners
  DEF Submitter
<1>2. CASE Pacer
  BY <1>2, TakeOwners, EndAwaitOwners, ClearOwners, OtherOwners DEF Pacer
<1>3. CASE Reaper
  BY <1>3, ReaperPopOwners, ReaperRecycleOwners, OtherOwners DEF Reaper
<1>4. CASE Destroyer
  BY <1>4, DestroyTrackerOwners, DestroyChunksOwners, OtherOwners DEF Destroyer
<1>5. CASE Gpu \/ UNCHANGED vars
  BY <1>5, OtherOwners
<1> QED
  BY <1>1, <1>2, <1>3, <1>4, <1>5 DEF Next, Terminated

-----------------------------------------------------------------------------
(* Queries. *)

\* An action of the pool or of its clients that leaves the queries alone.
LEMMA SameQueries ==
  ASSUME IInv, UNCHANGED gpuVars,
         Outstanding \subseteq Leased',
         wasSubmitted' = wasSubmitted, submitPc' = submitPc,
         handles' = handles \/ (handles' = <<>> /\ submitPc = "building"),
         SpanSlots(span') \union SpansSlots(work')
           \subseteq SpanSlots(span) \union SpansSlots(work)
  PROVE  Queried'
<1>1. /\ unwritten' = unwritten /\ available' = available
      /\ Outstanding' = Outstanding
  BY DEF gpuVars, Outstanding
<1>2. RangeOf(handles') = RangeOf(handles) \/ RangeOf(handles') = {}
  BY DEF RangeOf
<1>3. ASSUME handles' = <<>>, submitPc = "building", NEW s \in Outstanding
      PROVE  s \in wasSubmitted
  BY <1>3 DEF IInv, Queried, Outstanding
<1>4. OnlySubmittedWorkIsTracked'
  BY <1>1 DEF OnlySubmittedWorkIsTracked, IInv, Queried
<1>5. \A s \in RangeOf(handles') :
         IF submitPc' = "building"
         THEN Queries(s) \intersect (available' \union unwritten') = {}
         ELSE Queries(s) \subseteq available' \union unwritten'
  BY <1>1, <1>2 DEF IInv, Queried
<1>6. \A s \in Outstanding' : s \in wasSubmitted' \/ s \in RangeOf(handles')
  BY <1>1, <1>3 DEF IInv, Queried
<1> QED
  BY <1>1, <1>4, <1>5, <1>6 DEF IInv, Queried, Queries

\* A submission makes the slots of its handles outstanding, and no other.
LEMMA SubmitOkOutstanding ==
  ASSUME IInv, SubmitOk
  PROVE  Outstanding' = Outstanding \union RangeOf(handles)
<1>1. unwritten' = unwritten \union UNION {Queries(s) : s \in RangeOf(handles)}
  BY DEF SubmitOk
<1>2. RangeOf(handles) \subseteq Slot
  BY DEF IInv, TypeOK, RangeOf
<1>3. ASSUME NEW s \in Slot
      PROVE  (Queries(s) \intersect unwritten' # {}) <=>
               (Queries(s) \intersect unwritten # {} \/ s \in RangeOf(handles))
  <2>1. \A t \in RangeOf(handles) : Queries(t) \subseteq unwritten'
    BY <1>1
  <2>2. \A x \in unwritten' :
           x \in unwritten \/ \E t \in RangeOf(handles) : x \in Queries(t)
    BY <1>1
  <2>3. \A t : t # s => Queries(t) \intersect Queries(s) = {}
    BY DEF Queries
  <2>4. <<s, 0>> \in Queries(s)
    BY DEF Queries
  <2> QED
    BY <1>1, <2>1, <2>2, <2>3, <2>4
<1> QED
  BY <1>2, <1>3 DEF Outstanding

\* The reaper frees an index only when the GPU has written both its queries:
\* either it saw the end, which the GPU writes last, or the handle was never
\* submitted.
LEMMA RecycledIsDone ==
  ASSUME IInv, ReaperRecycle
  PROVE  reaping \notin Outstanding
<1> USE DEF IInv
<1>1. reaping \in Slot /\ reaping \notin RangeOf(handles)
  BY DEF ReaperRecycle, TypeOK, Apart, Reaped
<1>2. CASE reaping \in wasSubmitted
  BY <1>1, <1>2 DEF ReaperRecycle, EndWritten, Queried, Outstanding, Queries
<1>3. CASE reaping \notin wasSubmitted
  BY <1>1, <1>3 DEF Queried
<1> QED
  BY <1>2, <1>3

\* Every step preserves what each owner implies of its queries.
LEMMA QueriedStep == IInv /\ [Next]_vars => Queried'
<1> SUFFICES ASSUME IInv, [Next]_vars PROVE Queried'
  OBVIOUS
<1>0. TypeOK /\ Life /\ Apart /\ Single /\ Allocated /\ Queried
  BY DEF IInv
<1> USE <1>0
<1>1. Outstanding \subseteq Leased
  BY DEF Queried
<1>2. ASSUME NEW s \in Slot, Acquire(s) PROVE Queried'
  <2>1. /\ unwritten' = unwritten /\ available' = available \ Queries(s)
        /\ wasSubmitted' = wasSubmitted \ {s}
        /\ submitPc = "building" /\ submitPc' = submitPc
        /\ span' = span /\ work' = work
        /\ expiring' = expiring /\ reaping' = reaping
    BY <1>2 DEF Acquire
  <2>2. s \notin Leased
    BY <1>2 DEF Acquire, TakeFree, Allocated, Apart, Leased, Reaped
  <2>3. RangeOf(handles') = RangeOf(handles) \union {s}
    BY <1>2, AppendFacts DEF Acquire, TypeOK
  <2>4. Queries(s) \intersect unwritten = {}
    BY <1>1, <2>2 DEF Outstanding
  <2>5. Outstanding' = Outstanding /\ s \notin Outstanding
    BY <1>1, <2>1, <2>2 DEF Outstanding
  <2>6. Outstanding' \subseteq Leased'
    BY <1>1, <2>1, <2>3, <2>5 DEF Leased
  <2>7. \A t \in Slot : t # s => Queries(t) \intersect Queries(s) = {}
    BY DEF Queries
  <2>8. \A t \in RangeOf(handles') :
           Queries(t) \intersect (available' \union unwritten') = {}
    BY <2>1, <2>3, <2>4 DEF Queried
  <2>9. OnlySubmittedWorkIsTracked'
    <3>1. /\ s \notin SpanSlots(span) \union SpansSlots(work)
          /\ SpanSlots(span) \union SpansSlots(work) \subseteq Slot
      BY <2>2, SpanFacts DEF Leased, SpansSlots, TypeOK
    <3> QED
      BY <2>1, <2>7, <3>1 DEF Queried, OnlySubmittedWorkIsTracked
  <2> QED
    BY <2>1, <2>3, <2>5, <2>6, <2>8, <2>9 DEF Queried
<1>3. CASE SubmitOk
  <2>1. /\ submitPc = "building" /\ submitPc' = "notifying"
        /\ handles' = handles /\ wasSubmitted' = wasSubmitted
        /\ span' = span /\ work' = work /\ expiring' = expiring
        /\ reaping' = reaping /\ available' = available
        /\ unwritten' =
             unwritten \union UNION {Queries(s) : s \in RangeOf(handles)}
    BY <1>3 DEF SubmitOk, poolVars
  <2>2. RangeOf(handles) \subseteq Slot
    BY DEF TypeOK, RangeOf
  <2>3. Outstanding' = Outstanding \union RangeOf(handles)
    BY <1>3, SubmitOkOutstanding
  <2>4. Outstanding' \subseteq Leased'
    BY <1>1, <2>1, <2>3 DEF Leased
  <2>5. unwritten' \intersect available' = {}
    BY <2>1 DEF Queried
  <2>6. \A s \in Slot : <<s, 0>> \in unwritten' => <<s, 1>> \in unwritten'
    BY <2>1 DEF Queried, Queries
  <2>7. \A s \in RangeOf(handles) : Queries(s) \subseteq unwritten'
    BY <2>1
  <2>8. OnlySubmittedWorkIsTracked'
    BY <2>1 DEF Queried, OnlySubmittedWorkIsTracked
  <2> QED
    BY <2>1, <2>3, <2>4, <2>5, <2>6, <2>7, <2>8 DEF Queried
<1>4. CASE SubmitFail
  BY <1>1, <1>4, SubmitFailOwners, SameQueries DEF SubmitFail
<1>5. CASE Notify
  <2> DEFINE h == Head(handles)
  <2>1. /\ submitPc = "notifying" /\ work' = work
        /\ wasSubmitted' = wasSubmitted \union {h}
        /\ unwritten' = unwritten /\ available' = available
        /\ Outstanding' = Outstanding /\ Leased' = Leased
        /\ RangeOf(handles) = RangeOf(handles') \union {h}
        /\ SpanSlots(span') \subseteq SpanSlots(span) \union {h}
        /\ submitPc' = "building" => RangeOf(handles') = {}
    <3>1. /\ submitPc = "notifying" /\ work' = work
          /\ wasSubmitted' = wasSubmitted \union {h}
          /\ unwritten' = unwritten /\ available' = available
          /\ submitPc' = "building" => handles' = <<>>
      BY <1>5 DEF Notify, gpuVars
    <3>2. RangeOf(<<>>) = {}
      BY DEF RangeOf
    <3>3. Outstanding' = Outstanding
      BY <3>1 DEF Outstanding
    <3> QED
      BY <1>5, <3>1, <3>2, <3>3, NotifyOwners
  <2>2. Queries(h) \subseteq available \union unwritten
    BY <2>1 DEF Queried
  <2>3. OnlySubmittedWorkIsTracked'
    BY <2>1, <2>2 DEF Queried, OnlySubmittedWorkIsTracked
  <2> HIDE DEF h
  <2> QED
    BY <2>1, <2>3 DEF Queried
<1>6. CASE Pacer
  <2>1. CASE Take
    <3>1. SpansSlots(work') = SpansSlots(work) \union SpanSlots(span)
          /\ SpanSlots(span') = {}
      BY <2>1, SpanFacts DEF Take, TypeOK
    <3>2. /\ UNCHANGED gpuVars
          /\ Outstanding \subseteq Leased'
          /\ wasSubmitted' = wasSubmitted /\ submitPc' = submitPc
          /\ handles' = handles
          /\ SpanSlots(span') \union SpansSlots(work')
               \subseteq SpanSlots(span) \union SpansSlots(work)
      BY <1>1, <2>1, <3>1, TakeOwners DEF Take
    <3> QED
      BY <3>2, SameQueries
  <2>2. CASE EndAwait \/ \E w \in work : Clear(w)
    <3>1. work' \subseteq work /\ span' = span /\ gpuVars' = gpuVars
          /\ handles' = handles /\ wasSubmitted' = wasSubmitted
          /\ submitPc' = submitPc
      BY <2>2 DEF EndAwait, Clear
    <3>2. SpansSlots(work') \subseteq SpansSlots(work)
      BY <3>1 DEF SpansSlots
    <3>3. Leased' = Leased
      BY <2>2, EndAwaitOwners, ClearOwners
    <3> QED
      BY <1>1, <3>1, <3>2, <3>3, SameQueries
  <2>3. CASE BeginClear \/ \E w \in work : BeginAwait(w)
    <3>1. /\ UNCHANGED gpuVars
          /\ Outstanding \subseteq Leased'
          /\ wasSubmitted' = wasSubmitted /\ submitPc' = submitPc
          /\ handles' = handles
          /\ SpanSlots(span') \union SpansSlots(work')
               \subseteq SpanSlots(span) \union SpansSlots(work)
      BY <1>1, <2>3, OtherOwners DEF BeginClear, BeginAwait
    <3> QED
      BY <3>1, SameQueries
  <2> QED
    BY <1>6, <2>1, <2>2, <2>3 DEF Pacer
<1>7. CASE ReaperPop \/ ReaperExit
  <2>1. /\ UNCHANGED gpuVars
        /\ Outstanding \subseteq Leased'
        /\ wasSubmitted' = wasSubmitted /\ submitPc' = submitPc
        /\ handles' = handles
        /\ SpanSlots(span') \union SpansSlots(work')
             \subseteq SpanSlots(span) \union SpansSlots(work)
    BY <1>1, <1>7, ReaperPopOwners, OtherOwners
    DEF ReaperPop, ReaperExit, clientVars
  <2> QED
    BY <2>1, SameQueries
<1>8. CASE ReaperRecycle
  <2>1. reaping \notin Outstanding
    BY <1>8, RecycledIsDone
  <2>2. /\ UNCHANGED gpuVars
        /\ Outstanding \subseteq Leased'
        /\ wasSubmitted' = wasSubmitted /\ submitPc' = submitPc
        /\ handles' = handles
        /\ SpanSlots(span') \union SpansSlots(work')
             \subseteq SpanSlots(span) \union SpansSlots(work)
    BY <1>1, <1>8, <2>1, ReaperRecycleOwners DEF ReaperRecycle, clientVars
  <2> QED
    BY <2>2, SameQueries
<1>9. CASE DestroyPacer \/ DestroyTracker \/ DestroyChunks
  <2>1. SpanSlots(NoSpan) = {}
    BY SpanFacts
  <2>2. /\ span' \in {span, NoSpan} /\ work' = work /\ gpuVars' = gpuVars
        /\ handles' = handles /\ wasSubmitted' = wasSubmitted
        /\ submitPc' = submitPc
    BY <1>9 DEF DestroyPacer, DestroyTracker, DestroyChunks, clientVars
  <2>3. Leased' = Leased
    BY <1>9, DestroyTrackerOwners, DestroyChunksOwners, OtherOwners
  <2> QED
    BY <1>1, <2>1, <2>2, <2>3, SameQueries
<1>10. ASSUME NEW s \in Slot, GpuWrite(s) PROVE Queried'
  <2>1. PICK offset \in {0, 1} :
           /\ <<s, offset>> \in unwritten
           /\ offset = 1 => StartWritten(s)
           /\ unwritten' = unwritten \ {<<s, offset>>}
           /\ available' = available \union {<<s, offset>>}
    BY <1>10 DEF GpuWrite
  <2>2. /\ submitPc' = submitPc /\ handles' = handles /\ span' = span
        /\ work' = work /\ wasSubmitted' = wasSubmitted
        /\ expiring' = expiring /\ reaping' = reaping
    BY <1>10 DEF GpuWrite, clientVars, poolVars
  <2>3. /\ available' \union unwritten' = available \union unwritten
        /\ available' \intersect unwritten' = {}
    BY <2>1 DEF Queried
  <2>4. \A t \in Slot : <<t, 0>> \in unwritten' => <<t, 1>> \in unwritten'
    BY <2>1 DEF Queried, StartWritten
  <2>5. Outstanding' \subseteq Outstanding
    BY <2>1 DEF Outstanding
  <2>6. Leased' = Leased
    BY <2>2 DEF Leased
  <2>7. OnlySubmittedWorkIsTracked'
    BY <2>2, <2>3 DEF Queried, OnlySubmittedWorkIsTracked
  <2> QED
    BY <1>1, <2>2, <2>3, <2>4, <2>5, <2>6, <2>7 DEF Queried
<1>11. CASE (\E s \in Slot : GpuRetire(s)) \/ UNCHANGED vars
  <2>1. /\ UNCHANGED <<clientVars, poolVars, available, unwritten>>
    BY <1>11 DEF GpuRetire, vars, gpuVars
  <2> QED
    BY <2>1 DEF clientVars, poolVars, Queried, OnlySubmittedWorkIsTracked,
       Outstanding, Leased
<1> QED
  BY <1>2, <1>3, <1>4, <1>5, <1>6, <1>7, <1>8, <1>9, <1>10, <1>11
  DEF Next, Submitter, Reaper, Destroyer, Gpu, Terminated

-----------------------------------------------------------------------------
(* The theorems. *)

\* The invariant holds of a new device.
LEMMA InitInvariant == Init => IInv
<1> SUFFICES ASSUME Init PROVE IInv
  OBVIOUS
<1>1. RangeOf(<<>>) = {} /\ NoDuplicates(<<>>)
  BY DEF RangeOf, NoDuplicates
<1>2. SpanSlots(NoSpan) = {} /\ SpansSlots({}) = {}
  BY SpanFacts
<1>3. Reaped = {} /\ Leased = {}
  BY <1>1, <1>2 DEF Init, Reaped, Leased
<1>4. TypeOK /\ Life
  <2>1. /\ chunks = {} /\ free = {} /\ wasSubmitted = {} /\ work = {}
        /\ available = {} /\ unwritten = {} /\ executing = {}
        /\ handles = <<>> /\ expiring = <<>>
        /\ submitPc = "building" /\ phase = "alive"
        /\ span = NoSpan /\ pacing = NoSpan /\ reaping = NoSlot
        /\ clearing = FALSE /\ reaperDone = FALSE
    BY DEF Init
  <2>2. <<>> \in Seq(Slot)
    OBVIOUS
  <2>3. TypeOK
    BY <2>1, <2>2 DEF TypeOK
  <2>4. Life
    BY <2>1 DEF Life
  <2> QED
    BY <2>3, <2>4
<1>5. Apart /\ Single
  BY <1>1, <1>2, <1>3 DEF Init, Apart, Single
<1>6. Allocated
  BY <1>3 DEF Init, Allocated
<1>7. Queried
  BY <1>1, <1>2 DEF Init, Queried, Outstanding, OnlySubmittedWorkIsTracked
<1> QED
  BY <1>4, <1>5, <1>6, <1>7 DEF IInv

\* Every step preserves the invariant.
LEMMA StepInvariant == IInv /\ [Next]_vars => IInv'
  BY TypeStep, LifeStep, OwnersStep, QueriedStep DEF IInv, Owners

\* The inductive invariant holds in every reachable state.
THEOREM Invariant == Spec => []IInv
  BY InitInvariant, StepInvariant, PTL DEF Spec

\* Every variable keeps its type, for any chunks, indices and bounds.
THEOREM TypeCorrect == Spec => []TypeOK
  BY Invariant, PTL DEF IInv

\* An index in free_indices is never one whose queries the GPU may still
\* write: what do_reaper waits for is enough.
THEOREM FreeSlotsAreIdle == Spec => []NoWriteToFreeSlot
<1>1. IInv => NoWriteToFreeSlot
  <2> SUFFICES ASSUME IInv PROVE free \intersect Leased = {}
    BY DEF NoWriteToFreeSlot, IInv, Queried
  <2> QED
    BY DEF IInv, Apart, Leased, Reaped
<1> QED
  BY <1>1, Invariant, PTL

\* No index is lost, and none is handed out twice.
THEOREM OwnersAreUnique == Spec => []OneOwner
<1>1. IInv => OneOwner
  BY OwnerFacts DEF IInv
<1> QED
  BY <1>1, Invariant, PTL

\* The presenting thread waits only for queries the driver has accepted.
THEOREM TrackedWorkIsSubmitted == Spec => []OnlySubmittedWorkIsTracked
<1>1. IInv => OnlySubmittedWorkIsTracked
  BY DEF IInv, Queried
<1> QED
  BY <1>1, Invariant, PTL

\* The reaper leaves its loop after the last handle, and the chunks are
\* destroyed when no query of theirs can be written any more.
THEOREM DestructionIsSafe ==
  Spec => []NothingIsLeftBehind
<1>1. IInv => NothingIsLeftBehind
  <2> SUFFICES ASSUME IInv, reaperDone PROVE Leased = {}
    BY DEF NothingIsLeftBehind, IInv, Life, Queried
  <2>1. /\ handles = <<>> /\ span = NoSpan /\ work = {} /\ expiring = <<>>
        /\ reaping = NoSlot
    BY DEF IInv, Life
  <2>2. SpanSlots(NoSpan) = {} /\ SpansSlots({}) = {}
    BY SpanFacts
  <2>3. RangeOf(<<>>) = {}
    BY DEF RangeOf
  <2> QED
    BY <2>1, <2>2, <2>3 DEF Leased
<1> QED
  BY <1>1, Invariant, PTL

-----------------------------------------------------------------------------
(* Refinement: every step of the pool is a step of QueryLease or stutters. *)

\* A new pool is a new QueryLease.
LEMMA LeaseInit == Init => Lease!Init
<1> SUFFICES ASSUME Init PROVE Lease!Init
  OBVIOUS
<1>1. SpanSlots(NoSpan) = {} /\ SpansSlots({}) = {}
  BY SpanFacts
<1>2. RangeOf(<<>>) = {}
  BY DEF RangeOf
<1>3. Leased = {}
  BY <1>1, <1>2 DEF Init, Leased
<1>4. Outstanding = {}
  BY DEF Init, Outstanding
<1> QED
  BY <1>3, <1>4 DEF Lease!Init

\* Every step of the pool is a step of QueryLease or a stutter.
LEMMA LeaseStep == IInv /\ [Next]_vars => [Lease!Next]_(Lease!vars)
<1> SUFFICES ASSUME IInv, [Next]_vars
             PROVE  [Lease!Next]_(Lease!vars)
  OBVIOUS
<1>1. ASSUME NEW s \in Slot, Acquire(s) PROVE Lease!Next
  <2>1. s \notin Leased /\ Leased' = Leased \union {s}
    BY <1>1, AcquireOwners
  <2>2. s \notin Outstanding
    BY <2>1 DEF IInv, Queried
  <2>3. Outstanding' = Outstanding
    BY <1>1 DEF Acquire, Outstanding
  <2> QED
    BY <2>1, <2>2, <2>3 DEF Lease!Next, Lease!Lease
<1>2. CASE SubmitOk
  <2>1. Leased' = Leased /\ Outstanding' = Outstanding \union RangeOf(handles)
    BY <1>2, OtherOwners, SubmitOkOutstanding
  <2>2. RangeOf(handles) \subseteq Leased /\ RangeOf(handles) \subseteq Slot
    BY DEF Leased, IInv, TypeOK, RangeOf
  <2>3. RangeOf(handles) \intersect Outstanding = {}
    BY <1>2 DEF SubmitOk, IInv, Queried, Outstanding
  <2> QED
    BY <2>1, <2>2, <2>3 DEF Lease!Next, Lease!Execute
<1>3. CASE ReaperRecycle
  <2>1. /\ reaping \in Slot /\ reaping \in Leased /\ reaping \notin Outstanding
        /\ Leased' = Leased \ {reaping}
    BY <1>3, ReaperRecycleOwners, RecycledIsDone
    DEF ReaperRecycle, IInv, TypeOK
  <2>2. Outstanding' = Outstanding
    BY <1>3 DEF ReaperRecycle, gpuVars, Outstanding
  <2> QED
    BY <2>1, <2>2 DEF Lease!Next, Lease!Return
<1>4. ASSUME NEW s \in Slot, GpuWrite(s) PROVE [Lease!Next]_(Lease!vars)
  <2>1. PICK offset \in {0, 1} : /\ <<s, offset>> \in unwritten
                                 /\ unwritten' = unwritten \ {<<s, offset>>}
    BY <1>4 DEF GpuWrite
  <2>2. Leased' = Leased
    BY <1>4, OtherOwners DEF Gpu
  <2>3. s \in Outstanding
    BY <2>1 DEF Outstanding, Queries
  <2>4. Outstanding' = Outstanding \/ Outstanding' = Outstanding \ {s}
    <3>1. ASSUME NEW t \in Slot, t # s
          PROVE  Queries(t) \intersect unwritten' = Queries(t) \intersect unwritten
      <4>1. <<s, offset>> \notin Queries(t)
        BY <3>1 DEF Queries
      <4> QED
        BY <2>1, <4>1
    <3> QED
      BY <2>3, <3>1 DEF Outstanding
  <2> QED
    BY <2>2, <2>3, <2>4 DEF Lease!Next, Lease!Complete, Lease!vars
<1>5. ASSUME Leased' = Leased, unwritten' = unwritten
      PROVE  UNCHANGED Lease!vars
  BY <1>5 DEF Lease!vars, Outstanding
<1>6. CASE SubmitFail \/ Notify \/ Pacer
  <2>1. unwritten' = unwritten
    BY <1>6 DEF SubmitFail, Notify, Pacer, Take, EndAwait, BeginClear,
       BeginAwait, Clear, gpuVars
  <2>2. Leased' = Leased
    BY <1>6, SubmitFailOwners, NotifyOwners, TakeOwners, EndAwaitOwners,
       ClearOwners, OtherOwners DEF Pacer
  <2> QED
    BY <1>5, <2>1, <2>2
<1>7. CASE ReaperPop \/ ReaperExit \/ Destroyer
  <2>1. unwritten' = unwritten
    BY <1>7 DEF ReaperPop, ReaperExit, Destroyer, DestroyPacer, DestroyTracker,
       DestroyChunks, gpuVars
  <2>2. Leased' = Leased
    BY <1>7, ReaperPopOwners, DestroyTrackerOwners, DestroyChunksOwners,
       OtherOwners DEF Destroyer
  <2> QED
    BY <1>5, <2>1, <2>2
<1>8. CASE (\E s \in Slot : GpuRetire(s)) \/ UNCHANGED vars
  <2>1. unwritten' = unwritten
    BY <1>8 DEF GpuRetire, vars, gpuVars
  <2>2. Leased' = Leased
    BY <1>8, OtherOwners DEF Gpu
  <2> QED
    BY <1>5, <2>1, <2>2
<1> QED
  BY <1>1, <1>2, <1>3, <1>4, <1>6, <1>7, <1>8
  DEF Next, Submitter, Reaper, Gpu, Terminated

\* The pool implements the contract of its header: a pair of queries belongs
\* to one submission at a time, and comes back when the GPU is done with it.
THEOREM Refinement == Spec => LeaseContract
  BY Invariant, LeaseInit, LeaseStep, PTL DEF Spec, LeaseContract, Lease!Spec

-----------------------------------------------------------------------------
(* Progress: frames that are awaited complete, and dropped handles move up. *)

Submitted(s) == Queries(s) \subseteq available \union unwritten
Written(s) == StartWritten(s) /\ EndWritten(s)
Dropped == RangeOf(expiring) \union Reaped

\* A handle that is dropped with its flag set is one the GPU writes or has
\* written: the reaper waits for no query that nobody writes.
DroppedInv ==
  /\ submitPc = "building" => RangeOf(handles) \intersect wasSubmitted = {}
  /\ \A s \in Dropped : s \in wasSubmitted => Submitted(s)

\* Only a slot without an owner has its queries reset.
LEMMA ResetFacts ==
  ASSUME IInv, NEW u \in Slot, Acquire(u)
  PROVE  u \notin Leased /\ u \notin SpansSlots(work)
<1>1. CASE free # {}
  <2>1. u \in free
    BY <1>1 DEF Acquire, TakeFree
  <2> QED
    BY <2>1 DEF IInv, Apart, Leased, Reaped
<1>2. CASE free = {}
  <2>1. u[1] \notin chunks
    BY <1>2 DEF Acquire, TakeFree
  <2>2. u \notin Leased
    BY <2>1 DEF IInv, Allocated
  <2> QED
    BY <2>2 DEF Leased
<1> QED
  BY <1>1, <1>2

\* What is known of the queries of a slot stays known as long as it has an owner.
LEMMA QueriesStay ==
  ASSUME IInv, [Next]_vars, NEW s \in Slot, s \in Leased
  PROVE  /\ Submitted(s) => Submitted(s)'
         /\ StartWritten(s) => StartWritten(s)'
         /\ EndWritten(s) => EndWritten(s)'
<1>1. ASSUME NEW u \in Slot, Acquire(u)
      PROVE  Queries(s) \intersect available \subseteq available' /\ unwritten' = unwritten
  <2>1. u # s
    BY <1>1, ResetFacts
  <2>2. Queries(u) \intersect Queries(s) = {}
    BY <2>1 DEF Queries
  <2> QED
    BY <1>1, <2>2 DEF Acquire
<1>2. ASSUME NEW u \in Slot, GpuWrite(u)
      PROVE  available \subseteq available' /\ unwritten \subseteq unwritten' \union available'
  BY <1>2 DEF GpuWrite
<1>4. CASE \/ SubmitFail \/ Notify \/ Pacer \/ Reaper \/ Destroyer \/ Terminated
           \/ (\E u \in Slot : GpuRetire(u)) \/ UNCHANGED vars
  <2>1. available' = available /\ unwritten' = unwritten
    BY <1>4 DEF SubmitFail, Notify, Pacer, Take, EndAwait, BeginClear, BeginAwait, Clear,
       Reaper, ReaperPop, ReaperRecycle, ReaperExit, Destroyer, DestroyPacer,
       DestroyTracker, DestroyChunks, Terminated, GpuRetire, gpuVars, vars
  <2> QED
    BY <2>1 DEF Submitted, StartWritten, EndWritten
<1>5. CASE \E u \in Slot : Acquire(u)
  <2>1. <<s, 0>> \in Queries(s) /\ <<s, 1>> \in Queries(s)
    BY DEF Queries
  <2> QED
    BY <1>1, <1>5, <2>1 DEF Submitted, StartWritten, EndWritten
<1>6. CASE \E u \in Slot : GpuWrite(u)
  <2>1. available \subseteq available' /\ unwritten \subseteq unwritten' \union available'
    BY <1>2, <1>6
  <2> QED
    BY <2>1 DEF Submitted, StartWritten, EndWritten
<1>7. CASE SubmitOk
  <2>1. available' = available /\ unwritten \subseteq unwritten'
    BY <1>7 DEF SubmitOk
  <2> QED
    BY <2>1 DEF Submitted, StartWritten, EndWritten
<1> QED
  BY <1>4, <1>5, <1>6, <1>7 DEF Next, Submitter, Gpu

\* What is dropped in a step was dropped before or had another owner, and only
\* the submitting thread sets the flag.
LEMMA DroppedStep ==
  ASSUME IInv, DroppedInv, [Next]_vars
  PROVE  DroppedInv'
<1>0. TypeOK /\ Life /\ Apart /\ Single /\ Allocated /\ Queried
  BY DEF IInv
<1>a. \A s \in SpanSlots(span) \union SpansSlots(work) : Submitted(s) /\ s \in wasSubmitted
  BY <1>0 DEF Queried, OnlySubmittedWorkIsTracked, Submitted
<1>b. Dropped \union SpanSlots(span) \union SpansSlots(work) \subseteq Leased
  BY DEF Dropped, Leased, Reaped
<1>c. Leased \subseteq Slot
  BY <1>0 DEF Allocated
\* Where the flags only fall and what is dropped was dropped, tracked or held.
<1>1. ASSUME wasSubmitted' \subseteq wasSubmitted,
             Dropped' \subseteq Dropped \union SpanSlots(span) \union SpansSlots(work)
      PROVE  \A s \in Dropped' : s \in wasSubmitted' => Submitted(s)'
  BY <1>a, <1>b, <1>c, <1>1, QueriesStay DEF DroppedInv
<1>2. ASSUME NEW u \in Slot, Acquire(u)
      PROVE  DroppedInv'
  <2>1. /\ submitPc = "building" /\ submitPc' = "building"
        /\ handles' = Append(handles, u) /\ handles \in Seq(Slot)
        /\ wasSubmitted' = wasSubmitted \ {u}
        /\ expiring' = expiring /\ reaping' = reaping
    BY <1>0, <1>2 DEF Acquire, TypeOK
  <2>2. RangeOf(handles') = RangeOf(handles) \union {u}
    BY <2>1, AppendFacts
  <2>3. Dropped' = Dropped
    BY <2>1 DEF Dropped, Reaped
  <2> QED
    BY <1>1, <2>1, <2>2, <2>3 DEF DroppedInv
<1>3. CASE SubmitFail
  <2>1. /\ submitPc = "building" /\ wasSubmitted' = wasSubmitted /\ reaping' = reaping
        /\ expiring' = expiring \o handles /\ handles' = <<>>
        /\ expiring \in Seq(Slot) /\ handles \in Seq(Slot)
    BY <1>0, <1>3 DEF SubmitFail, TypeOK, Life
  <2>2. /\ RangeOf(expiring') = RangeOf(expiring) \union RangeOf(handles)
        /\ RangeOf(handles') = {}
    <3>1. RangeOf(expiring \o handles) = RangeOf(expiring) \union RangeOf(handles)
      BY <2>1, ConcatFacts
    <3>2. RangeOf(<<>>) = {}
      BY DEF RangeOf
    <3> QED
      BY <2>1, <3>1, <3>2
  <2>3. \A s \in Dropped' : s \in wasSubmitted' => s \in Dropped
    BY <2>1, <2>2 DEF Dropped, Reaped, DroppedInv
  <2> QED
    BY <1>b, <1>c, <2>1, <2>2, <2>3, QueriesStay DEF DroppedInv
<1>4. CASE Notify
  <2> DEFINE h == Head(handles)
  <2>1. /\ handles # <<>> /\ handles \in Seq(Slot) /\ h \in RangeOf(handles)
        /\ submitPc = "notifying"
    BY <1>0, <1>4 DEF Notify, Life, TypeOK, RangeOf
  <2>2. /\ wasSubmitted' = wasSubmitted \union {h} /\ reaping' = reaping
        /\ handles' = Tail(handles)
        /\ Tail(handles) # <<>> => submitPc' = "notifying"
    BY <1>4 DEF Notify
  <2>3. expiring' = expiring \/ (span # NoSpan /\ expiring' = Append(expiring, span.tail)
                                   /\ span.tail # NoSlot)
    BY <1>4 DEF Notify, Track
  <2>4. RangeOf(expiring') \subseteq RangeOf(expiring) \union SpanSlots(span)
    <3>1. CASE expiring' = expiring
      BY <3>1
    <3>2. CASE span # NoSpan /\ expiring' = Append(expiring, span.tail) /\ span.tail # NoSlot
      <4>1. span.tail \in Slot /\ span.tail \in SpanSlots(span) /\ expiring \in Seq(Slot)
        BY <1>0, <3>2 DEF TypeOK, Span, SpanSlots
      <4> QED
        BY <3>2, <4>1, AppendFacts
    <3> QED
      BY <2>3, <3>1, <3>2
  <2>5. \A s \in Dropped' : s \in Dropped \union SpanSlots(span) /\ s # h
    <3>1. h \notin Dropped \union SpanSlots(span)
      BY <1>0, <2>1 DEF Apart, Dropped, Reaped
    <3> QED
      BY <2>2, <2>4, <3>1 DEF Dropped, Reaped
  <2>6. submitPc' = "building" => RangeOf(handles') = {}
    BY <2>2 DEF RangeOf
  <2>7. \A s \in Dropped' : s \in wasSubmitted' => Submitted(s)'
    BY <1>a, <1>b, <1>c, <2>2, <2>5, QueriesStay DEF DroppedInv
  <2> QED
    BY <2>6, <2>7 DEF DroppedInv
<1>5. ASSUME NEW w \in work, expiring' = expiring \o Released(w), reaping' = reaping,
             wasSubmitted' = wasSubmitted
      PROVE  \A s \in Dropped' : s \in wasSubmitted' => Submitted(s)'
  <2>1. w \in Span /\ w.head # w.tail /\ expiring \in Seq(Slot)
    <3>1. work \subseteq Span /\ expiring \in Seq(Slot)
      BY <1>0 DEF TypeOK
    <3>2. w # NoSpan
      BY <3>1, SpanFacts
    <3> QED
      BY <1>0, <3>1, <3>2 DEF Single
  <2>2. /\ Released(w) \in Seq(Slot) /\ RangeOf(Released(w)) = SpanSlots(w)
    BY <2>1, ReleasedFacts
  <2>3. RangeOf(expiring') = RangeOf(expiring) \union SpanSlots(w)
    BY <1>5, <2>1, <2>2, ConcatFacts
  <2>4. SpanSlots(w) \subseteq SpansSlots(work)
    BY DEF SpansSlots
  <2> QED
    BY <1>1, <1>5, <2>3, <2>4 DEF Dropped, Reaped
<1>6. CASE EndAwait
  <2>1. /\ pacing \in work /\ expiring' = expiring \o Released(pacing)
        /\ reaping' = reaping /\ wasSubmitted' = wasSubmitted
        /\ handles' = handles /\ submitPc' = submitPc
    BY <1>0, <1>6 DEF EndAwait, TypeOK
  <2> QED
    BY <1>5, <2>1 DEF DroppedInv
<1>7. ASSUME NEW w \in work, Clear(w)
      PROVE  DroppedInv'
  <2>1. /\ expiring' = expiring \o Released(w) /\ reaping' = reaping
        /\ wasSubmitted' = wasSubmitted /\ handles' = handles /\ submitPc' = submitPc
    BY <1>7 DEF Clear
  <2> QED
    BY <1>5, <2>1 DEF DroppedInv
<1>8. CASE DestroyTracker
  <2>1. /\ wasSubmitted' = wasSubmitted /\ handles' = handles /\ submitPc' = submitPc
        /\ reaping' = reaping
        /\ expiring' = IF span = NoSpan THEN expiring ELSE expiring \o Released(span)
    BY <1>8 DEF DestroyTracker
  <2>2. RangeOf(expiring') \subseteq RangeOf(expiring) \union SpanSlots(span)
    <3>1. CASE span = NoSpan
      BY <2>1, <3>1
    <3>2. CASE span # NoSpan
      <4>1. span \in Span /\ span.head # span.tail /\ expiring \in Seq(Slot)
        BY <1>0, <3>2 DEF TypeOK, Single
      <4>2. Released(span) \in Seq(Slot) /\ RangeOf(Released(span)) = SpanSlots(span)
        BY <4>1, ReleasedFacts
      <4> QED
        BY <2>1, <3>2, <4>1, <4>2, ConcatFacts
    <3> QED
      BY <3>1, <3>2
  <2>3. Dropped' \subseteq Dropped \union SpanSlots(span)
    BY <2>1, <2>2 DEF Dropped, Reaped
  <2> QED
    BY <1>1, <2>1, <2>3 DEF DroppedInv
<1>9. CASE ReaperPop
  <2>1. /\ expiring # <<>> /\ expiring \in Seq(Slot) /\ reaping' = Head(expiring)
        /\ expiring' = Tail(expiring) /\ wasSubmitted' = wasSubmitted
        /\ handles' = handles /\ submitPc' = submitPc
    BY <1>0, <1>9 DEF ReaperPop, TypeOK, clientVars
  <2>2. Dropped' \subseteq Dropped
    BY <2>1 DEF Dropped, Reaped, RangeOf
  <2> QED
    BY <1>1, <2>1, <2>2 DEF DroppedInv
<1>10. CASE \/ SubmitOk \/ Take \/ BeginClear \/ (\E w \in work : BeginAwait(w))
            \/ ReaperRecycle \/ ReaperExit \/ DestroyPacer \/ DestroyChunks \/ Terminated
            \/ Gpu \/ UNCHANGED vars
  <2>1. /\ wasSubmitted' = wasSubmitted /\ handles' = handles /\ expiring' = expiring
        /\ submitPc' = "building" => submitPc = "building"
        /\ reaping' = reaping \/ reaping' = NoSlot
    BY <1>10 DEF SubmitOk, Take, BeginClear, BeginAwait, ReaperRecycle, ReaperExit,
       DestroyPacer, DestroyChunks, Terminated, Gpu, GpuWrite, GpuRetire, clientVars,
       poolVars, vars
  <2>2. Dropped' \subseteq Dropped
    BY <2>1 DEF Dropped, Reaped
  <2> QED
    BY <1>1, <2>1, <2>2 DEF DroppedInv
<1> QED
  BY <1>2, <1>3, <1>4, <1>6, <1>7, <1>8, <1>9, <1>10
  DEF Next, Submitter, Pacer, Reaper, Destroyer

\* A handle that is dropped with its flag set is one that was submitted.
THEOREM DroppedWorkIsWritten == Spec => []DroppedInv
<1>1. Init => DroppedInv
  BY DEF Init, DroppedInv, Dropped, Reaped, RangeOf
<1>2. IInv /\ DroppedInv /\ [Next]_vars => DroppedInv'
  BY DroppedStep
<1> QED
  BY <1>1, <1>2, Invariant, PTL DEF Spec

\* Fairness with the guards written out: a query the GPU can write for good is
\* written, and so on for the waits that are over and for the reaper.
CanWrite(s) ==
  \E offset \in {0, 1} :
    <<s, offset>> \in unwritten /\ (offset = 1 => StartWritten(s))
LastOf(w) == IF w.tail = NoSlot THEN w.head ELSE w.tail
CanEnd == pacing # NoSpan /\ StartWritten(pacing.head) /\ EndWritten(LastOf(pacing))
CanReap ==
  \/ reaping # NoSlot /\ (reaping \in wasSubmitted => EndWritten(reaping))
  \/ reaping = NoSlot /\ expiring # <<>>
  \/ reaping = NoSlot /\ expiring = <<>> /\ phase = "stopping" /\ ~reaperDone

WritesGoOn(s) == []CanWrite(s) => <><<GpuWrite(s)>>_vars
GpuGoesOn == [](\A u \in Slot : WritesGoOn(u))
AwaitsGoOn == []([]CanEnd => <><<EndAwait>>_vars)
ReaperGoesOn == []([]CanReap => <><<Reaper>>_vars)

Behaviour == [](IInv /\ DroppedInv) /\ [][Next]_vars

\* A slot that waits for the GPU, before and after its first query.
Owed(s) == s \in Leased /\ Submitted(s)
NoStart(s) == Owed(s) /\ ~StartWritten(s)
NoEnd(s) == Owed(s) /\ StartWritten(s) /\ ~EndWritten(s)
Settled(s) == s \notin Leased \/ Written(s)

\* The next query of a submitted slot can be written, and its write is the next
\* thing that happens to it.
LEMMA WriteFacts ==
  ASSUME NEW s \in Slot
  PROVE  /\ IInv => (NoStart(s) => CanWrite(s)) /\ (NoEnd(s) => CanWrite(s))
         /\ IInv /\ [Next]_vars => (NoStart(s) => NoStart(s)' \/ NoEnd(s)' \/ Settled(s)')
         /\ IInv /\ [Next]_vars => (NoEnd(s) => NoEnd(s)' \/ Settled(s)')
         /\ IInv /\ <<GpuWrite(s)>>_vars => (NoStart(s) => ~NoStart(s)')
         /\ IInv /\ <<GpuWrite(s)>>_vars => (NoEnd(s) => ~NoEnd(s)')
<1>0. <<s, 0>> \in Queries(s) /\ <<s, 1>> \in Queries(s)
  BY DEF Queries
<1>1. IInv => (NoStart(s) => CanWrite(s)) /\ (NoEnd(s) => CanWrite(s))
  BY <1>0 DEF NoStart, NoEnd, Owed, Submitted, CanWrite, StartWritten, EndWritten
<1>2. IInv /\ [Next]_vars => (NoStart(s) => NoStart(s)' \/ NoEnd(s)' \/ Settled(s)')
  BY QueriesStay DEF NoStart, NoEnd, Owed, Settled, Written
<1>3. IInv /\ [Next]_vars => (NoEnd(s) => NoEnd(s)' \/ Settled(s)')
  BY QueriesStay DEF NoEnd, Owed, Settled, Written
<1>4. ASSUME IInv, GpuWrite(s)
      PROVE  (NoStart(s) => ~NoStart(s)') /\ (NoEnd(s) => ~NoEnd(s)')
  <2>1. PICK offset \in {0, 1} :
          /\ <<s, offset>> \in unwritten
          /\ offset = 1 => StartWritten(s)
          /\ available' = available \union {<<s, offset>>}
    BY <1>4 DEF GpuWrite
  <2>2. CASE offset = 0
    <3>1. <<s, 0>> \notin available /\ <<s, 0>> \in available'
      BY <2>1, <2>2, <1>4 DEF IInv, Queried
    <3> QED
      BY <3>1 DEF NoStart, NoEnd, StartWritten
  <2>3. CASE offset = 1
    <3>1. StartWritten(s) /\ <<s, 1>> \in available'
      BY <2>1, <2>3
    <3> QED
      BY <3>1 DEF NoStart, NoEnd, EndWritten
  <2> QED
    BY <2>1, <2>2, <2>3
<1> QED
  BY <1>1, <1>2, <1>3, <1>4

\* The GPU writes the queries of a submitted slot that keeps its owner.
LEMMA SlotsAreWritten ==
  ASSUME NEW s \in Slot
  PROVE  Behaviour /\ GpuGoesOn => (Owed(s) ~> Settled(s))
<1>1. (\A u \in Slot : WritesGoOn(u)) => WritesGoOn(s)
  OBVIOUS
<1>2. IInv => (NoStart(s) => CanWrite(s))
  BY WriteFacts
<1>3. IInv /\ [Next]_vars => (NoStart(s) => NoStart(s)' \/ NoEnd(s)' \/ Settled(s)')
  BY WriteFacts
<1>4. IInv /\ <<GpuWrite(s)>>_vars => (NoStart(s) => ~NoStart(s)')
  BY WriteFacts
<1>5. Behaviour /\ GpuGoesOn => (NoStart(s) ~> (NoEnd(s) \/ Settled(s)))
  BY <1>1, <1>2, <1>3, <1>4, PTL DEF GpuGoesOn, WritesGoOn, Behaviour
<1>6. IInv => (NoEnd(s) => CanWrite(s))
  BY WriteFacts
<1>7. IInv /\ [Next]_vars => (NoEnd(s) => NoEnd(s)' \/ Settled(s)')
  BY WriteFacts
<1>8. IInv /\ <<GpuWrite(s)>>_vars => (NoEnd(s) => ~NoEnd(s)')
  BY WriteFacts
<1>9. Behaviour /\ GpuGoesOn => (NoEnd(s) ~> Settled(s))
  BY <1>1, <1>6, <1>7, <1>8, PTL DEF GpuGoesOn, WritesGoOn, Behaviour
<1>10. Owed(s) => NoStart(s) \/ NoEnd(s) \/ Settled(s)
  BY DEF NoStart, NoEnd, Settled, Written
<1> QED
  BY <1>5, <1>9, <1>10, PTL

\* The present waits for the first and the last slot of a span.
HasSeen(w, s) == pacing = w /\ Written(s)
IsSeen(w, s) == pacing = w ~> (HasSeen(w, s) \/ pacing = NoSpan)

\* A wait is for submitted slots, which keep their owner until it is over.
LEMMA WaitFacts ==
  ASSUME NEW w \in Span, NEW s \in SpanSlots(w)
  PROVE  /\ s \in Slot
         /\ IInv => (pacing = w => Owed(s))
         /\ IInv /\ [Next]_vars => (pacing = w => (pacing = w)' \/ (pacing = NoSpan)')
         /\ IInv /\ [Next]_vars => (HasSeen(w, s) => HasSeen(w, s)' \/ (pacing = NoSpan)')
<1>1. s \in Slot
  BY DEF SpanSlots, Span
<1>2. ASSUME IInv, pacing = w
      PROVE  Owed(s)
  <2>1. w \in work
    BY <1>2, SpanFacts DEF IInv, TypeOK
  <2>2. s \in SpansSlots(work)
    BY <2>1 DEF SpansSlots
  <2> QED
    BY <1>2, <2>2 DEF IInv, Queried, OnlySubmittedWorkIsTracked, Owed, Submitted, Leased
<1>3. IInv /\ [Next]_vars => (pacing = w => (pacing = w)' \/ (pacing = NoSpan)')
  <2> SUFFICES ASSUME IInv, [Next]_vars, pacing = w
               PROVE  pacing' = w \/ pacing' = NoSpan
    OBVIOUS
  <2>1. pacing # NoSpan
    BY SpanFacts
  <2>2. CASE Submitter \/ Reaper \/ Destroyer \/ Gpu \/ Terminated \/ UNCHANGED vars
    BY <2>2 DEF Submitter, Acquire, SubmitOk, SubmitFail, Notify, Reaper, ReaperPop,
       ReaperRecycle, ReaperExit, Destroyer, DestroyPacer, DestroyTracker, DestroyChunks,
       Gpu, GpuWrite, GpuRetire, Terminated, clientVars, vars
  <2>3. CASE Pacer
    BY <2>1, <2>3 DEF Pacer, Take, EndAwait, BeginClear, BeginAwait, Clear
  <2> QED
    BY <2>2, <2>3 DEF Next
<1>4. IInv /\ [Next]_vars => (HasSeen(w, s) => HasSeen(w, s)' \/ (pacing = NoSpan)')
  BY <1>1, <1>2, <1>3, QueriesStay DEF HasSeen, Written, Owed
<1> QED
  BY <1>1, <1>2, <1>3, <1>4

\* Each slot that is waited for is written, or the wait is over before.
LEMMA SlotIsSeen ==
  ASSUME NEW w \in Span, NEW s \in SpanSlots(w)
  PROVE  Behaviour /\ GpuGoesOn => IsSeen(w, s)
<1>1. s \in Slot
  BY WaitFacts
<1>2. Behaviour /\ GpuGoesOn => (Owed(s) ~> Settled(s))
  BY <1>1, SlotsAreWritten
<1>3. IInv => (pacing = w => Owed(s))
  BY WaitFacts
<1>4. IInv /\ [Next]_vars => (pacing = w => (pacing = w)' \/ (pacing = NoSpan)')
  BY WaitFacts
<1>5. IInv => (pacing = w /\ Settled(s) => HasSeen(w, s))
  BY <1>3 DEF Settled, HasSeen, Owed
<1> QED
  BY <1>2, <1>3, <1>4, <1>5, PTL DEF Behaviour, IsSeen

\* When both have been written, the wait can end and is the only thing that can.
LEMMA WaitEnds ==
  ASSUME NEW w \in Span
  PROVE  Behaviour /\ GpuGoesOn /\ AwaitsGoOn => (pacing = w ~> pacing = NoSpan)
<1> DEFINE h == w.head
           l == LastOf(w)
           Both == HasSeen(w, h) /\ HasSeen(w, l)
           Over == pacing = NoSpan
<1>0. h \in SpanSlots(w) /\ l \in SpanSlots(w)
  BY PoolAssumption DEF Span, SpanSlots, LastOf
<1>1. Behaviour /\ GpuGoesOn => IsSeen(w, h)
  <2> HIDE DEF h
  <2> QED
    BY <1>0, SlotIsSeen
<1>2. Behaviour /\ GpuGoesOn => IsSeen(w, l)
  <2> HIDE DEF l
  <2> QED
    BY <1>0, SlotIsSeen
<1>3. IInv /\ [Next]_vars => (HasSeen(w, h) => HasSeen(w, h)' \/ Over')
  <2> HIDE DEF h
  <2> QED
    BY <1>0, WaitFacts
<1>4. IInv /\ [Next]_vars => (HasSeen(w, l) => HasSeen(w, l)' \/ Over')
  <2> HIDE DEF l
  <2> QED
    BY <1>0, WaitFacts
<1>5. Both => CanEnd /\ pacing = w /\ ~Over
  <2>1. w # NoSpan
    BY SpanFacts
  <2> QED
    BY <2>1 DEF HasSeen, Written, CanEnd
<1>6. IInv /\ <<EndAwait>>_vars => Over'
  BY DEF EndAwait
<1> HIDE DEF h, l, Over
<1>7. HasSeen(w, h) => pacing = w
  BY DEF HasSeen
<1>8. Behaviour /\ GpuGoesOn => (pacing = w ~> (Both \/ Over))
  BY <1>1, <1>2, <1>3, <1>4, <1>7, PTL DEF Behaviour, IsSeen, Over
<1>9. Behaviour /\ AwaitsGoOn => (Both ~> Over)
  BY <1>3, <1>4, <1>5, <1>6, PTL DEF Behaviour, AwaitsGoOn
<1>10. Behaviour /\ GpuGoesOn /\ AwaitsGoOn => (pacing = w ~> Over)
  BY <1>8, <1>9, PTL
<1> QED
  BY <1>10 DEF Over

\* The present that waits for a frame returns, whatever the other threads do.
THEOREM AwaitsComplete ==
  Spec /\ GpuGoesOn /\ AwaitsGoOn => AwaitedFrameCompletes
<1> DEFINE P == Behaviour /\ GpuGoesOn /\ AwaitsGoOn
           Over == <>(pacing = NoSpan)
<1>1. ASSUME NEW w \in Span
      PROVE  P => (pacing = w => Over)
  <2>1. P => (pacing = w ~> pacing = NoSpan)
    BY WaitEnds
  <2> QED
    BY <2>1, PTL
<1>2. P => (pacing \in Span => Over)
  BY <1>1
<1>3. IInv => (pacing # NoSpan => pacing \in Span)
  BY DEF IInv, TypeOK
<1>4. Spec => Behaviour
  BY Invariant, DroppedWorkIsWritten, PTL DEF Behaviour, Spec
<1> QED
  BY <1>2, <1>3, <1>4, PTL DEF Behaviour, GpuGoesOn, AwaitsGoOn, AwaitedFrameCompletes

\* The handle at a place of the queue of dropped ones, and what the reaper holds.
At(n, s) == n \in DOMAIN expiring /\ expiring[n] = s
Reaps(s) == reaping = s
CanRecycle(s) == reaping = s /\ (s \in wasSubmitted => EndWritten(s))
Back(s) == reaping = NoSlot /\ s \in free

\* The handle the reaper holds is its own until the index is back.
LEMMA ReapFacts ==
  ASSUME NEW s \in Slot
  PROVE  /\ IInv /\ DroppedInv => (Reaps(s) => Owed(s) \/ CanRecycle(s))
         /\ IInv => (Reaps(s) /\ Settled(s) => CanRecycle(s))
         /\ IInv /\ [Next]_vars => (Reaps(s) => Reaps(s)' \/ Back(s)')
         /\ IInv /\ [Next]_vars => (CanRecycle(s) => CanRecycle(s)' \/ Back(s)')
         /\ IInv /\ <<Reaper>>_vars => (CanRecycle(s) => ~CanRecycle(s)')
<1>0. s # NoSlot
  BY PoolAssumption
<1>1. IInv => (Reaps(s) => s \in Leased /\ s \in Reaped)
  BY <1>0 DEF Reaps, Leased, Reaped
<1>2. IInv /\ DroppedInv => (Reaps(s) => Owed(s) \/ CanRecycle(s))
  BY <1>1 DEF Owed, CanRecycle, DroppedInv, Dropped, Reaps
<1>3. IInv => (Reaps(s) /\ Settled(s) => CanRecycle(s))
  BY <1>1 DEF Settled, CanRecycle, Written, Reaps
<1>4. ASSUME IInv, [Next]_vars, Reaps(s)
      PROVE  \/ Reaps(s)' /\ (s \in wasSubmitted' <=> s \in wasSubmitted)
             \/ Back(s)'
  <2>1. reaping = s /\ reaping # NoSlot
    BY <1>0, <1>4 DEF Reaps
  <2>2. CASE Notify
    <3>1. Head(handles) \in RangeOf(handles)
      BY <1>4, <2>2 DEF Notify, RangeOf, IInv, Life, TypeOK
    <3>2. s # Head(handles)
      BY <1>1, <1>4, <3>1 DEF IInv, Apart
    <3> QED
      BY <2>2, <3>2, <1>4 DEF Notify, Reaps
  <2>3. ASSUME NEW u \in Slot, Acquire(u)
        PROVE  Reaps(s)' /\ (s \in wasSubmitted' <=> s \in wasSubmitted)
    <3>1. u # s
      BY <1>1, <1>4, <2>3, ResetFacts
    <3> QED
      BY <1>4, <2>3, <3>1 DEF Acquire, Reaps
  <2>4. CASE ReaperRecycle
    BY <2>1, <2>4 DEF ReaperRecycle, Back
  <2>5. CASE \/ SubmitOk \/ SubmitFail \/ Pacer \/ ReaperExit \/ Destroyer \/ Gpu
             \/ Terminated \/ UNCHANGED vars
    BY <1>4, <2>5 DEF SubmitOk, SubmitFail, Pacer, Take, EndAwait, BeginClear, BeginAwait,
       Clear, ReaperExit, Destroyer, DestroyPacer, DestroyTracker, DestroyChunks, Gpu,
       GpuWrite, GpuRetire, Terminated, clientVars, poolVars, vars, Reaps
  <2>6. CASE ReaperPop
    BY <2>1, <2>6 DEF ReaperPop
  <2> QED
    BY <1>4, <2>2, <2>3, <2>4, <2>5, <2>6 DEF Next, Submitter, Reaper
<1>5. IInv /\ [Next]_vars => (Reaps(s) => Reaps(s)' \/ Back(s)')
  BY <1>4
<1>6. IInv /\ [Next]_vars => (CanRecycle(s) => CanRecycle(s)' \/ Back(s)')
  <2> SUFFICES ASSUME IInv, [Next]_vars, CanRecycle(s), ~Back(s)'
               PROVE  CanRecycle(s)'
    OBVIOUS
  <2>1. Reaps(s) /\ s \in Leased
    BY <1>1 DEF CanRecycle, Reaps
  <2>2. Reaps(s)' /\ (s \in wasSubmitted' <=> s \in wasSubmitted)
    BY <1>4, <2>1
  <2>3. EndWritten(s) => EndWritten(s)'
    BY <2>1, QueriesStay
  <2> QED
    BY <2>2, <2>3 DEF CanRecycle, Reaps
<1>7. IInv /\ <<Reaper>>_vars => (CanRecycle(s) => ~CanRecycle(s)')
  BY <1>0 DEF Reaper, ReaperPop, ReaperRecycle, ReaperExit, CanRecycle
<1> QED
  BY <1>2, <1>3, <1>5, <1>6, <1>7

\* What the reaper has taken goes back to its chunk.
LEMMA ReapedIsRecycled ==
  ASSUME NEW s \in Slot
  PROVE  Behaviour /\ GpuGoesOn /\ ReaperGoesOn => (Reaps(s) ~> Back(s))
<1>1. Behaviour /\ GpuGoesOn => (Owed(s) ~> Settled(s))
  BY SlotsAreWritten
<1>2. IInv /\ DroppedInv => (Reaps(s) => Owed(s) \/ CanRecycle(s))
  BY ReapFacts
<1>3. IInv => (Reaps(s) /\ Settled(s) => CanRecycle(s))
  BY ReapFacts
<1>4. IInv /\ [Next]_vars => (Reaps(s) => Reaps(s)' \/ Back(s)')
  BY ReapFacts
<1>5. IInv /\ [Next]_vars => (CanRecycle(s) => CanRecycle(s)' \/ Back(s)')
  BY ReapFacts
<1>6. IInv /\ <<Reaper>>_vars => (CanRecycle(s) => ~CanRecycle(s)')
  BY ReapFacts
<1>7. CanRecycle(s) => CanReap
  BY PoolAssumption DEF CanRecycle, CanReap
<1>8. Behaviour /\ ReaperGoesOn => (CanRecycle(s) ~> Back(s))
  BY <1>5, <1>6, <1>7, PTL DEF Behaviour, ReaperGoesOn
<1>9. Behaviour /\ GpuGoesOn => (Reaps(s) ~> (CanRecycle(s) \/ Back(s)))
  BY <1>1, <1>2, <1>3, <1>4, PTL DEF Behaviour
<1> QED
  BY <1>8, <1>9, PTL

\* The reaper is between two handles again and again.
LEMMA ReaperComesBack ==
  Behaviour /\ GpuGoesOn /\ ReaperGoesOn => []<>(reaping = NoSlot)
<1> DEFINE P == Behaviour /\ GpuGoesOn /\ ReaperGoesOn
           Rests == <>(reaping = NoSlot)
<1>1. ASSUME NEW s \in Slot
      PROVE  P => (reaping = s => Rests)
  <2>1. P => (Reaps(s) ~> Back(s))
    BY ReapedIsRecycled
  <2>2. Back(s) => reaping = NoSlot
    BY DEF Back
  <2>3. reaping = s => Reaps(s)
    BY DEF Reaps
  <2> QED
    BY <2>1, <2>2, <2>3, PTL
<1>2. P => (reaping \in Slot => Rests)
  BY <1>1
<1>3. IInv => reaping \in Slot \/ reaping = NoSlot
  BY DEF IInv, TypeOK
<1> QED
  BY <1>2, <1>3, PTL DEF Behaviour, GpuGoesOn, ReaperGoesOn

\* At place n the next thing is place n - 1, and after the first the reaper.
MovedUp(n, s) == IF n = 1 THEN reaping = s ELSE At(n - 1, s)

\* The queue is first in, first out: only the reaper takes a handle out, and
\* then all others move up by one.
LEMMA QueueFacts ==
  ASSUME NEW n \in Nat \ {0}, NEW s \in Slot, IInv, [Next]_vars, At(n, s)
  PROVE  /\ ReaperPop => MovedUp(n, s)'
         /\ \/ MovedUp(n, s)'
            \/ At(n, s)' /\ (reaping = NoSlot => reaping' = NoSlot)
<1> DEFINE Stays == At(n, s)' /\ (reaping = NoSlot => reaping' = NoSlot)
<1>0. expiring \in Seq(Slot) /\ handles \in Seq(Slot) /\ n \in 1..Len(expiring) /\ expiring[n] = s
  BY DEF IInv, TypeOK, At
<1>1. ASSUME NEW q \in Seq(Slot), expiring' = expiring \o q
      PROVE  At(n, s)'
  BY <1>0, <1>1 DEF At
<1>2. ASSUME ReaperPop
      PROVE  MovedUp(n, s)'
  <2>1. reaping' = Head(expiring) /\ expiring' = Tail(expiring)
    BY <1>2 DEF ReaperPop
  <2>2. CASE n = 1
    BY <1>0, <2>1, <2>2 DEF MovedUp
  <2>3. CASE n # 1
    <3>1. n - 1 \in 1..Len(expiring) - 1 /\ Len(Tail(expiring)) = Len(expiring) - 1
      BY <1>0, <2>3
    <3>2. Tail(expiring)[n - 1] = expiring[n]
      BY <1>0, <3>1
    <3> QED
      BY <1>0, <2>1, <2>3, <3>1, <3>2 DEF MovedUp, At
  <2> QED
    BY <2>2, <2>3
<1>3. ASSUME SubmitFail PROVE Stays
  BY <1>0, <1>1, <1>3 DEF SubmitFail
<1>4. ASSUME NEW w \in Span, w.head # w.tail, expiring' = expiring \o Released(w)
      PROVE  At(n, s)'
  BY <1>1, <1>4, ReleasedFacts
<1>5. ASSUME NEW w \in work
      PROVE  w \in Span /\ w.head # w.tail
  <2>1. work \subseteq Span
    BY DEF IInv, TypeOK
  <2>2. w # NoSpan
    BY <2>1, SpanFacts
  <2> QED
    BY <2>1, <2>2 DEF IInv, Single
<1>6. ASSUME EndAwait PROVE Stays
  <2>1. pacing \in work /\ expiring' = expiring \o Released(pacing)
    BY <1>6 DEF EndAwait, IInv, TypeOK
  <2> QED
    BY <1>4, <1>5, <1>6, <2>1 DEF EndAwait
<1>7. ASSUME NEW w \in work, Clear(w)
      PROVE  Stays
  BY <1>4, <1>5, <1>7 DEF Clear
<1>8. ASSUME Notify PROVE Stays
  <2>1. expiring' = expiring \/ expiring' = Append(expiring, span.tail)
    BY <1>8 DEF Notify, Track
  <2> QED
    BY <1>0, <1>8, <2>1 DEF At, Notify
<1>9. ASSUME DestroyTracker PROVE Stays
  <2>1. CASE span = NoSpan
    BY <1>9, <2>1 DEF DestroyTracker, At
  <2>2. CASE span # NoSpan
    <3>1. span \in Span /\ span.head # span.tail
      BY <2>2 DEF IInv, TypeOK, Single
    <3> QED
      BY <1>4, <1>9, <2>2, <3>1 DEF DestroyTracker
  <2> QED
    BY <2>1, <2>2, <1>9 DEF DestroyTracker
<1>10. ASSUME \/ (\E u \in Slot : Acquire(u)) \/ SubmitOk \/ Take \/ BeginClear
               \/ (\E w \in work : BeginAwait(w)) \/ ReaperRecycle \/ ReaperExit
               \/ DestroyPacer \/ DestroyChunks \/ Gpu \/ Terminated \/ UNCHANGED vars
       PROVE  Stays
  <2>1. expiring' = expiring /\ (reaping' = reaping \/ reaping' = NoSlot)
    BY <1>10 DEF Acquire, SubmitOk, Take, BeginClear, BeginAwait, ReaperRecycle, ReaperExit,
       DestroyPacer, DestroyChunks, Gpu, GpuWrite, GpuRetire, Terminated, clientVars,
       poolVars, vars
  <2> QED
    BY <2>1 DEF At
<1>11. ReaperPop \/ Stays
  BY <1>3, <1>6, <1>7, <1>8, <1>9, <1>10
  DEF Next, Submitter, Pacer, Reaper, Destroyer
<1> QED
  BY <1>2, <1>11

\* A handle moves up, and from the first place back to its chunk.
MovesUp(n, s) == At(n + 1, s) ~> At(n, s)
Recycles(s) == At(1, s) ~> (s \in free)

Advances(n, s) == At(n, s) ~> MovedUp(n, s)

\* The handle at a place leaves it, and is at the next one then.
LEMMA QueueMoves ==
  ASSUME NEW n \in Nat \ {0}, NEW s \in Slot
  PROVE  Behaviour /\ GpuGoesOn /\ ReaperGoesOn => Advances(n, s)
<1> DEFINE Idle == reaping = NoSlot
           Turn == At(n, s) /\ Idle
           Moved == MovedUp(n, s)
<1>1. Behaviour /\ GpuGoesOn /\ ReaperGoesOn => []<>Idle
  BY ReaperComesBack
<1>2. IInv /\ [Next]_vars => (At(n, s) => At(n, s)' \/ Moved')
  BY QueueFacts
<1>3. IInv /\ [Next]_vars => (Turn => Turn' \/ Moved')
  BY QueueFacts
<1>4. Turn => CanReap
  BY DEF At, CanReap
<1>5. IInv /\ <<Reaper>>_vars => (Turn => Moved')
  <2> SUFFICES ASSUME IInv, Reaper, Turn PROVE Moved'
    OBVIOUS
  <2>1. expiring # <<>>
    BY DEF At
  <2>2. ReaperPop
    BY <2>1 DEF Reaper, ReaperRecycle, ReaperExit
  <2>3. [Next]_vars
    BY DEF Next
  <2> QED
    BY <2>2, <2>3, QueueFacts
<1>6. At(n, s) /\ Idle => Turn
  OBVIOUS
<1> HIDE DEF Turn, Moved, Idle
<1>7. Behaviour /\ ReaperGoesOn => (Turn ~> Moved)
  BY <1>3, <1>4, <1>5, PTL DEF Behaviour, ReaperGoesOn
<1>8. Behaviour /\ GpuGoesOn /\ ReaperGoesOn => (At(n, s) ~> (Turn \/ Moved))
  BY <1>1, <1>2, <1>6, PTL DEF Behaviour
<1>9. Behaviour /\ GpuGoesOn /\ ReaperGoesOn => (At(n, s) ~> Moved)
  BY <1>7, <1>8, PTL
<1> QED
  BY <1>9 DEF Moved, Advances

\* A dropped handle moves up in the queue place by place, and from the first
\* place its index goes back: the reaper is never stuck, whatever is before it.
THEOREM HandlesMoveUp ==
  Spec /\ GpuGoesOn /\ ReaperGoesOn =>
    \A s \in Slot : Recycles(s) /\ \A n \in Nat \ {0} : MovesUp(n, s)
<1> DEFINE P == Behaviour /\ GpuGoesOn /\ ReaperGoesOn
<1>1. ASSUME NEW s \in Slot
      PROVE  P => Recycles(s)
  <2>1. P => Advances(1, s)
    BY QueueMoves
  <2>2. P => (Reaps(s) ~> Back(s))
    BY ReapedIsRecycled
  <2>3. (MovedUp(1, s) => Reaps(s)) /\ (Back(s) => s \in free)
    BY DEF MovedUp, Reaps, Back
  <2> QED
    BY <2>1, <2>2, <2>3, PTL DEF Advances, Recycles
<1>2. ASSUME NEW s \in Slot, NEW n \in Nat \ {0}
      PROVE  P => MovesUp(n, s)
  <2>1. n + 1 \in Nat \ {0} /\ n + 1 # 1 /\ (n + 1) - 1 = n
    OBVIOUS
  <2>2. P => Advances(n + 1, s)
    BY <2>1, QueueMoves
  <2>3. MovedUp(n + 1, s) => At(n, s)
    BY <2>1 DEF MovedUp
  <2> QED
    BY <2>2, <2>3, PTL DEF Advances, MovesUp
<1>3. Spec => Behaviour
  BY Invariant, DroppedWorkIsWritten, PTL DEF Behaviour, Spec
<1> QED
  BY <1>1, <1>2, <1>3

-----------------------------------------------------------------------------
(* A destruction that has begun: the pacer's spans are released one by one, *)
(* then the tracker's, the reaper frees what was dropped and leaves its     *)
(* loop, and the chunks go.  Progress is a number that falls.               *)

\* Fairness of the destroying thread, with the guards written out.
CanClear == clearing /\ work # {}
CanPart == phase = "noPacer" /\ ~clearing
CanFree == phase = "stopping" /\ reaperDone
DestructionGoesOn ==
  /\ []([]CanClear => <><<\E w \in work : Clear(w)>>_vars)
  /\ []([]CanPart => <><<DestroyTracker>>_vars)
  /\ []([]CanFree => <><<DestroyChunks>>_vars)

\* What the pacer holds is finite, and it clears only what it holds.
WorkInv == IsFiniteSet(work) /\ (clearing => work # {})

\* The steps the reaper has still to take for what was dropped.
ReaperLeft == 2 * Len(expiring) + (IF reaping = NoSlot THEN 0 ELSE 1)

\* The steps of the destruction: a span that is released is two handles at most,
\* each of which is two steps of the reaper.
Parting == phase \in {"noPacer", "stopping"}
Left ==
  CASE phase = "noPacer" -> 5 * Cardinality(work) + ReaperLeft + 7
    [] phase = "stopping" -> ReaperLeft + (IF reaperDone THEN 1 ELSE 2)
    [] OTHER -> 0

\* Only Take adds to it, one span at a time.
LEMMA WorkStep == IInv /\ WorkInv /\ [Next]_vars => WorkInv'
<1> SUFFICES ASSUME IInv, WorkInv, [Next]_vars PROVE WorkInv'
  OBVIOUS
<1>0. clearing => pacing = NoSpan
  BY DEF IInv, Life
<1>1. CASE Take
  <2>1. work' = work \union {span} /\ ~clearing'
    BY <1>1 DEF Take
  <2> QED
    BY <2>1, FS_AddElement DEF WorkInv
<1>2. CASE EndAwait
  <2>1. work' = work \ {pacing} /\ ~clearing'
    BY <1>0, <1>2 DEF EndAwait
  <2> QED
    BY <2>1, FS_RemoveElement DEF WorkInv
<1>3. ASSUME NEW w \in work, Clear(w) PROVE WorkInv'
  <2>1. work' = work \ {w} /\ (clearing' => work' # {})
    BY <1>3 DEF Clear
  <2> QED
    BY <2>1, FS_RemoveElement DEF WorkInv
<1>4. CASE BeginClear \/ DestroyPacer
  BY <1>4 DEF BeginClear, DestroyPacer, WorkInv
<1>5. CASE \/ Submitter \/ (\E w \in work : BeginAwait(w)) \/ Reaper \/ DestroyTracker
           \/ DestroyChunks \/ Gpu \/ Terminated \/ UNCHANGED vars
  <2>1. work' = work /\ clearing' = clearing
    BY <1>5 DEF Submitter, Acquire, SubmitOk, SubmitFail, Notify, BeginAwait, Reaper,
       ReaperPop, ReaperRecycle, ReaperExit, DestroyTracker, DestroyChunks, Gpu, GpuWrite,
       GpuRetire, Terminated, clientVars, vars
  <2> QED
    BY <2>1 DEF WorkInv
<1> QED
  BY <1>1, <1>2, <1>3, <1>4, <1>5 DEF Next, Pacer, Destroyer

\* The pacer's work is finite throughout.
LEMMA WorkIsFinite == Spec => []WorkInv
<1>1. Init => WorkInv
  BY FS_EmptySet DEF Init, WorkInv
<1> QED
  BY <1>1, WorkStep, Invariant, PTL DEF Spec

\* Releasing a span drops two handles at most.
LEMMA DropCount ==
  ASSUME NEW q \in Seq(Slot), NEW w \in Span, w.head # w.tail
  PROVE  q \o Released(w) \in Seq(Slot) /\ Len(q \o Released(w)) <= Len(q) + 2
<1>1. Released(w) \in Seq(Slot)
  BY ReleasedFacts
<1>2. Len(Released(w)) <= 2
  <2>1. Released(w) = <<w.head>> \/ Released(w) = <<w.tail, w.head>>
    BY DEF Released
  <2>2. Len(<<w.head>>) = 1 /\ Len(<<w.tail, w.head>>) = 2
    OBVIOUS
  <2>3. Len(Released(w)) = 1 \/ Len(Released(w)) = 2
    BY <2>1, <2>2, Zenon
  <2>4. \A k : k = 1 \/ k = 2 => k <= 2
    OBVIOUS
  <2> QED
    BY <2>3, <2>4, Zenon
<1> QED
  BY <1>1, <1>2

\* Each step of a destruction leaves fewer, and no other step more.
LEMMA PartingStep ==
  ASSUME IInv, WorkInv, Parting, [Next]_vars
  PROVE  /\ Left \in Nat
         /\ Parting' \/ phase' = "destroyed"
         /\ \/ Left' < Left
            \/ /\ Left' = Left /\ phase' = phase
               /\ clearing' = clearing /\ reaperDone' = reaperDone
               /\ reaping' = reaping
         /\ Reaper \/ (\E w \in work : Clear(w)) \/ DestroyTracker \/ DestroyChunks
              => Left' < Left
<1>0. /\ expiring \in Seq(Slot) /\ Len(expiring) \in Nat
      /\ Cardinality(work) \in Nat /\ IsFiniteSet(work)
      /\ handles = <<>> /\ pacing = NoSpan /\ submitPc # "notifying"
      /\ work \subseteq Span
  <2>1. submitPc # "notifying"
    BY DEF IInv, Life, Parting
  <2> QED
    BY <2>1, FS_CardinalityType DEF IInv, TypeOK, Life, Parting, WorkInv
<1>a. ReaperLeft \in Nat /\ Left \in Nat
  <2>1. ReaperLeft \in Nat
    BY <1>0 DEF ReaperLeft
  <2> QED
    BY <1>0, <2>1 DEF Left
<1> DEFINE Falls == (Parting' \/ phase' = "destroyed") /\ Left' < Left
           Stays == /\ Left' = Left /\ phase' = phase /\ clearing' = clearing
                    /\ reaperDone' = reaperDone /\ reaping' = reaping
<1>1. ASSUME NEW w \in work, Clear(w)
      PROVE  Falls
  <2>1. /\ work' = work \ {w} /\ expiring' = expiring \o Released(w)
        /\ reaping' = reaping /\ phase' = phase /\ clearing
    BY <1>1 DEF Clear
  <2>2. phase = "noPacer"
    BY <2>1 DEF IInv, Life, Parting
  <2>3. w \in Span /\ w.head # w.tail
    <3>1. w # NoSpan
      BY <1>0, SpanFacts
    <3> QED
      BY <1>0, <3>1 DEF IInv, Single
  <2>4. Len(expiring') \in Nat /\ Len(expiring') <= Len(expiring) + 2
    BY <1>0, <2>1, <2>3, DropCount
  <2>5. Cardinality(work') = Cardinality(work) - 1
    BY <1>0, <2>1, FS_RemoveElement
  <2>6. ReaperLeft' \in Nat /\ ReaperLeft' <= ReaperLeft + 4
    <3>1. ReaperLeft' = 2 * Len(expiring') + (IF reaping = NoSlot THEN 0 ELSE 1)
      BY <2>1 DEF ReaperLeft
    <3> QED
      BY <1>0, <2>4, <3>1 DEF ReaperLeft
  <2>7. Left = 5 * Cardinality(work) + ReaperLeft + 7
    BY <2>2 DEF Left
  <2>8. Left' = 5 * Cardinality(work') + ReaperLeft' + 7
    BY <2>1, <2>2 DEF Left
  <2>9. Left' < Left
    BY <1>0, <1>a, <2>5, <2>6, <2>7, <2>8
  <2> QED
    BY <2>1, <2>9 DEF Parting
<1>2. ASSUME DestroyTracker PROVE Falls
  <2>1. /\ phase = "noPacer" /\ phase' = "stopping" /\ reaping' = reaping
        /\ expiring' = IF span = NoSpan THEN expiring ELSE expiring \o Released(span)
    BY <1>2 DEF DestroyTracker
  <2>2. Len(expiring') \in Nat /\ Len(expiring') <= Len(expiring) + 2
    <3>1. CASE span = NoSpan
      BY <1>0, <2>1, <3>1
    <3>2. CASE span # NoSpan
      <4>1. span \in Span /\ span.head # span.tail
        BY <3>2 DEF IInv, TypeOK, Single
      <4> QED
        BY <1>0, <2>1, <3>2, <4>1, DropCount
    <3> QED
      BY <3>1, <3>2
  <2>3. ReaperLeft' \in Nat /\ ReaperLeft' <= ReaperLeft + 4
    <3>1. ReaperLeft' = 2 * Len(expiring') + (IF reaping = NoSlot THEN 0 ELSE 1)
      BY <2>1 DEF ReaperLeft
    <3> QED
      BY <1>0, <2>2, <3>1 DEF ReaperLeft
  <2>4. Left = 5 * Cardinality(work) + ReaperLeft + 7
    BY <2>1 DEF Left
  <2>5. Left' = ReaperLeft' + (IF reaperDone' THEN 1 ELSE 2)
    BY <2>1 DEF Left
  <2>6. Left' < Left
    BY <1>0, <1>a, <2>3, <2>4, <2>5
  <2> QED
    BY <2>1, <2>6 DEF Parting
<1>3. ASSUME Reaper PROVE Falls
  <2>1. phase' = phase /\ work' = work
    BY <1>3 DEF Reaper, ReaperPop, ReaperRecycle, ReaperExit, clientVars
  <2>2. CASE ReaperPop \/ ReaperRecycle
    <3>1. ReaperLeft' = ReaperLeft - 1
      <4>1. CASE ReaperPop
        <5>1. /\ reaping = NoSlot /\ reaping' = Head(expiring) /\ expiring # <<>>
              /\ expiring' = Tail(expiring)
          BY <4>1 DEF ReaperPop
        <5>2. reaping' \in Slot /\ Len(expiring') = Len(expiring) - 1
          BY <1>0, <5>1
        <5>3. reaping' # NoSlot
          BY <5>2, PoolAssumption
        <5> QED
          BY <1>0, <5>1, <5>2, <5>3 DEF ReaperLeft
      <4>2. CASE ReaperRecycle
        BY <1>0, <4>2 DEF ReaperRecycle, ReaperLeft
      <4> QED
        BY <2>2, <4>1, <4>2
    <3>2. reaperDone' = reaperDone
      BY <2>2 DEF ReaperPop, ReaperRecycle
    <3>3. Left' = Left - 1
      BY <1>0, <1>a, <2>1, <3>1, <3>2 DEF Left, Parting
    <3> QED
      BY <1>a, <2>1, <3>3 DEF Parting
  <2>3. CASE ReaperExit
    <3>1. /\ phase = "stopping" /\ ~reaperDone /\ reaperDone' /\ ReaperLeft' = ReaperLeft
      BY <2>3 DEF ReaperExit, ReaperLeft
    <3>2. Left = ReaperLeft + 2 /\ Left' = ReaperLeft + 1
      BY <2>1, <3>1 DEF Left
    <3> QED
      BY <1>a, <2>1, <3>2 DEF Parting
  <2> QED
    BY <1>3, <2>2, <2>3 DEF Reaper
<1>4. ASSUME DestroyChunks PROVE Falls
  <2>1. phase = "stopping" /\ phase' = "destroyed"
    BY <1>4 DEF DestroyChunks
  <2>2. Left' = 0 /\ Left = ReaperLeft + (IF reaperDone THEN 1 ELSE 2)
    BY <2>1 DEF Left
  <2> QED
    BY <1>a, <2>1, <2>2
<1>5. ASSUME Gpu \/ Terminated \/ UNCHANGED vars PROVE Stays
  <2>1. /\ phase' = phase /\ work' = work /\ expiring' = expiring /\ reaping' = reaping
        /\ reaperDone' = reaperDone /\ clearing' = clearing
    BY <1>5 DEF Gpu, GpuWrite, GpuRetire, Terminated, clientVars, poolVars, vars
  <2>2. Left' = Left
    BY <2>1 DEF Left, ReaperLeft
  <2> QED
    BY <2>1, <2>2
<1>6. ~Submitter /\ ~DestroyPacer
      /\ (Pacer => \E w \in work : Clear(w))
  BY <1>0 DEF Submitter, Acquire, SubmitOk, SubmitFail, Notify, DestroyPacer, Pacer, Take,
     EndAwait, BeginClear, BeginAwait, Parting
<1>7. Stays => Parting'
  BY DEF Parting
<1>8. Stays \/ Falls
  BY <1>1, <1>2, <1>3, <1>4, <1>5, <1>6 DEF Next, Destroyer
<1> QED
  BY <1>a, <1>1, <1>2, <1>3, <1>4, <1>7, <1>8

\* A destruction with n steps left comes to fewer.
Has(n) == Parting /\ Left = n
HasLess(n) == phase = "destroyed" \/ (Parting /\ Left < n)
EndsSooner(n) == Has(n) ~> HasLess(n)

\* Whose turn it is: the pacer's spans, the tracker's, the reaper, the chunks.
Clears(n) == Has(n) /\ phase = "noPacer" /\ clearing
Parts(n) == Has(n) /\ phase = "noPacer" /\ ~clearing
Reaping(n) == Has(n) /\ phase = "stopping" /\ ~reaperDone
Frees(n) == Has(n) /\ phase = "stopping" /\ reaperDone
Idles(n) == Reaping(n) /\ reaping = NoSlot

\* Whoever has the turn keeps it until there is a step less to take.
LEMMA TurnFacts ==
  ASSUME NEW n \in Nat, IInv, WorkInv, [Next]_vars
  PROVE  /\ Clears(n) => (Clears(n)' \/ HasLess(n)') /\ CanClear
         /\ Clears(n) /\ <<\E w \in work : Clear(w)>>_vars => HasLess(n)'
         /\ Parts(n) => (Parts(n)' \/ HasLess(n)') /\ CanPart
         /\ Parts(n) /\ <<DestroyTracker>>_vars => HasLess(n)'
         /\ Reaping(n) => Reaping(n)' \/ HasLess(n)'
         /\ Idles(n) => (Idles(n)' \/ HasLess(n)') /\ CanReap
         /\ Idles(n) /\ <<Reaper>>_vars => HasLess(n)'
         /\ Frees(n) => (Frees(n)' \/ HasLess(n)') /\ CanFree
         /\ Frees(n) /\ <<DestroyChunks>>_vars => HasLess(n)'
<1>1. Has(n) =>
         /\ Parting' \/ phase' = "destroyed"
         /\ \/ Left' < n
            \/ /\ Left' = n /\ phase' = phase
               /\ clearing' = clearing /\ reaperDone' = reaperDone
               /\ reaping' = reaping
         /\ Reaper \/ (\E w \in work : Clear(w)) \/ DestroyTracker \/ DestroyChunks
              => Left' < n
  BY PartingStep DEF Has
<1>2. Has(n) => HasLess(n)' \/ (Has(n)' /\ phase' = phase /\ clearing' = clearing
                                  /\ reaperDone' = reaperDone /\ reaping' = reaping)
  BY <1>1 DEF Has, HasLess, Parting
<1>3. Has(n) /\ (Reaper \/ (\E w \in work : Clear(w)) \/ DestroyTracker \/ DestroyChunks)
        => HasLess(n)'
  BY <1>1 DEF HasLess
<1> HIDE DEF Has, HasLess
<1>4. Clears(n) => (Clears(n)' \/ HasLess(n)') /\ CanClear
  BY <1>2 DEF Clears, CanClear, WorkInv
<1>5. Parts(n) => (Parts(n)' \/ HasLess(n)') /\ CanPart
  BY <1>2 DEF Parts, CanPart
<1>6. Reaping(n) => Reaping(n)' \/ HasLess(n)'
  BY <1>2 DEF Reaping
<1>7. Idles(n) => (Idles(n)' \/ HasLess(n)') /\ CanReap
  BY <1>2 DEF Idles, Reaping, CanReap
<1>8. Frees(n) => (Frees(n)' \/ HasLess(n)') /\ CanFree
  BY <1>2 DEF Frees, CanFree
<1> QED
  BY <1>3, <1>4, <1>5, <1>6, <1>7, <1>8 DEF Clears, Parts, Reaping, Idles, Frees

\* The turns one after the other.
LEMMA EndsSoonerHolds ==
  ASSUME NEW n \in Nat
  PROVE  Behaviour /\ []WorkInv /\ GpuGoesOn /\ ReaperGoesOn /\ DestructionGoesOn =>
           EndsSooner(n)
<1> DEFINE B == Behaviour /\ []WorkInv
<1>1. IInv /\ WorkInv /\ [Next]_vars =>
        /\ Clears(n) => (Clears(n)' \/ HasLess(n)') /\ CanClear
        /\ Clears(n) /\ <<\E w \in work : Clear(w)>>_vars => HasLess(n)'
  BY TurnFacts
<1>2. B /\ DestructionGoesOn => (Clears(n) ~> HasLess(n))
  BY <1>1, PTL DEF Behaviour, DestructionGoesOn
<1>3. IInv /\ WorkInv /\ [Next]_vars =>
        /\ Parts(n) => (Parts(n)' \/ HasLess(n)') /\ CanPart
        /\ Parts(n) /\ <<DestroyTracker>>_vars => HasLess(n)'
  BY TurnFacts
<1>4. B /\ DestructionGoesOn => (Parts(n) ~> HasLess(n))
  BY <1>3, PTL DEF Behaviour, DestructionGoesOn
<1>5. IInv /\ WorkInv /\ [Next]_vars =>
        /\ Frees(n) => (Frees(n)' \/ HasLess(n)') /\ CanFree
        /\ Frees(n) /\ <<DestroyChunks>>_vars => HasLess(n)'
  BY TurnFacts
<1>6. B /\ DestructionGoesOn => (Frees(n) ~> HasLess(n))
  BY <1>5, PTL DEF Behaviour, DestructionGoesOn
<1>7. IInv /\ WorkInv /\ [Next]_vars =>
        /\ Idles(n) => (Idles(n)' \/ HasLess(n)') /\ CanReap
        /\ Idles(n) /\ <<Reaper>>_vars => HasLess(n)'
  BY TurnFacts
<1>8. B /\ ReaperGoesOn => (Idles(n) ~> HasLess(n))
  BY <1>7, PTL DEF Behaviour, ReaperGoesOn
<1>9. IInv /\ WorkInv /\ [Next]_vars => (Reaping(n) => Reaping(n)' \/ HasLess(n)')
  BY TurnFacts
<1>10. Reaping(n) /\ reaping = NoSlot => Idles(n)
  BY DEF Idles
<1>11. B /\ GpuGoesOn /\ ReaperGoesOn => (Reaping(n) ~> (Idles(n) \/ HasLess(n)))
  BY <1>9, <1>10, ReaperComesBack, PTL DEF Behaviour
<1>12. Has(n) => Clears(n) \/ Parts(n) \/ Reaping(n) \/ Frees(n)
  BY DEF Has, Parting, Clears, Parts, Reaping, Frees
<1>13. B /\ GpuGoesOn /\ ReaperGoesOn => (Reaping(n) ~> HasLess(n))
  BY <1>8, <1>11, PTL
<1> QED
  BY <1>2, <1>4, <1>6, <1>12, <1>13, PTL DEF EndsSooner

\* A destruction of the device comes to its end step by step, whatever is still
\* dropped, held or tracked when it begins.  Left is a natural number, so it falls
\* to the end: that is DestructionCompletes, but for the induction over the number.
THEOREM DestructionProceeds ==
  Spec /\ GpuGoesOn /\ ReaperGoesOn /\ DestructionGoesOn =>
    \A n \in Nat : EndsSooner(n)
<1>1. Spec => Behaviour /\ []WorkInv
  BY Invariant, DroppedWorkIsWritten, WorkIsFinite, PTL DEF Behaviour, Spec
<1>2. Behaviour /\ []WorkInv /\ GpuGoesOn /\ ReaperGoesOn /\ DestructionGoesOn =>
        \A n \in Nat : EndsSooner(n)
  BY EndsSoonerHolds
<1> QED
  BY <1>1, <1>2
=============================================================================
