---------------------------- MODULE DeadlineProofs ----------------------------
(***************************************************************************)
(* That a swapchain's application is held for a bounded time, and for a    *)
(* refresh it can make, whatever the driver reports and whenever it does:  *)
(* the invariants of DeadlinePacing, proved for every value of the         *)
(* constants.                                                              *)
(***************************************************************************)
EXTENDS DeadlinePacing, SequenceTheorems, TLAPS

-----------------------------------------------------------------------------
(* The grid of refreshes. *)

\* Integer division rounds down to a multiple.
LEMMA DivisionFacts ==
  ASSUME NEW a \in Nat, NEW b \in Nat \ {0}
  PROVE  /\ a \div b \in Nat
         /\ (a \div b) * b <= a
         /\ a < (a \div b) * b + b
OBVIOUS

\* A multiple leaves no remainder.
LEMMA MultipleFacts ==
  ASSUME NEW k \in Nat, NEW b \in Nat \ {0}
  PROVE  (k * b) % b = 0
OBVIOUS

\* boundary_at_or_after returns a point of the grid, not before the point it is
\* asked about, and the first such unless that is the phase itself.
LEMMA FirstBoundaryFacts ==
  ASSUME NEW displayed \in Int, NEW interval \in Nat \ {0}, NEW point \in Int
  PROVE  LET b == FirstBoundary(displayed, interval, point)
         IN  /\ b \in Int
             /\ b >= point
             /\ b >= displayed
             /\ (b - displayed) % interval = 0
             /\ b > displayed => b - interval < point
<1>1. CASE point <= displayed
  <2>1. FirstBoundary(displayed, interval, point) = displayed
    BY <1>1 DEF FirstBoundary
  <2>2. (displayed - displayed) % interval = 0
    BY MultipleFacts, 0 * interval = 0
  <2> QED BY <1>1, <2>1, <2>2
<1>2. CASE ~(point <= displayed)
  <2> DEFINE a == point - displayed + interval - 1
             k == a \div interval
  <2>1. a \in Nat
    BY <1>2
  <2>2. k \in Nat /\ k * interval <= a /\ a < k * interval + interval
    BY <2>1, DivisionFacts
  <2>3. FirstBoundary(displayed, interval, point) = displayed + k * interval
    BY <1>2 DEF FirstBoundary
  <2> HIDE DEF k
  <2>4. (k * interval) % interval = 0
    BY <2>2, MultipleFacts
  <2>5. k * interval \in Int
    BY <2>2
  <2> DEFINE m == k * interval
  <2>6. m \in Int /\ m <= a /\ a < m + interval /\ m % interval = 0
    BY <2>2, <2>4, <2>5
  <2>7. FirstBoundary(displayed, interval, point) = displayed + m
    BY <2>3
  <2> HIDE DEF m
  <2>8. (displayed + m) - displayed = m
    BY <2>6
  <2>9. /\ displayed + m \in Int
        /\ displayed + m >= point
        /\ displayed + m >= displayed
        /\ displayed + m - interval < point
    BY <1>2, <2>6
  <2> QED BY <2>6, <2>7, <2>8, <2>9
<1> QED BY <1>1, <1>2

-----------------------------------------------------------------------------
(* The inductive invariant. *)

\* Only a source that is on is polled, and what it announced is not nothing.
\* A cached interval is the driver's at the counter kept with it, and no older
\* than the poll; without a source there is no interval.
SourceInv ==
  /\ pc \in {"polling", "fetching", "feeding", "reading"} => feedback.on
  /\ pc = "fetching" => asked > 0
  /\ pc \in {"app", "polling", "fetching"} => polled = 0
  /\ polled <= Len(modes)
  /\ ~feedback.on => vblank.nominal = None
  /\ feedback.cached # None =>
       /\ feedback.counter \in DOMAIN modes
       /\ feedback.cached = modes[feedback.counter]
       /\ pc \in {"feeding", "reading"} => feedback.counter >= polled
  /\ vblank.nominal # None => feedback.counter \in DOMAIN modes

\* What the thread has computed when it starts to hold.
HoldInv ==
  /\ pc = "aiming" =>
       \/ wakeAt = began
       \/ /\ MinFrametime > 0 /\ lastRelease # None
          /\ wakeAt = lastRelease + MinFrametime
  /\ pc = "holding" /\ deadline # None =>
       vblank.nominal # None /\ vblank.displayed # None /\ lastWork # None

\* A present that is past the flag has found the effect on, and one that has had
\* it off so far will find it off unless the hotkey is hit.
EffectInv ==
  /\ unpacedAt <= now
  /\ ranOff => ~effect_enabled /\ pc \notin {"bounding", "aiming", "holding"}

IInv ==
  /\ TypeOK
  /\ SourceInv
  /\ IntervalIsFresh
  /\ EffectInv
  /\ MeasurementsArePaced
  /\ HoldInv
  /\ HoldIsBounded
  /\ AimsAtFirstReachableRefresh

\* The methods of VblankModel keep a model a model.
LEMMA ModelFacts ==
  /\ NewModel \in Model
  /\ \A v \in Model : /\ ResetPhase(v) \in Model
                      /\ ResetPhase(v).nominal = v.nominal
  /\ \A v \in Model, i \in Nat \union {None} :
       /\ SetNominal(v, i) \in Model
       /\ SetNominal(v, i).nominal = SaneInterval(i)
  /\ \A v \in Model, e \in [id : Nat, at : Nat] :
       /\ AddSample(v, e) \in Model
       /\ AddSample(v, e).nominal = v.nominal
<1> USE VblankAssumption
<1>1. NewModel \in Model
  BY DEF NewModel, Model
<1>2. \A v \in Model : ResetPhase(v) \in Model /\ ResetPhase(v).nominal = v.nominal
  BY DEF ResetPhase, Model
<1>3. \A i \in Nat \union {None} : SaneInterval(i) \in Sane \union {None}
  BY DEF SaneInterval
<1>4. \A v \in Model, i \in Nat \union {None} :
        /\ SetNominal(v, i) \in Model
        /\ SetNominal(v, i).nominal = SaneInterval(i)
  BY <1>3 DEF SetNominal, Model
<1>5. \A c \in 0 .. CountLimit : CountUp(c) \in 0 .. CountLimit
  BY DEF CountUp
<1>6. ASSUME NEW v \in Model, NEW e \in [id : Nat, at : Nat]
      PROVE  /\ AddSample(v, e) \in Model
             /\ AddSample(v, e).nominal = v.nominal
  <2>1. AddSample(v, e).samples \in 0 .. CountLimit
    BY <1>5 DEF AddSample, Model
  <2> QED
    BY <2>1 DEF AddSample, Model
<1> QED
  BY <1>1, <1>2, <1>4, <1>6

\* The initial states.
LEMMA InitInv == Init => IInv
<1> SUFFICES ASSUME Init PROVE IInv
  OBVIOUS
<1> USE VblankAssumption, DeadlineAssumption DEF Init
<1>1. TypeOK
  <2>1. effect_enabled \in BOOLEAN /\ ranOff \in BOOLEAN /\ unpacedAt \in Nat
    OBVIOUS
  <2>2. \E d \in Refresh : modes = <<d>>
    OBVIOUS
  <2>3. modes \in Seq(Refresh) /\ modes # <<>>
    BY ONLY <2>2
  <2>4. feedback \in Source
    BY DEF NewSource, Source
  <2> QED
    BY <2>1, <2>3, <2>4, ModelFacts DEF TypeOK
<1>2. SourceInv /\ IntervalIsFresh /\ HoldInv
  BY DEF SourceInv, IntervalIsFresh, HoldInv, NewSource, NewModel
<1>3. EffectInv /\ MeasurementsArePaced
  BY DEF EffectInv, MeasurementsArePaced
<1>4. HoldIsBounded /\ AimsAtFirstReachableRefresh
  BY DEF HoldIsBounded, AimsAtFirstReachableRefresh
<1> QED
  BY <1>1, <1>2, <1>3, <1>4 DEF IInv

\* deadline_release: what it returns is not in the past, at most an interval
\* away, and a refresh of the grid less what the frame needs.
LEMMA DeadlineFacts ==
  ASSUME TypeOK, vblank.nominal # None, vblank.displayed # None, lastWork # None,
         DeadlineRelease(now) # None
  PROVE  LET d == DeadlineRelease(now)
             hit == d + Need
         IN  /\ d \in Nat
             /\ d >= now
             /\ d <= now + vblank.nominal
             /\ (hit - vblank.displayed) % vblank.nominal = 0
             /\ hit > vblank.displayed => hit - vblank.nominal < now + Need
<1> USE VblankAssumption, DeadlineAssumption
<1>1. /\ vblank.nominal \in Nat \ {0} /\ vblank.displayed \in Int
      /\ now \in Nat /\ Need \in Nat
  BY DEF TypeOK, Model, Sane, Need
<1> DEFINE point == now + Need
           b == FirstBoundary(vblank.displayed, vblank.nominal, point)
<1>2. point \in Int
  BY <1>1
<1> HIDE DEF point
<1>3. /\ b \in Int /\ b >= point
      /\ (b - vblank.displayed) % vblank.nominal = 0
      /\ b > vblank.displayed => b - vblank.nominal < point
  BY ONLY <1>1, <1>2, FirstBoundaryFacts
<1>4. /\ b \in Int /\ b >= now + Need
      /\ (b - vblank.displayed) % vblank.nominal = 0
      /\ b > vblank.displayed => b - vblank.nominal < now + Need
  BY <1>3 DEF point
<1>5. BoundaryAtOrAfter(vblank, now + Need) = b
  BY DEF BoundaryAtOrAfter, point
<1> HIDE DEF b
<1>6. DeadlineRelease(now) = b - Need /\ ~(b - Need > now + vblank.nominal)
  BY <1>5 DEF DeadlineRelease, Need
<1>7. DeadlineRelease(now) + Need = b
  BY <1>1, <1>4, <1>6
<1> QED
  BY <1>1, <1>4, <1>6, <1>7

-----------------------------------------------------------------------------
(* Every step preserves the invariant, part by part. *)

\* A queue stays one of its elements.
LEMMA QueueFacts ==
  ASSUME NEW T, NEW q \in Seq(T)
  PROVE  /\ \A e \in T : Append(q, e) \in Seq(T)
         /\ q # <<>> => Head(q) \in T /\ Tail(q) \in Seq(T)
         /\ \A m \in Nat : m < Len(q) => SubSeq(q, m + 1, Len(q)) \in Seq(T)
OBVIOUS

\* The driver always has a current mode; another makes a longer list of them.
LEMMA ModesFacts ==
  ASSUME NEW m \in Seq(Refresh), m # <<>>
  PROVE  /\ Len(m) \in Nat /\ Len(m) \in DOMAIN m
         /\ m[Len(m)] \in Nat
         /\ \A d \in Refresh : /\ Append(m, d) \in Seq(Refresh)
                               /\ Append(m, d) # <<>>
                               /\ Len(Append(m, d)) = Len(m) + 1
                               /\ \A i \in DOMAIN m : /\ i \in DOMAIN Append(m, d)
                                                      /\ Append(m, d)[i] = m[i]
<1>1. Len(m) \in Nat \ {0} /\ DOMAIN m = 1 .. Len(m)
  BY EmptySeq, LenProperties
<1>2. m[Len(m)] \in Refresh
  BY <1>1
<1>3. ASSUME NEW d \in Refresh
      PROVE  /\ Append(m, d) \in Seq(Refresh)
             /\ Append(m, d) # <<>>
             /\ Len(Append(m, d)) = Len(m) + 1
             /\ \A i \in DOMAIN m : i \in DOMAIN Append(m, d) /\ Append(m, d)[i] = m[i]
  <2>1. Append(m, d) \in Seq(Refresh) /\ Len(Append(m, d)) = Len(m) + 1
    OBVIOUS
  <2>2. Append(m, d) # <<>>
    BY AppendProperties
  <2> QED
    BY <2>1, <2>2
<1>4. Len(m) \in Nat /\ Len(m) \in DOMAIN m
  BY ONLY <1>1
<1>5. m[Len(m)] \in Nat
  BY ONLY <1>2, DeadlineAssumption
<1> QED
  BY Zenon, <1>3, <1>4, <1>5

\* A source stays a source.
LEMMA SourceFacts ==
  /\ \A on \in BOOLEAN : NewSource(on) \in Source
  /\ \A f \in Source :
       /\ f.on \in BOOLEAN /\ f.failures \in Nat /\ f.counter \in Nat
       /\ f.cached \in Nat \union {None}
       /\ \A n \in Nat : [f EXCEPT !.failures = n] \in Source
       /\ [f EXCEPT !.failures = f.failures + 1] \in Source
       /\ \A c \in Nat \union {None} :
            /\ [f EXCEPT !.cached = c] \in Source
            /\ \A n \in Nat : [f EXCEPT !.cached = c, !.counter = n] \in Source
       /\ Recheck(f) \in Source
<1>1. \A on \in BOOLEAN : NewSource(on) \in Source
  BY DEF NewSource, Source
<1>2. ASSUME NEW f \in Source
      PROVE  /\ f.on \in BOOLEAN /\ f.failures \in Nat /\ f.counter \in Nat
             /\ f.cached \in Nat \union {None}
             /\ \A n \in Nat : [f EXCEPT !.failures = n] \in Source
             /\ \A c \in Nat \union {None} :
                  /\ [f EXCEPT !.cached = c] \in Source
                  /\ \A n \in Nat : [f EXCEPT !.cached = c, !.counter = n] \in Source
  BY DEF Source
<1>3. ASSUME NEW f \in Source PROVE Recheck(f) \in Source
  <2>1. CASE Len(modes) # f.counter
    BY <1>2, <2>1 DEF Recheck
  <2>2. CASE Len(modes) = f.counter
    <3>1. Recheck(f) = [f EXCEPT !.cached = f.cached]
      BY <2>2 DEF Recheck
    <3> QED
      BY <1>2, <3>1
  <2> QED
    BY <2>1, <2>2
<1>4. ASSUME NEW f \in Source PROVE [f EXCEPT !.failures = f.failures + 1] \in Source
  <2>1. f.failures + 1 \in Nat
    BY DEF Source
  <2> QED
    BY <1>2, <2>1
<1> QED
  BY <1>1, <1>2, <1>3, <1>4

\* Every step preserves the types.
LEMMA TypeStep == IInv /\ [Next]_vars => TypeOK'
<1> SUFFICES ASSUME IInv, [Next]_vars PROVE TypeOK'
  OBVIOUS
<1> USE VblankAssumption, DeadlineAssumption DEF effectVars
<1>t. TypeOK
  BY DEF IInv
<1>n. vblank \in Model
  BY <1>t DEF TypeOK
<1>f. feedback \in Source
  BY <1>t DEF TypeOK
<1>1. CASE Tick
  BY <1>t, <1>1 DEF Tick, TypeOK, driverVars, workVars, holdVars
<1>2. CASE ChangeMode
  <2>1. \A d \in Refresh : Append(modes, d) \in Seq(Refresh) /\ Append(modes, d) # <<>>
    BY <1>t, ModesFacts DEF TypeOK
  <2> QED
    BY <1>t, <1>2, <2>1 DEF ChangeMode, TypeOK, workVars, holdVars
<1>3. ASSUME NEW id \in shown, Display(id) PROVE TypeOK'
  <2>1. id \in Nat /\ \A at \in Placed(now) : at \in Nat
    BY <1>t DEF TypeOK, Placed
  <2>2. \A at \in Placed(now) : [id |-> id, at |-> at] \in [id : Nat, at : Nat]
    BY <2>1
  <2>3. reports' \in Seq([id : Nat, at : Nat])
    BY <1>t, <1>3, <2>2, QueueFacts DEF Display, TypeOK
  <2> QED
    BY <1>t, <1>3, <2>3 DEF Display, TypeOK, workVars, holdVars
<1>4. ASSUME NEW answer, Present(answer) PROVE TypeOK'
  <2>1. vblank' \in Model
    BY <1>4, <1>n, ModelFacts DEF Present
  <2>2. feedback' \in Source
    BY <1>4, <1>f, SourceFacts DEF Present
  <2>3. nextId' \in Nat /\ shown' \subseteq Nat
    <3>1. CASE feedback.on
      <4>1. nextId' = nextId + 1 /\ shown' \subseteq shown \union {nextId}
        BY <1>4, <3>1 DEF Present
      <4> QED
        BY <1>t, <4>1 DEF TypeOK
    <3>2. CASE ~feedback.on
      BY <1>t, <1>4, <3>2 DEF Present, TypeOK
    <3> QED
      BY <3>1, <3>2
  <2> QED
    BY <1>t, <1>4, <2>1, <2>2, <2>3 DEF Present, TypeOK, workVars, holdVars
<1>5. CASE PollFails
  <2>1. feedback' \in Source
    BY <1>5, <1>f, SourceFacts DEF PollFails
  <2> QED
    BY <1>t, <1>5, <2>1 DEF PollFails, TypeOK, driverVars, workVars, holdVars
<1>6. CASE PollEmpty
  <2>1. feedback' \in Source
    BY <1>6, <1>f, SourceFacts DEF PollEmpty
  <2>2. Len(modes) \in Nat
    BY <1>t DEF TypeOK
  <2> QED
    BY <1>t, <1>6, <2>1, <2>2 DEF PollEmpty, TypeOK, driverVars, workVars, holdVars
<1>7. CASE PollAnnounced
  BY <1>t, <1>7 DEF PollAnnounced, TypeOK, driverVars, workVars, holdVars
<1>8. CASE PollFetched
  <2>1. reports # <<>>
    <3>1. asked > 0 /\ Len(reports) = asked
      BY <1>8 DEF PollFetched, IInv, SourceInv
    <3>2. Len(<<>>) = 0
      OBVIOUS
    <3>3. ASSUME reports = <<>> PROVE FALSE
      <4>1. Len(reports) = 0
        BY <3>2, <3>3, Zenon
      <4> QED
        BY <3>1, <4>1
    <3> QED
      BY <3>3, Zenon
  <2>2. feedback' \in Source
    BY <1>8, <1>f, SourceFacts DEF PollFetched
  <2>3. Len(modes) \in Nat /\ <<>> \in Seq([id : Nat, at : Nat])
    BY <1>t DEF TypeOK
  <2> QED
    BY <1>t, <1>8, <2>1, <2>2, <2>3 DEF PollFetched, TypeOK, workVars, holdVars
<1>9. CASE Feed
  <2>1. /\ Head(scratch) \in [id : Nat, at : Nat]
        /\ scratch' \in Seq([id : Nat, at : Nat])
    BY <1>t, <1>9, QueueFacts DEF Feed, TypeOK
  <2>2. vblank' \in Model
    BY <1>9, <1>n, <2>1, ModelFacts DEF Feed
  <2> QED
    BY <1>t, <1>9, <2>1, <2>2 DEF Feed, TypeOK, driverVars, workVars, holdVars
<1>10. CASE PollIncomplete
  <2>1. reports' \in Seq([id : Nat, at : Nat])
    BY <1>t, <1>10, QueueFacts DEF PollIncomplete, TypeOK
  <2>2. feedback' \in Source
    BY <1>10, <1>f, SourceFacts DEF PollIncomplete
  <2> QED
    BY <1>t, <1>10, <2>1, <2>2 DEF PollIncomplete, TypeOK, workVars, holdVars
<1>11. ASSUME NEW source \in Source, NEW i \in Nat \union {None}, SettleWith(source, i)
       PROVE  vblank' \in Model /\ feedback' \in Source
  <2>1. CASE source.failures < MaxPollFailures
    BY <1>11, <1>n, <2>1, ModelFacts DEF SettleWith
  <2>2. CASE ~(source.failures < MaxPollFailures)
    BY <1>11, <2>2, ModelFacts, SourceFacts DEF SettleWith
  <2> QED
    BY <2>1, <2>2
<1>12. CASE ReadCached
  <2>1. vblank' \in Model /\ feedback' \in Source
    BY <1>t, <1>11, <1>12 DEF ReadCached, TypeOK, Source
  <2> QED
    BY <1>t, <1>12, <2>1 DEF ReadCached, TypeOK, driverVars, workVars, holdVars
<1>13. CASE ReadDriver
  <2>1. modes[Len(modes)] \in Nat /\ Len(modes) \in Nat
    BY <1>t, ModesFacts DEF TypeOK
  <2> DEFINE i == IF modes[Len(modes)] = 0 THEN None ELSE modes[Len(modes)]
             source == [feedback EXCEPT !.cached = i, !.counter = Len(modes)]
  <2>3. i \in Nat \union {None}
    BY <2>1
  <2>4. source \in Source
    BY <1>f, <2>1, <2>3, SourceFacts
  <2>5. SettleWith(source, i)
    BY <1>13 DEF ReadDriver
  <2>2. vblank' \in Model /\ feedback' \in Source
    BY <1>11, <2>3, <2>4, <2>5
  <2> QED
    BY <1>t, <1>13, <2>2 DEF ReadDriver, TypeOK, driverVars, workVars, holdVars
<1>14. CASE ReadFails
  <2>1. vblank' \in Model /\ feedback' \in Source
    BY <1>t, <1>11, <1>14 DEF ReadFails, TypeOK
  <2> QED
    BY <1>t, <1>14, <2>1 DEF ReadFails, TypeOK, driverVars, workVars, holdVars
<1>15. CASE PaceDisabled
  <2>1. pending' = <<>> /\ unpacedAt' \in {now, unpacedAt}
    BY <1>15 DEF PaceDisabled, Return
  <2>2. pending' \in Seq(Nat) /\ unpacedAt' \in Nat
    BY <1>t, <2>1 DEF TypeOK
  <2>3. lastRelease' = None /\ lastWork' = None /\ pc' = "app"
        /\ presented' \in BOOLEAN /\ polled' = 0 /\ ranOff' \in BOOLEAN
    BY <1>15 DEF PaceDisabled, Return
  <2>4. UNCHANGED <<now, effect_enabled, driverVars, asked, scratch, feedback,
                    vblank, nextId, holdVars>>
    BY <1>15 DEF PaceDisabled
  <2> QED
    BY <1>t, <2>2, <2>3, <2>4 DEF TypeOK, driverVars, holdVars
<1>16. CASE Push
  <2>1. pending' \in Seq(Nat)
    BY <1>t, <1>16, QueueFacts DEF Push, TypeOK
  <2> QED
    BY <1>t, <1>16, <2>1 DEF Push, TypeOK, driverVars, holdVars
<1>17. ASSUME NEW work \in Work \union {None}, Await(work) PROVE TypeOK'
  <2>1. pending' \in Seq(Nat)
    BY <1>t, <1>17, QueueFacts DEF Await, TypeOK
  <2> QED
    BY <1>t, <1>17, <2>1 DEF Await, TypeOK, driverVars, holdVars
<1>18. CASE SkipHold
  BY <1>t, <1>18 DEF SkipHold, Return, TypeOK, driverVars, holdVars
<1>19. CASE BeginHold
  BY <1>t, <1>19 DEF BeginHold, TypeOK, driverVars, workVars
<1>20. CASE Aim
  <2>1. deadline' \in Nat \union {None}
    BY <1>t, <1>20, DeadlineFacts DEF Aim, DeadlineMode, IsUsable
  <2> QED
    BY <1>t, <1>20, <2>1 DEF Aim, TypeOK, driverVars, workVars
<1>21. CASE Release
  BY <1>t, <1>21 DEF Release, Return, TypeOK, driverVars
<1>22. CASE UNCHANGED vars
  BY <1>t, <1>22 DEF TypeOK, vars, driverVars, workVars, holdVars
<1>23. CASE Toggle
  BY <1>t, <1>23 DEF Toggle, TypeOK, driverVars, workVars, holdVars
<1> QED
  BY <1>1, <1>2, <1>3, <1>4, <1>5, <1>6, <1>7, <1>8, <1>9, <1>10, <1>12, <1>13,
     <1>14, <1>15, <1>16, <1>17, <1>18, <1>19, <1>20, <1>21, <1>22, <1>23 DEF Next

\* What the model is told when the poll is over.
LEMMA SettleFacts ==
  ASSUME TypeOK, NEW source \in Source, NEW i \in Nat \union {None},
         SettleWith(source, i)
  PROVE  \/ feedback' = source /\ vblank'.nominal = SaneInterval(i)
         \/ feedback' = NewSource(FALSE) /\ vblank'.nominal = None
<1>1. vblank \in Model
  BY DEF TypeOK
<1>2. CASE source.failures < MaxPollFailures
  BY <1>1, <1>2, ModelFacts DEF SettleWith
<1>3. CASE ~(source.failures < MaxPollFailures)
  <2>1. feedback' = NewSource(FALSE) /\ vblank' = NewModel
    BY <1>3 DEF SettleWith
  <2>2. NewModel.nominal = None
    BY DEF NewModel
  <2> QED
    BY <2>1, <2>2
<1> QED
  BY <1>2, <1>3

\* Every step keeps the cached interval with its counter, and so fresh.
LEMMA SourceStep == IInv /\ [Next]_vars => SourceInv' /\ IntervalIsFresh'
<1> SUFFICES ASSUME IInv, [Next]_vars PROVE SourceInv' /\ IntervalIsFresh'
  OBVIOUS
<1> USE VblankAssumption, DeadlineAssumption
<1>t. TypeOK /\ SourceInv /\ IntervalIsFresh
  BY DEF IInv
<1>f. /\ feedback \in Source /\ vblank \in Model /\ polled \in Nat
      /\ modes \in Seq(Refresh) /\ modes # <<>>
      /\ Len(modes) \in Nat /\ Len(modes) \in DOMAIN modes
      /\ modes[Len(modes)] \in Nat
  BY <1>t, ModesFacts DEF TypeOK
<1> DEFINE Same == UNCHANGED <<modes, feedback, vblank, polled>>
           Paced == {"pacing", "bounding", "aiming", "holding"}
           Quiet == {"app", "pacing", "bounding", "aiming", "holding"}
\* A step that leaves the source alone, inside a present or out of one.
<1>1. ASSUME Same, pc' = pc \/ (pc \in Paced /\ pc' \in Paced), asked' = asked
      PROVE  SourceInv' /\ IntervalIsFresh'
  BY <1>t, <1>1 DEF SourceInv, IntervalIsFresh
<1>2. ASSUME UNCHANGED <<modes, feedback, vblank>>, pc' = "app", polled' = 0
      PROVE  SourceInv' /\ IntervalIsFresh'
  BY <1>t, <1>f, <1>2 DEF SourceInv, IntervalIsFresh
<1>3. CASE Tick \/ Toggle \/ (\E id \in shown : Display(id)) \/ Push
             \/ (\E work \in Work \union {None} : Await(work))
             \/ BeginHold \/ Aim \/ UNCHANGED vars
  BY <1>1, <1>3 DEF Tick, Toggle, Display, Push, Await, BeginHold, Aim, vars,
     driverVars
<1>4. CASE PaceDisabled \/ SkipHold \/ Release
  BY <1>2, <1>4 DEF PaceDisabled, SkipHold, Release, Return, driverVars
<1>5. CASE ChangeMode
  <2>1. /\ \A i \in DOMAIN modes : i \in DOMAIN modes' /\ modes'[i] = modes[i]
        /\ Len(modes') = Len(modes) + 1
    BY <1>f, <1>5, ModesFacts DEF ChangeMode
  <2> QED
    BY <1>t, <1>f, <1>5, <2>1 DEF ChangeMode, SourceInv, IntervalIsFresh
<1>6. ASSUME NEW answer, Present(answer) PROVE SourceInv' /\ IntervalIsFresh'
  <2>1. CASE feedback.on /\ answer # "queueFull"
    <3>1. vblank'.nominal = vblank.nominal /\ feedback' = feedback /\ pc' = "polling"
      BY <1>f, <1>6, <2>1, ModelFacts DEF Present
    <3> QED
      BY <1>t, <1>6, <2>1, <3>1 DEF Present, SourceInv, IntervalIsFresh
  <2>2. CASE ~(feedback.on /\ answer # "queueFull")
    <3>1. vblank'.nominal = None
      <4>1. CASE feedback.on
        BY <1>6, <2>2, <4>1, ModelFacts DEF Present, NewModel
      <4>2. CASE ~feedback.on
        BY <1>t, <1>f, <1>6, <4>2, ModelFacts DEF Present, SourceInv
      <4> QED
        BY <4>1, <4>2
    <3>2. /\ feedback' = NewSource(FALSE) /\ pc' = "pacing"
          /\ modes' = modes /\ polled' = polled
      BY <1>6, <2>2 DEF Present
    <3> QED
      BY <1>t, <3>1, <3>2 DEF SourceInv, IntervalIsFresh, NewSource
  <2> QED
    BY <2>1, <2>2
<1>7. CASE PollFails \/ PollIncomplete
  <2>1. /\ feedback'.on = feedback.on /\ feedback'.cached = feedback.cached
        /\ feedback'.counter = feedback.counter
    BY <1>f, <1>7 DEF PollFails, PollIncomplete, Source
  <2>2. /\ pc \in {"polling", "fetching"} /\ pc' = "reading"
        /\ UNCHANGED <<modes, vblank, polled>>
    BY <1>7 DEF PollFails, PollIncomplete, driverVars
  <2>3. feedback.counter \in Nat
    BY <1>f, SourceFacts
  <2> QED
    BY <1>t, <1>f, <2>1, <2>2, <2>3 DEF SourceInv, IntervalIsFresh
<1>8. CASE PollEmpty \/ PollFetched
  <2>1. /\ feedback'.on = feedback.on
        /\ feedback'.counter = feedback.counter
        /\ feedback'.cached # None =>
             feedback'.cached = feedback.cached /\ feedback.counter = Len(modes)
    BY <1>f, <1>8 DEF PollEmpty, PollFetched, Recheck, Source
  <2>2. /\ pc \in {"polling", "fetching"} /\ pc' \in {"reading", "feeding"}
        /\ UNCHANGED <<modes, vblank>> /\ polled' = Len(modes)
    BY <1>8 DEF PollEmpty, PollFetched, driverVars
  <2> QED
    BY <1>t, <1>f, <2>1, <2>2 DEF SourceInv, IntervalIsFresh
<1>9. CASE PollAnnounced
  <2>1. Len(reports) > 0
    BY <1>t, <1>9, EmptySeq DEF PollAnnounced, TypeOK
  <2> QED
    BY <1>t, <1>9, <2>1 DEF PollAnnounced, SourceInv, IntervalIsFresh, driverVars
<1>10. CASE Feed
  <2>1. Head(scratch) \in [id : Nat, at : Nat]
    BY <1>t, <1>10, QueueFacts DEF Feed, TypeOK
  <2>2. vblank'.nominal = vblank.nominal
    BY <1>f, <1>10, <2>1, ModelFacts DEF Feed
  <2> QED
    BY <1>t, <1>10, <2>2 DEF Feed, SourceInv, IntervalIsFresh, driverVars
<1>11. CASE ReadCached
  <2>1. feedback.cached \in Nat \union {None}
    BY <1>f, SourceFacts
  <2>2. \/ feedback' = feedback /\ vblank'.nominal = SaneInterval(feedback.cached)
        \/ feedback' = NewSource(FALSE) /\ vblank'.nominal = None
    BY <1>t, <1>f, <1>11, <2>1, SettleFacts DEF ReadCached
  <2>3. vblank'.nominal # None => vblank'.nominal = feedback.cached
    BY <2>2 DEF SaneInterval
  <2> QED
    BY <1>t, <1>11, <2>2, <2>3 DEF ReadCached, NewSource, SourceInv, IntervalIsFresh,
       driverVars
<1>12. CASE ReadDriver
  <2> DEFINE i == IF modes[Len(modes)] = 0 THEN None ELSE modes[Len(modes)]
             source == [feedback EXCEPT !.cached = i, !.counter = Len(modes)]
  <2>1. i \in Nat \union {None}
    BY <1>f
  <2>2. source \in Source
    BY <1>f, <2>1, SourceFacts
  <2>3. source.on = feedback.on /\ source.cached = i /\ source.counter = Len(modes)
    BY <1>f DEF Source
  <2>4. SettleWith(source, i)
    BY <1>12 DEF ReadDriver
  <2>5. i # None => i = modes[Len(modes)]
    OBVIOUS
  <2> HIDE DEF i, source
  <2>6. \/ feedback' = source /\ vblank'.nominal = SaneInterval(i)
        \/ feedback' = NewSource(FALSE) /\ vblank'.nominal = None
    BY <1>t, <2>1, <2>2, <2>4, SettleFacts
  <2>7. vblank'.nominal # None => feedback' = source /\ vblank'.nominal = i
    BY <2>6 DEF SaneInterval
  <2>8. /\ pc = "reading" /\ pc' = "pacing"
        /\ UNCHANGED <<modes, polled>>
    BY <1>12 DEF ReadDriver, driverVars
  <2>9. CASE feedback' = source /\ vblank'.nominal = SaneInterval(i)
    BY <1>t, <1>f, <2>3, <2>5, <2>7, <2>8, <2>9 DEF SourceInv, IntervalIsFresh
  <2>10. CASE feedback' = NewSource(FALSE) /\ vblank'.nominal = None
    <3>1. ~feedback'.on /\ feedback'.cached = None
      BY <2>10 DEF NewSource
    <3> QED
      BY <1>t, <2>8, <2>10, <3>1 DEF SourceInv, IntervalIsFresh
  <2> QED
    BY <2>6, <2>9, <2>10
<1>13. CASE ReadFails
  <2>1. \/ feedback' = feedback /\ vblank'.nominal = SaneInterval(None)
        \/ feedback' = NewSource(FALSE) /\ vblank'.nominal = None
    BY <1>t, <1>f, <1>13, SettleFacts DEF ReadFails
  <2>2. vblank'.nominal = None
    BY <2>1 DEF SaneInterval
  <2> QED
    BY <1>t, <1>13, <2>1, <2>2 DEF ReadFails, NewSource, SourceInv, IntervalIsFresh,
       driverVars
<1> QED
  BY <1>3, <1>4, <1>5, <1>6, <1>7, <1>8, <1>9, <1>10, <1>11, <1>12, <1>13 DEF Next

\* No step lets a measurement span a present that had the effect off.
LEMMA MeasureStep == IInv /\ [Next]_vars => (EffectInv /\ MeasurementsArePaced)'
<1> SUFFICES ASSUME IInv, [Next]_vars PROVE (EffectInv /\ MeasurementsArePaced)'
  OBVIOUS
<1> USE VblankAssumption, DeadlineAssumption DEF MeasurementsArePaced
<1>t. /\ EffectInv /\ MeasurementsArePaced
      /\ now \in Nat /\ unpacedAt \in Nat /\ pending \in Seq(Nat)
      /\ ranOff \in BOOLEAN /\ effect_enabled \in BOOLEAN
      /\ lastWork \in Nat \union {None} /\ lastRelease \in Nat \union {None}
  BY DEF IInv, TypeOK
<1>u. unpacedAt <= now
  BY <1>t DEF EffectInv
<1>1. CASE Tick
  BY <1>t, <1>1 DEF Tick, workVars, effectVars, EffectInv
<1>2. CASE PaceDisabled
  BY <1>t, <1>2 DEF PaceDisabled, Return, EffectInv
<1>3. CASE Push
  <2> DEFINE from == IF lastRelease = None THEN now ELSE lastRelease
  <2>1. from \in Nat /\ from >= unpacedAt
    BY <1>t, <1>u
  <2>2. \A i \in DOMAIN Append(pending, from) :
          Append(pending, from)[i] = from \/ (/\ i \in DOMAIN pending
                                              /\ Append(pending, from)[i] = pending[i])
    BY <1>t, <2>1
  <2>3. EffectInv'
    BY <1>t, <1>3 DEF Push, effectVars, EffectInv
  <2> QED
    BY <1>t, <1>3, <2>1, <2>2, <2>3 DEF Push, effectVars
<1>4. ASSUME NEW work \in Work \union {None}, Await(work)
      PROVE (EffectInv /\ MeasurementsArePaced)'
  <2>1. pending # <<>> /\ 1 \in DOMAIN pending /\ Head(pending) = pending[1]
    BY <1>t, <1>4 DEF Await
  <2>2. \A i \in DOMAIN Tail(pending) :
          i + 1 \in DOMAIN pending /\ Tail(pending)[i] = pending[i + 1]
    BY <1>t, <2>1
  <2>3. Head(pending) \in Nat /\ Head(pending) >= unpacedAt
    BY <1>t, <2>1
  <2>4. work # None => work \in Nat /\ work <= now - unpacedAt
    BY <1>t, <1>4, <2>3 DEF Await
  <2>5. EffectInv'
    BY <1>t, <1>4 DEF Await, effectVars, EffectInv
  <2> QED
    BY <1>t, <1>4, <2>2, <2>4, <2>5 DEF Await, effectVars
<1>5. CASE SkipHold \/ Release
  <2>1. pc \in {"bounding", "aiming", "holding"} /\ ~ranOff
    BY <1>t, <1>5 DEF SkipHold, Release, EffectInv
  <2>2. unpacedAt' = unpacedAt /\ ranOff' = FALSE
    BY <2>1, <1>5 DEF SkipHold, Release, Return
  <2> QED
    BY <1>t, <1>u, <1>5, <2>2 DEF SkipHold, Release, EffectInv
<1>6. CASE Toggle
  <2>1. EffectInv'
    BY <1>t, <1>6 DEF Toggle, EffectInv
  <2> QED
    BY <1>t, <1>6, <2>1 DEF Toggle, workVars
<1>7. ASSUME NEW answer \in {"presented", "failed", "queueFull"}, Present(answer)
      PROVE (EffectInv /\ MeasurementsArePaced)'
  <2>1. pc' \in {"polling", "pacing"} /\ ranOff' = ~effect_enabled
        /\ UNCHANGED <<now, workVars, effect_enabled, unpacedAt>>
    BY <1>7 DEF Present
  <2> QED
    BY <1>t, <1>u, <2>1 DEF EffectInv, workVars
<1>8. ASSUME UNCHANGED <<now, effectVars, workVars>>,
             pc' \in {"bounding", "aiming", "holding"} =>
               pc \in {"bounding", "aiming", "holding"}
      PROVE  (EffectInv /\ MeasurementsArePaced)'
  BY <1>t, <1>8 DEF workVars, effectVars, EffectInv
<1>9. CASE \/ ChangeMode \/ (\E id \in shown : Display(id))
           \/ PollFails \/ PollEmpty \/ PollAnnounced \/ PollFetched \/ Feed
           \/ PollIncomplete \/ ReadCached \/ ReadDriver \/ ReadFails
           \/ BeginHold \/ Aim \/ UNCHANGED vars
  BY <1>8, <1>9 DEF ChangeMode, Display, PollFails, PollEmpty, PollAnnounced,
     PollFetched, Feed, PollIncomplete, ReadCached, ReadDriver, ReadFails, BeginHold,
     Aim, vars
<1> QED
  BY <1>1, <1>2, <1>3, <1>4, <1>5, <1>6, <1>7, <1>9 DEF Next

\* Every step keeps a hold bounded and aimed at a refresh.
LEMMA HoldStep ==
  IInv /\ [Next]_vars => (HoldInv /\ HoldIsBounded /\ AimsAtFirstReachableRefresh)'
<1> DEFINE Hold == HoldInv /\ HoldIsBounded /\ AimsAtFirstReachableRefresh
<1> SUFFICES ASSUME IInv, [Next]_vars PROVE Hold'
  OBVIOUS
<1> USE VblankAssumption, DeadlineAssumption
<1>t. TypeOK /\ HoldInv /\ HoldIsBounded /\ AimsAtFirstReachableRefresh
  BY DEF IInv
\* Nothing that a hold was computed from changes while it lasts.
<1>1. ASSUME UNCHANGED <<pc, vblank, lastWork, lastRelease, holdVars>>
      PROVE  Hold'
  BY <1>t, <1>1 DEF HoldInv, HoldIsBounded, AimsAtFirstReachableRefresh, Need, holdVars
<1>2. ASSUME pc' \notin {"aiming", "holding"}
      PROVE  Hold'
  BY <1>2 DEF HoldInv, HoldIsBounded, AimsAtFirstReachableRefresh
<1>3. CASE \/ Tick \/ Toggle \/ ChangeMode \/ (\E id \in shown : Display(id))
           \/ UNCHANGED vars
  BY <1>1, <1>3 DEF Tick, Toggle, ChangeMode, Display, vars, workVars
<1>4. CASE \/ (\E answer \in {"presented", "failed", "queueFull"} : Present(answer))
           \/ PollFails \/ PollEmpty \/ PollAnnounced \/ PollFetched \/ Feed
           \/ PollIncomplete \/ ReadCached \/ ReadDriver \/ ReadFails
           \/ PaceDisabled \/ Push
           \/ (\E work \in Work \union {None} : Await(work))
           \/ SkipHold \/ Release
  BY <1>2, <1>4 DEF Present, PollFails, PollEmpty, PollAnnounced, PollFetched, Feed,
     PollIncomplete, ReadCached, ReadDriver, ReadFails, PaceDisabled, Push, Await,
     SkipHold, Release, Return
<1>5. CASE BeginHold
  BY <1>5 DEF BeginHold, workVars, HoldInv, HoldIsBounded, AimsAtFirstReachableRefresh
<1>6. CASE Aim
  <2>1. /\ pc' = "holding" /\ aimed' = now
        /\ UNCHANGED <<vblank, lastWork, lastRelease, began>>
        /\ wakeAt' = wakeAt \/ (deadline' # None /\ wakeAt' = deadline')
    BY <1>6 DEF Aim, workVars
  <2>2. ASSUME deadline' # None
        PROVE  /\ DeadlineMode /\ deadline' = DeadlineRelease(now)
               /\ vblank.nominal # None /\ vblank.displayed # None /\ lastWork # None
    BY <1>6, <2>2 DEF Aim, DeadlineMode, IsUsable
  <2>3. HoldInv'
    BY <2>1, <2>2 DEF HoldInv
  <2>4. HoldIsBounded'
    <3>1. CASE wakeAt' = wakeAt
      BY <1>t, <1>6, <2>1, <3>1 DEF Aim, HoldInv, HoldIsBounded
    <3>2. CASE deadline' # None /\ wakeAt' = deadline'
      <4>1. vblank.nominal # None /\ deadline' <= now + vblank.nominal
        BY <1>t, <2>2, <3>2, DeadlineFacts
      <4> QED
        BY <2>1, <3>2, <4>1 DEF HoldIsBounded
    <3> QED
      BY <2>1, <3>1, <3>2
  <2>5. AimsAtFirstReachableRefresh'
    <3>1. CASE deadline' # None
      <4>0. /\ now \in Nat /\ Need \in Nat /\ deadline' \in Nat
            /\ vblank.displayed \in Int /\ vblank.nominal \in Nat \ {0}
        <5>1. deadline' \in Nat
          BY <1>t, <2>2, <3>1, DeadlineFacts
        <5> QED
          BY <1>t, <2>2, <3>1, <5>1 DEF TypeOK, Model, Sane, Need
      <4>1. /\ deadline' >= now
            /\ (deadline' + Need - vblank.displayed) % vblank.nominal = 0
            /\ deadline' + Need > vblank.displayed =>
                 deadline' + Need - vblank.nominal < now + Need
        <5>1. DeadlineRelease(now) # None
          BY <2>2, <3>1
        <5>2. deadline' = DeadlineRelease(now)
          BY <2>2, <3>1
        <5> DEFINE d == DeadlineRelease(now)
        <5>3. /\ d >= now
              /\ (d + Need - vblank.displayed) % vblank.nominal = 0
              /\ d + Need > vblank.displayed =>
                   d + Need - vblank.nominal < now + Need
          BY ONLY <1>t, <2>2, <4>0, <5>1, <5>2, DeadlineFacts
        <5>4. deadline' = d
          BY <5>2
        <5> HIDE DEF d
        <5> QED
          BY ONLY <4>0, <5>3, <5>4
      <4>2. Need' = Need
        BY <2>1 DEF Need
      <4>3. aimed' = now /\ vblank' = vblank
        BY <2>1
      <4> QED
        BY ONLY <4>0, <4>1, <4>2, <4>3 DEF AimsAtFirstReachableRefresh
    <3>2. CASE deadline' = None
      BY <3>2 DEF AimsAtFirstReachableRefresh
    <3> QED
      BY <3>1, <3>2
  <2> QED
    BY <2>3, <2>4, <2>5
<1> QED
  BY <1>3, <1>4, <1>5, <1>6 DEF Next

-----------------------------------------------------------------------------
(* The theorems. *)

\* The invariant holds whatever the driver does, and when.
THEOREM Invariant == Spec => []IInv
<1>1. Init => IInv
  BY InitInv
<1>2. IInv /\ [Next]_vars => IInv'
  BY TypeStep, SourceStep, MeasureStep, HoldStep DEF IInv
<1> QED
  BY <1>1, <1>2, PTL DEF Spec

\* Every variable keeps its type.
THEOREM TypeCorrect == Spec => []TypeOK
<1>1. IInv => TypeOK
  BY DEF IInv
<1> QED
  BY <1>1, Invariant, PTL

\* pace() holds the application at most until the frame limiter allows the next
\* frame, or for one refresh interval: "aligning to a grid of period P can
\* never require holding for as long as P".
THEOREM HoldBounded == Spec => []HoldIsBounded
<1>1. IInv => HoldIsBounded
  BY DEF IInv
<1> QED
  BY <1>1, Invariant, PTL

\* deadline_release() aims at the first refresh the frame can make.
THEOREM AimsRight == Spec => []AimsAtFirstReachableRefresh
<1>1. IInv => AimsAtFirstReachableRefresh
  BY DEF IInv
<1> QED
  BY <1>1, Invariant, PTL

\* A change of display mode between any two calls to the driver never leaves
\* a frame paced with an interval older than its poll.
THEOREM IntervalFresh == Spec => []IntervalIsFresh
<1>1. IInv => IntervalIsFresh
  BY DEF IInv
<1> QED
  BY <1>1, Invariant, PTL

\* Nothing is measured across a present that had the effect off throughout,
\* whenever else the hotkey is hit.
THEOREM MeasurementsPaced == Spec => []MeasurementsArePaced
<1>1. IInv => MeasurementsArePaced
  BY DEF IInv
<1> QED
  BY <1>1, Invariant, PTL
=============================================================================
