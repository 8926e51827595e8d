----------------------------- MODULE VblankModel -----------------------------
(***************************************************************************)
(* What the layer knows of a display's refresh: the driver's interval and  *)
(* a phase taken from the times at which presents became visible.  A       *)
(* VblankModel object is a record, each of its methods an operator.        *)
(*                                                                         *)
(* Times and durations are integers of one unit; a std::optional that is   *)
(* empty is None.                                                          *)
(***************************************************************************)
EXTENDS Integers

CONSTANTS
  MinInterval, MaxInterval,   \* what may be a refresh interval
  MinSamples,
  CountLimit,                 \* numeric_limits<uint32_t>::max()
  None

ASSUME VblankAssumption ==
  /\ MinInterval \in Nat \ {0}
  /\ MaxInterval \in Nat
  /\ MinSamples \in Nat
  /\ CountLimit \in Nat
  /\ None \notin Int

Sane == MinInterval .. MaxInterval

Model ==
  [nominal : Sane \union {None},       \* nominal_interval
   displayed : Int \union {None},      \* last_displayed
   id : Nat \union {None},             \* last_present_id
   samples : 0 .. CountLimit]          \* sample_count

NewModel == [nominal |-> None, displayed |-> None, id |-> None, samples |-> 0]

\* Wrong on purpose: whatever the driver says is an interval.
SaneIntervalUnchecked(interval) == interval

\* What set_nominal_interval keeps of what the driver says.
SaneInterval(interval) == IF interval \in Sane THEN interval ELSE None

SetNominal(v, interval) == [v EXCEPT !.nominal = SaneInterval(interval)]

\* `std::min(sample_count + 1, max)', in the arithmetic of a uint32_t.
CountUp(count) ==
  LET next == (count + 1) % (CountLimit + 1)
  IN  IF next <= CountLimit THEN next ELSE CountLimit

\* A sample always moves the phase.  It counts only if it is of the present
\* that follows the last one seen, and starts the count again if the two were
\* not one plausible refresh interval apart.
AddSample(v, sample) ==
  [nominal |-> v.nominal,
   displayed |-> sample.at,
   id |-> sample.id,
   samples |->
     IF v.id = None \/ v.displayed = None THEN v.samples
     ELSE IF sample.id # v.id + 1 THEN v.samples
     ELSE IF sample.at - v.displayed \in Sane THEN CountUp(v.samples)
     ELSE 0]

\* The phase goes, the count stays.
ResetPhase(v) == [v EXCEPT !.displayed = None, !.id = None]

IsUsable(v) ==
  v.displayed # None /\ v.nominal # None /\ v.samples >= MinSamples

\* Wrong on purpose: rounds down.
FirstBoundaryRoundsDown(displayed, interval, point) ==
  IF point <= displayed THEN displayed
  ELSE displayed + ((point - displayed) \div interval) * interval

\* The first of displayed, displayed + interval, ... that is not before point.
FirstBoundary(displayed, interval, point) ==
  IF point <= displayed THEN displayed
  ELSE displayed + ((point - displayed + interval - 1) \div interval) * interval

BoundaryAtOrAfter(v, point) ==
  IF v.nominal = None \/ v.displayed = None THEN None
  ELSE FirstBoundary(v.displayed, v.nominal, point)
=============================================================================
