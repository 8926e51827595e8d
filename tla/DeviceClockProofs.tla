-------------------------- MODULE DeviceClockProofs --------------------------
(***************************************************************************)
(* Proofs about DeviceClock and ReportTimes, for any instants, period and  *)
(* width of the counter, error of the calibration, and clocks of the       *)
(* swapchain whose drift is bounded.                                       *)
(***************************************************************************)
EXTENDS ReportTimes, TLAPS

\* A pair is two readings of one moment, up to the deviation.  Only the holder of
\* the mutex can see the stored one half replaced.
PairInv ==
  /\ exclusive <=> thread = "storingHost"
  /\ device_ticks = IF thread = "storingHost" THEN sample.device ELSE Counter(takenAt)
  /\ Abs(host_ns - takenAt) <= Deviation
  /\ sample.device = Counter(sample.at)
  /\ Abs(sample.host - sample.at) <= Deviation

IInv == TypeOK /\ PairInv

-----------------------------------------------------------------------------
(* Arithmetic. *)

\* Division of naturals, rounding down.
LEMMA DivisionFacts ==
  ASSUME NEW a \in Nat, NEW b \in Nat \ {0}
  PROVE  /\ a \div b \in Nat /\ a % b \in 0..(b - 1)
         /\ b * (a \div b) <= a /\ a < b * (a \div b) + b
         /\ a = b * (a \div b) + (a % b)
<1>1. a \div b \in Nat /\ a % b \in 0..(b - 1)
  OBVIOUS
<1>2. a = b * (a \div b) + (a % b)
  OBVIOUS
<1>3. b * (a \div b) \in Nat
  BY <1>1
<1> QED
  BY <1>1, <1>2, <1>3

\* What is dropped of a quotient is less than one, on either side of zero.
LEMMA TruncateFacts ==
  ASSUME NEW a \in Int, NEW b \in Nat \ {0}
  PROVE  /\ Truncate(a, b) \in Int
         /\ a - b < b * Truncate(a, b) /\ b * Truncate(a, b) < a + b
         /\ a >= 0 => b * Truncate(a, b) <= a
         /\ a < 0 => a <= b * Truncate(a, b)
<1>1. CASE a >= 0
  BY <1>1, DivisionFacts DEF Truncate
<1>2. CASE a < 0
  <2>1. -a \in Nat /\ Truncate(a, b) = -((-a) \div b)
    BY <1>2 DEF Truncate
  <2> DEFINE q == (-a) \div b
  <2>2. q \in Nat /\ b * q <= -a /\ -a < b * q + b
    BY <2>1, DivisionFacts
  <2>3. b * Truncate(a, b) = -(b * q)
    BY <2>1, <2>2
  <2> QED
    BY <1>2, <2>1, <2>2, <2>3
<1> QED
  BY <1>1, <1>2

\* Ticks are whole: those passed are at most one short of the time.
LEMMA ElapsedFacts ==
  ASSUME NEW t \in Nat
  PROVE  /\ Elapsed(t) \in Nat
         /\ PeriodNum * Elapsed(t) <= t * PeriodDen
         /\ t * PeriodDen < PeriodNum * Elapsed(t) + PeriodNum
<1> DEFINE a == t * PeriodDen
<1>1. a \in Nat /\ PeriodNum \in Nat \ {0}
  BY ClockAssumption
<1>2. Elapsed(t) = a \div PeriodNum
  BY DEF Elapsed
<1> HIDE DEF a
<1>3. /\ a \div PeriodNum \in Nat
      /\ PeriodNum * (a \div PeriodNum) <= a
      /\ a < PeriodNum * (a \div PeriodNum) + PeriodNum
  BY <1>1, DivisionFacts
<1>4. Elapsed(t) \in Nat /\ PeriodNum * Elapsed(t) <= a /\ a < PeriodNum * Elapsed(t) + PeriodNum
  BY <1>2, <1>3
<1> QED
  BY <1>4 DEF a

\* Within one lap the counter's differences are those of the ticks passed.
LEMMA LapFacts ==
  ASSUME NEW s \in Nat, NEW t \in Nat, Lap(s) = Lap(t)
  PROVE  Counter(t) - Counter(s) = Elapsed(t) - Elapsed(s)
<1>1. Elapsed(s) \in Nat /\ Elapsed(t) \in Nat /\ Wrap \in Nat \ {0}
  BY ElapsedFacts, ClockAssumption
<1>2. ASSUME NEW e \in Nat
      PROVE  e \div Wrap \in Nat /\ e % Wrap \in Nat /\ e = Wrap * (e \div Wrap) + (e % Wrap)
  BY <1>1, DivisionFacts
<1>3. /\ Elapsed(s) = Wrap * Lap(s) + Counter(s) /\ Counter(s) \in Nat
      /\ Elapsed(t) = Wrap * Lap(t) + Counter(t) /\ Counter(t) \in Nat
      /\ Lap(s) \in Nat
  BY <1>1, <1>2 DEF Lap, Counter
<1>4. Wrap * Lap(s) = Wrap * Lap(t) /\ Wrap * Lap(s) \in Nat
  BY <1>1, <1>3
<1> QED
  BY <1>1, <1>3, <1>4

-----------------------------------------------------------------------------
(* The conversion. *)

\* A conversion is a number of nanoseconds.
LEMMA ConversionType ==
  ASSUME IInv, NEW t \in Nat
  PROVE  ticks_to_time(Counter(t)) \in Int
<1>1. Counter(t) \in Int /\ device_ticks \in Int /\ host_ns \in Int
  <2>1. Elapsed(t) \in Nat /\ Wrap \in Nat \ {0}
    BY ElapsedFacts, ClockAssumption
  <2>2. Elapsed(t) % Wrap \in Int
    BY <2>1, DivisionFacts
  <2> QED
    BY <2>1, <2>2 DEF Counter, IInv, TypeOK
<1> DEFINE a == 2 * SignedDifference(Counter(t)) * PeriodNum + PeriodDen
           b == 2 * PeriodDen
<1>2. a \in Int /\ b \in Nat \ {0}
  BY <1>1, ClockAssumption DEF SignedDifference
<1> HIDE DEF a, b
<1>3. Truncate(a, b) \in Int
  BY <1>2, TruncateFacts
<1> QED
  BY <1>1, <1>3 DEF ticks_to_time, a, b

\* The error of a conversion is that of the pair, of the two timestamps' whole
\* ticks and of the rounding.
LEMMA ConversionFacts ==
  ASSUME IInv
  PROVE  ConversionIsClose
<1> SUFFICES ASSUME NEW t \in Instant, ~exclusive, t <= now, Lap(t) = Lap(takenAt)
             PROVE  2 * PeriodDen * Abs(ticks_to_time(Counter(t)) - t)
                      <= 2 * PeriodNum + PeriodDen * (2 * Deviation + 3)
  BY DEF ConversionIsClose
<1> USE ClockAssumption
<1> DEFINE s == takenAt
           d == Elapsed(t) - Elapsed(s)
           a == 2 * d * PeriodNum + PeriodDen
           v == Truncate(a, 2 * PeriodDen)
<1>1. s \in Nat /\ t \in Nat /\ host_ns \in Nat
  BY DEF IInv, TypeOK
<1>2. /\ Elapsed(s) \in Nat /\ Elapsed(t) \in Nat
      /\ PeriodNum * Elapsed(s) <= s * PeriodDen
      /\ s * PeriodDen < PeriodNum * Elapsed(s) + PeriodNum
      /\ PeriodNum * Elapsed(t) <= t * PeriodDen
      /\ t * PeriodDen < PeriodNum * Elapsed(t) + PeriodNum
  BY <1>1, ElapsedFacts
<1>3. d \in Int /\ d * PeriodNum \in Int /\ a \in Int
  BY <1>2
<1>4. ticks_to_time(Counter(t)) = host_ns + v
  <2>1. device_ticks = Counter(s)
    BY DEF IInv, PairInv
  <2>2. SignedDifference(Counter(t)) = d
    BY <1>1, <2>1, LapFacts DEF SignedDifference
  <2> QED
    BY <2>2 DEF ticks_to_time
<1> HIDE DEF a, v
<1>5. /\ v \in Int
      /\ a - 2 * PeriodDen < 2 * PeriodDen * v /\ 2 * PeriodDen * v < a + 2 * PeriodDen
      /\ a >= 0 => 2 * PeriodDen * v <= a
      /\ a < 0 => a <= 2 * PeriodDen * v
  <2>1. PeriodDen * 2 \in Nat \ {0} /\ 2 * PeriodDen = PeriodDen * 2
    OBVIOUS
  <2>2. \A b \in Nat \ {0} :
          /\ Truncate(a, b) \in Int
          /\ a - b < b * Truncate(a, b) /\ b * Truncate(a, b) < a + b
          /\ a >= 0 => b * Truncate(a, b) <= a
          /\ a < 0 => a <= b * Truncate(a, b)
    BY <1>3, TruncateFacts
  <2> QED
    BY <2>1, <2>2 DEF v
<1> DEFINE dN == d * PeriodNum
           Dv == PeriodDen * v
<1>6. dN \in Int /\ Dv \in Int /\ 2 * PeriodDen * v = 2 * Dv /\ a = 2 * dN + PeriodDen
  BY <1>3, <1>5 DEF a
<1>7. 2 * (Dv - dN) < 3 * PeriodDen /\ 2 * (dN - Dv) < 3 * PeriodDen
  BY <1>5, <1>6
<1> DEFINE Ds == PeriodDen * s
           Dt == PeriodDen * t
           Dh == PeriodDen * host_ns
           NEs == PeriodNum * Elapsed(s)
           NEt == PeriodNum * Elapsed(t)
           DD == PeriodDen * Deviation
<1>8. /\ Ds \in Nat /\ Dt \in Nat /\ Dh \in Nat /\ NEs \in Nat /\ NEt \in Nat /\ DD \in Nat
      /\ dN = NEt - NEs
      /\ NEs <= Ds /\ Ds < NEs + PeriodNum /\ NEt <= Dt /\ Dt < NEt + PeriodNum
  BY <1>1, <1>2
<1>9. Dh - Ds <= DD /\ Ds - Dh <= DD
  <2>1. host_ns - s <= Deviation /\ s - host_ns <= Deviation
    BY <1>1 DEF IInv, PairInv, Abs
  <2>2. PeriodDen * (host_ns - s) <= DD /\ PeriodDen * (s - host_ns) <= DD
    BY <2>1, <1>1
  <2> QED
    BY <2>2, <1>1
<1> DEFINE e == host_ns + v - t
<1>10. e \in Int /\ PeriodDen * e = Dh + Dv - Dt
  BY <1>1, <1>5
<1>11. /\ 2 * (Dh + Dv - Dt) <= 2 * PeriodNum + 2 * DD + 3 * PeriodDen
       /\ -(2 * (Dh + Dv - Dt)) <= 2 * PeriodNum + 2 * DD + 3 * PeriodDen
  <2> HIDE DEF dN, Dv, Ds, Dt, Dh, NEs, NEt, DD
  <2> QED
    BY <1>6, <1>7, <1>8, <1>9
<1>12. PeriodDen * (2 * Deviation + 3) = 2 * DD + 3 * PeriodDen
  OBVIOUS
<1>13. 2 * PeriodDen * Abs(e) <= 2 * PeriodNum + PeriodDen * (2 * Deviation + 3)
  <2> HIDE DEF e, DD, Dh, Dv, Dt
  <2>1. CASE e < 0
    <3>1. Abs(e) = -e /\ 2 * PeriodDen * Abs(e) = -(2 * (PeriodDen * e))
      BY <2>1, <1>10 DEF Abs
    <3> QED
      BY <3>1, <1>6, <1>8, <1>10, <1>11, <1>12
  <2>2. CASE e >= 0
    <3>1. Abs(e) = e /\ 2 * PeriodDen * Abs(e) = 2 * (PeriodDen * e)
      BY <2>2, <1>10 DEF Abs
    <3> QED
      BY <3>1, <1>6, <1>8, <1>10, <1>11, <1>12
  <2> QED
    BY <2>1, <2>2, <1>10
<1>14. ticks_to_time(Counter(t)) - t = e
  BY <1>1, <1>4, <1>5 DEF v, a
<1> HIDE DEF e
<1> QED
  BY <1>13, <1>14

-----------------------------------------------------------------------------
(* The invariant is inductive. *)

\* What the driver answers is such a pair, with the counter's width.
LEMMA ReadingFacts ==
  ASSUME NEW t \in Instant, NEW r \in Readings(t)
  PROVE  /\ r \in [device : 0..(Wrap - 1), host : Nat, at : Instant]
         /\ r.at = t /\ r.device = Counter(t) /\ Abs(r.host - t) <= Deviation
<1>1. t \in Nat /\ Elapsed(t) \in Nat
  BY ClockAssumption, ElapsedFacts
<1>2. Counter(t) \in 0..(Wrap - 1)
  BY <1>1, ClockAssumption, DivisionFacts DEF Counter
<1>3. /\ r = [device |-> r.device, host |-> r.host, at |-> r.at]
      /\ r.device = Counter(t) /\ r.at = t
      /\ r.host \in (t - Deviation)..(t + Deviation) /\ r.host >= 0
  BY DEF Readings
<1>4. r.host \in Nat /\ Abs(r.host - t) <= Deviation
  BY <1>1, <1>3, ClockAssumption DEF Abs
<1> QED
  BY <1>2, <1>3, <1>4

\* The constructor calibrates before it starts the thread.
LEMMA InitInv == Init => IInv
<1> SUFFICES ASSUME Init PROVE IInv
  OBVIOUS
<1> QED
  BY ReadingFacts DEF Init, IInv, TypeOK, PairInv

\* No step parts the readings of a pair.
LEMMA NextInv == IInv /\ [Next]_vars => IInv'
<1> SUFFICES ASSUME IInv, [Next]_vars PROVE IInv'
  OBVIOUS
<1> USE DEF IInv, TypeOK, PairInv, pairVars
<1>1. CASE Check
  BY <1>1 DEF Check, Goto
<1>2. CASE Calibrate
  <2>1. sample' \in Readings(now)
    BY <1>2 DEF Calibrate
  <2>2. /\ sample' \in [device : 0..(Wrap - 1), host : Nat, at : Instant]
        /\ sample'.device = Counter(sample'.at)
        /\ Abs(sample'.host - sample'.at) <= Deviation
    BY <2>1, ReadingFacts
  <2> QED
    BY <1>2, <2>2 DEF Calibrate, Goto, Counter, Elapsed, Abs
<1>3. CASE Fail
  BY <1>3 DEF Fail, Goto
<1>4. CASE StoreTicks
  BY <1>4 DEF StoreTicks, Goto
<1>5. CASE StoreHost
  BY <1>5 DEF StoreHost, Goto
<1>6. CASE TimeOut
  BY <1>6 DEF TimeOut, Goto
<1>7. CASE Notified
  BY <1>7 DEF Notified, Goto
<1>8. CASE \E t \in Instant : Advance(t)
  BY <1>8 DEF Advance
<1>9. CASE RequestStop
  BY <1>9 DEF RequestStop
<1>10. CASE Join
  BY <1>10 DEF Join
<1>11. CASE UNCHANGED vars
  BY <1>11 DEF vars
<1> QED
  BY <1>1, <1>2, <1>3, <1>4, <1>5, <1>6, <1>7, <1>8, <1>9, <1>10, <1>11
  DEF Next, Ended

\* A stored pair is two readings of one moment whenever the mutex is free.
THEOREM Invariance == Spec => []IInv
BY InitInv, NextInv, PTL DEF Spec

\* Every variable has its type: the stored reading has the counter's width.
THEOREM TypeCorrect == Spec => []TypeOK
<1>1. IInv => TypeOK
  BY DEF IInv
<1> QED
  BY <1>1, Invariance, PTL

\* A timestamp of this lap of the counter is converted to its time, within one
\* tick, the error of the pair and three halves of a nanosecond, by every thread
\* that the mutex lets convert while the pair is replaced.
THEOREM ConversionCorrect == Spec => []ConversionIsClose
BY ConversionFacts, Invariance, PTL

-----------------------------------------------------------------------------
(* ReportTimes. *)

\* A measurement holds for the clock that was asked for and for the moment it was
\* made at, up to the deviation.
OffsetInv ==
  has_calibration =>
    /\ last_calibration <= now
    /\ Abs(calibration_offset + Shift(time_domain, last_calibration)) <= Deviation

RInv == IInv /\ ReportTypeOK /\ OffsetInv /\ SampleIsClose

\* A clock of the swapchain is a number of nanoseconds, and drifts slowly.
LEMMA ShiftFacts ==
  ASSUME NEW clock \in LocalClock, NEW s \in Instant, NEW t \in Instant
  PROVE  /\ s \in Nat /\ t \in Nat
         /\ LocalTime[clock][t] \in Nat /\ Shift(clock, t) \in Int
         /\ DriftDen * Abs(Shift(clock, t) - Shift(clock, s)) <= Abs(t - s)
BY ClockAssumption, ReportAssumption DEF Shift

\* A distance of two summands is at most that of both.
LEMMA TriangleFacts ==
  ASSUME NEW x \in Int, NEW y \in Int
  PROVE  Abs(x) \in Nat /\ Abs(y) \in Nat /\ Abs(x + y) <= Abs(x) + Abs(y)
BY DEF Abs

\* The error of a measured offset: that of the measurement, and the drift from
\* the measurement to the frame.
LEMMA OffsetFacts ==
  ASSUME NEW clock \in LocalClock, NEW at \in Instant, NEW c \in Instant,
         NEW t \in Instant, NEW offset \in Int,
         at <= t, c <= t, t - c <= CALIBRATION_PERIOD,
         Abs(offset + Shift(clock, c)) <= Deviation
  PROVE  DriftDen * Abs(LocalTime[clock][at] + offset - at)
           <= DriftDen * Deviation + Larger(CALIBRATION_PERIOD, t - at)
<1> DEFINE x == offset + Shift(clock, c)
           y == Shift(clock, at) - Shift(clock, c)
<1>1. at \in Nat /\ c \in Nat /\ t \in Nat /\ Shift(clock, at) \in Int /\ Shift(clock, c) \in Int
      /\ LocalTime[clock][at] \in Nat /\ DriftDen * Abs(y) <= Abs(at - c)
  BY ShiftFacts, ClockAssumption
<1>2. x \in Int /\ y \in Int /\ LocalTime[clock][at] + offset - at = x + y
  BY <1>1 DEF Shift
<1>3. Abs(x) \in Nat /\ Abs(y) \in Nat /\ Abs(x + y) \in Nat
      /\ Abs(x + y) <= Abs(x) + Abs(y)
  BY <1>2, TriangleFacts
<1>4. Abs(at - c) <= Larger(CALIBRATION_PERIOD, t - at)
  BY <1>1, ReportAssumption DEF Abs, Larger
<1>5. Abs(at - c) \in Int /\ Larger(CALIBRATION_PERIOD, t - at) \in Int
  BY <1>1, ReportAssumption DEF Abs, Larger
<1>6. DriftDen * Abs(x + y) <= DriftDen * Abs(x) + DriftDen * Abs(y)
  <2> HIDE DEF x, y
  <2>1. \A a, b, d \in Nat : d <= a + b => DriftDen * d <= DriftDen * a + DriftDen * b
    BY ReportAssumption
  <2> QED
    BY <1>3, <2>1
<1>7. DriftDen * Abs(x) <= DriftDen * Deviation
  <2> HIDE DEF x, y
  <2>1. \A a, b \in Nat : a <= b => DriftDen * a <= DriftDen * b
    BY ReportAssumption
  <2>2. Abs(x) <= Deviation
    BY DEF x
  <2> QED
    BY <1>3, <2>1, <2>2, ClockAssumption
<1>8. /\ DriftDen * Abs(x) \in Int /\ DriftDen * Abs(y) \in Int
      /\ DriftDen * Abs(x + y) \in Int /\ DriftDen * Deviation \in Int
  BY <1>3, ClockAssumption, ReportAssumption
<1> HIDE DEF x, y
<1>9. DriftDen * Abs(x + y)
        <= DriftDen * Deviation + Larger(CALIBRATION_PERIOD, t - at)
  BY <1>4, <1>5, <1>6, <1>7, <1>8, <1>1
<1> QED
  BY <1>2, <1>9

\* Nothing has been measured or placed yet.
LEMMA ReportInitInv == ReportInit => RInv
<1> SUFFICES ASSUME ReportInit PROVE RInv
  OBVIOUS
<1>1. IInv
  BY InitInv DEF ReportInit
<1>2. ReportTypeOK
  <2>1. TypeOK /\ placed = None
    BY <1>1 DEF IInv, ReportInit
  <2>2. calibration_offset \in Int /\ last_calibration \in Nat /\ time_domain \in Domain
    BY DEF ReportInit
  <2>3. has_calibration \in BOOLEAN /\ ~has_calibration
    BY DEF ReportInit
  <2> QED
    BY <2>1, <2>2, <2>3 DEF ReportTypeOK
<1>3. OffsetInv
  BY DEF ReportInit, OffsetInv
<1>4. SampleIsClose
  BY DEF ReportInit, SampleIsClose
<1> QED
  BY <1>1, <1>2, <1>3, <1>4 DEF RInv

\* A step of the clock or of time leaves a measurement as it is.
LEMMA ReportClockInv ==
  ASSUME RInv, placed = None, Next, UNCHANGED reportVars
  PROVE  RInv'
<1> USE DEF reportVars
<1>1. IInv'
  BY NextInv DEF RInv
<1>2. now <= now' /\ now \in Nat /\ now' \in Nat
  <2>1. now \in Nat /\ now' \in Nat
    BY <1>1, ClockAssumption DEF RInv, IInv, TypeOK
  <2>2. now' = now \/ \E t \in Instant : Advance(t)
    BY DEF Next, Check, Calibrate, Fail, StoreTicks, StoreHost, TimeOut, Notified,
           RequestStop, Join, Ended, vars
  <2> QED
    BY <2>1, <2>2 DEF Advance
<1>3. ReportTypeOK'
  BY <1>1 DEF IInv, RInv, ReportTypeOK, calibrationVars
<1>4. OffsetInv'
  <2> SUFFICES ASSUME has_calibration'
               PROVE  /\ last_calibration' <= now'
                      /\ Abs(calibration_offset' + Shift(time_domain', last_calibration'))
                           <= Deviation
    BY DEF OffsetInv, Shift, Abs
  <2>1. /\ last_calibration' = last_calibration
        /\ calibration_offset' = calibration_offset
        /\ has_calibration' = has_calibration /\ time_domain' = time_domain
    BY DEF calibrationVars
  <2>2. /\ last_calibration \in Nat /\ last_calibration <= now
        /\ Abs(calibration_offset + Shift(time_domain, last_calibration)) <= Deviation
    BY <2>1 DEF RInv, OffsetInv, ReportTypeOK
  <2> QED
    BY <2>1, <2>2, <1>2
<1>5. SampleIsClose'
  BY DEF SampleIsClose
<1> QED
  BY <1>1, <1>3, <1>4, <1>5 DEF RInv

\* The measurement a poll goes by is one of a driver that answered, or one that is
\* not older than a period.
Fresh == has_calibration' /\ now - last_calibration' <= CALIBRATION_PERIOD

\* A report in a clock of the swapchain is placed, by a measurement that is fresh,
\* as far from where it belongs as its clock is from the one that was measured.
LEMMA LocalFacts ==
  ASSUME RInv, UNCHANGED <<vars, time_domain>>, OffsetInv', Fresh,
         time_domain \in LocalClock, NEW clock \in LocalClock,
         NEW at \in Instant, at <= now,
         calibration_offset' \in Int, last_calibration' \in Instant,
         NEW off \in Int,
         off = LocalTime[clock][at] + calibration_offset' - at
                 - (Shift(clock, at) - Shift(time_domain, at))
  PROVE  DriftDen * Abs(off)
           <= DriftDen * Deviation + Larger(CALIBRATION_PERIOD, now - at)
<1> DEFINE c == last_calibration'
           offset == calibration_offset'
<1>1. /\ c \in Instant /\ c <= now /\ now - c <= CALIBRATION_PERIOD
      /\ now \in Instant /\ offset \in Int
  BY DEF Fresh, OffsetInv, vars, RInv, IInv, TypeOK
<1>2. Abs(offset + Shift(time_domain, c)) <= Deviation
  BY DEF Fresh, OffsetInv, Shift, Abs
<1> HIDE DEF c, offset
<1>3. DriftDen * Abs(LocalTime[time_domain][at] + offset - at)
        <= DriftDen * Deviation + Larger(CALIBRATION_PERIOD, now - at)
  BY <1>1, <1>2, OffsetFacts
<1>4. LocalTime[time_domain][at] \in Nat /\ LocalTime[clock][at] \in Nat /\ at \in Nat
  BY ShiftFacts
<1>5. off = LocalTime[time_domain][at] + offset - at
  BY <1>1, <1>4 DEF offset, Shift
<1> QED
  BY <1>1, <1>3, <1>4, <1>5 DEF Abs

\* A poll whose measurement is fresh, if it goes by one, places its report where
\* it belongs, or off by the distance of its clock.
LEMMA PlaceFacts ==
  ASSUME RInv, UNCHANGED <<vars, time_domain>>, OffsetInv',
         NEW domain \in Domain, NEW at \in Instant, NEW usable \in BOOLEAN,
         NEW recent \in BOOLEAN, at <= now,
         domain = "device" => ~exclusive,
         calibration_offset' \in Int,
         has_calibration' =>
           time_domain \in LocalClock /\ last_calibration' \in Instant,
         recent /\ domain \in LocalClock /\ has_calibration' => Fresh,
         Place(domain, at, usable, recent)
  PROVE  placed' \in Placed \union {None} /\ SampleIsClose'
<1> USE DEF RInv, IInv
<1> DEFINE where == to_time_point(domain, ReportedTime(domain, at))
           off == where - at - Misplaced(domain, at)
           error == Abs(off)
<1>1. CASE placed' = None
  BY <1>1 DEF SampleIsClose
<1>2. CASE placed' # None
  <2>1. /\ placed' = [domain |-> domain, at |-> at, recent |-> recent, displayed |-> where]
        /\ CanPlace(domain)
    BY <1>2 DEF Place
  <2>2. /\ at \in Nat /\ now' = now /\ takenAt' = takenAt
        /\ time_domain' = time_domain
    BY ClockAssumption DEF vars, pairVars
  <2>3. ASSUME where \in Int
        PROVE  placed' \in Placed \union {None}
    BY <2>1, <2>3 DEF Placed
  <2>4. ASSUME domain = "monotonic" => error = 0,
               domain = "device" /\ Lap(at) = Lap(takenAt) =>
                 2 * PeriodDen * error <= 2 * PeriodNum + PeriodDen * (2 * Deviation + 3),
               recent /\ domain \in LocalClock =>
                 DriftDen * error
                   <= DriftDen * Deviation + Larger(CALIBRATION_PERIOD, now - at)
        PROVE  SampleIsClose'
    <3>1. /\ placed'.domain = domain /\ placed'.at = at /\ placed'.recent = recent
          /\ placed'.displayed = where
      BY <2>1
    <3> HIDE DEF where
    <3> QED
      BY <2>2, <2>4, <3>1
      DEF SampleIsClose, Misplaced, Shift, MaxDrift, Lap, Elapsed, Abs, Larger
  <2>5. CASE domain = "monotonic"
    <3>1. where = at /\ domain # "device" /\ domain \notin LocalClock
      BY <2>5, ReportAssumption DEF to_time_point, ReportedTime
    <3>2. where \in Int /\ error = 0
      BY <2>2, <3>1 DEF Abs, Misplaced
    <3> HIDE DEF where, error
    <3> QED
      BY <2>3, <2>4, <3>1, <3>2
  <2>6. CASE domain = "device"
    <3>1. /\ where = ticks_to_time(Counter(at))
          /\ domain # "monotonic" /\ domain \notin LocalClock
      BY <2>6, ReportAssumption DEF to_time_point, ReportedTime
    <3>2. where \in Int
      BY <3>1, <2>2, ConversionType
    <3>3. Lap(at) = Lap(takenAt) =>
            2 * PeriodDen * Abs(where - at)
              <= 2 * PeriodNum + PeriodDen * (2 * Deviation + 3)
      BY <2>6, <3>1, ConversionFacts DEF ConversionIsClose
    <3> HIDE DEF where
    <3>4. Misplaced(domain, at) = 0
      BY <3>1 DEF Misplaced
    <3>5. error = Abs(where - at)
      BY <3>2, <3>4, <2>2 DEF Abs
    <3>6. Lap(at) = Lap(takenAt) =>
            2 * PeriodDen * error <= 2 * PeriodNum + PeriodDen * (2 * Deviation + 3)
      BY <3>3, <3>5
    <3> HIDE DEF error
    <3> QED
      BY <2>3, <2>4, <3>1, <3>2, <3>6
  <2>7. CASE domain \in LocalClock
    <3>1. /\ where = LocalTime[domain][at] + calibration_offset' /\ has_calibration'
          /\ domain # "monotonic" /\ domain # "device"
      BY <2>1, <2>7, ReportAssumption DEF to_time_point, ReportedTime, CanPlace
    <3>2. where \in Int /\ time_domain \in LocalClock
      BY <3>1, <2>7, ShiftFacts
    <3>3. off = LocalTime[domain][at] + calibration_offset' - at
                  - (Shift(domain, at) - Shift(time_domain, at))
      <4>1. Misplaced(domain, at) = Shift(domain, at) - Shift(time_domain, at)
        BY <2>7 DEF Misplaced
      <4>2. /\ LocalTime[domain][at] \in Nat /\ calibration_offset' \in Int
            /\ Shift(domain, at) \in Int /\ Shift(time_domain, at) \in Int
        BY <2>7, <3>2, ShiftFacts
      <4> HIDE DEF where
      <4> QED
        BY <2>2, <3>1, <3>2, <4>1, <4>2
    <3> HIDE DEF where
    <3>4. off \in Int
      BY <2>2, <2>7, <3>2, <3>3, ShiftFacts
    <3> HIDE DEF off
    <3>5. recent =>
            DriftDen * error <= DriftDen * Deviation + Larger(CALIBRATION_PERIOD, now - at)
      BY <2>7, <3>1, <3>2, <3>3, <3>4, LocalFacts
    <3> HIDE DEF error
    <3> QED
      BY <2>3, <2>4, <2>7, <3>1, <3>2, <3>5
  <2> QED
    BY <2>5, <2>6, <2>7 DEF Domain
<1> QED
  BY <1>1, <1>2

\* A poll measures when it must, and keeps a measurement that holds otherwise.
LEMMA PollInv ==
  ASSUME RInv, NEW domain \in Domain, NEW at \in Instant, NEW usable \in BOOLEAN,
         Poll(domain, at, usable)
  PROVE  RInv'
<1> USE DEF RInv
<1>1. /\ UNCHANGED vars /\ time_domain' = time_domain /\ at <= now
      /\ domain = "device" => ~exclusive
  BY DEF Poll
<1>2. IInv' /\ TypeOK'
  <2>1. [Next]_vars
    BY <1>1
  <2> QED
    BY <2>1, NextInv DEF IInv
<1>3. now' = now /\ now \in Instant /\ now \in Nat
  BY <1>1, ClockAssumption DEF vars, IInv, TypeOK
<1>4. ASSUME placed' \in Placed \union {None}, SampleIsClose', OffsetInv',
             calibration_offset' \in Int, last_calibration' \in Nat,
             has_calibration' \in BOOLEAN,
             has_calibration' =>
               time_domain \in LocalClock /\ last_calibration' \in Instant
      PROVE  RInv'
  BY <1>1, <1>2, <1>4 DEF ReportTypeOK
<1>5. CASE CalibrationIsDue /\ calibrate /\ Place(domain, at, usable, TRUE)
  <2> PICK host \in (now - Deviation)..(now + Deviation) :
             /\ calibration_offset' = host - LocalTime[time_domain][now]
             /\ last_calibration' = now
             /\ has_calibration' = TRUE
    BY <1>5 DEF calibrate
  <2>1. time_domain \in LocalClock
    BY <1>5 DEF CalibrationIsDue, needs_calibration
  <2>2. LocalTime[time_domain][now] \in Nat /\ host \in Int /\ Deviation \in Nat
    BY <1>3, <2>1, ShiftFacts, ClockAssumption
  <2>3. /\ calibration_offset' \in Int
        /\ last_calibration' \in Instant /\ last_calibration' \in Nat
    BY <1>3, <2>2
  <2>4. OffsetInv'
    <3>1. calibration_offset' + Shift(time_domain, now) = host - now
      BY <2>2, <1>3 DEF Shift
    <3>2. Abs(host - now) <= Deviation
      BY <2>2, <1>3 DEF Abs
    <3> QED
      BY <3>1, <3>2, <1>1, <1>3 DEF OffsetInv, Shift, Abs
  <2>5. Fresh
    BY <1>3, ReportAssumption DEF Fresh
  <2>6. placed' \in Placed \union {None} /\ SampleIsClose'
    BY <1>1, <1>5, <2>1, <2>3, <2>4, <2>5, PlaceFacts
  <2> QED
    BY <1>4, <2>1, <2>3, <2>4, <2>6
<1>6. CASE UNCHANGED calibrationVars
  <2>1. /\ calibration_offset' = calibration_offset
        /\ last_calibration' = last_calibration
        /\ has_calibration' = has_calibration
    BY <1>6 DEF calibrationVars
  <2>2. OffsetInv'
    BY <1>1, <1>3, <2>1 DEF OffsetInv, Shift, Abs
  <2>3. PICK recent \in BOOLEAN :
          /\ recent => domain \notin LocalClock \/ ~CalibrationIsDue
          /\ Place(domain, at, usable, recent)
    <3>1. CASE Place(domain, at, usable, domain \notin LocalClock)
      BY <3>1
    <3>2. CASE ~CalibrationIsDue /\ Place(domain, at, usable, TRUE)
      BY <3>2
    <3>3. CASE CalibrationIsDue /\ calibrate /\ Place(domain, at, usable, TRUE)
      <4>1. has_calibration /\ last_calibration = now
        BY <3>3, <2>1 DEF calibrate
      <4>2. ~CalibrationIsDue
        BY <4>1, <1>3, ReportAssumption DEF CalibrationIsDue
      <4> QED
        BY <3>3, <4>2
    <3> QED
      BY <3>1, <3>2, <3>3 DEF Poll
  <2>4. recent /\ domain \in LocalClock /\ has_calibration' => Fresh
    <3> SUFFICES ASSUME recent, domain \in LocalClock, has_calibration
                 PROVE  now - last_calibration <= CALIBRATION_PERIOD
      BY <2>1 DEF Fresh
    <3>1. needs_calibration /\ ~CalibrationIsDue
      BY <2>3 DEF ReportTypeOK, needs_calibration
    <3>2. ~(now - last_calibration > CALIBRATION_PERIOD)
      BY <3>1 DEF CalibrationIsDue
    <3> QED
      BY <3>2, <1>3, ReportAssumption DEF ReportTypeOK
  <2>5. /\ calibration_offset' \in Int /\ last_calibration' \in Nat
        /\ has_calibration' \in BOOLEAN
        /\ has_calibration' =>
             time_domain \in LocalClock /\ last_calibration' \in Instant
    BY <2>1 DEF ReportTypeOK
  <2>6. placed' \in Placed \union {None} /\ SampleIsClose'
    BY <1>1, <2>2, <2>3, <2>4, <2>5, PlaceFacts
  <2> QED
    BY <1>4, <2>2, <2>5, <2>6
<1> QED
  BY <1>5, <1>6 DEF Poll

\* Handing the sample over leaves a measurement as it is, like no step at all.
LEMMA KeptInv ==
  ASSUME RInv, UNCHANGED <<vars, time_domain, calibrationVars>>,
         placed' = placed \/ placed' = None
  PROVE  RInv'
<1> USE DEF RInv
<1>1. IInv'
  <2>1. [Next]_vars
    OBVIOUS
  <2> QED
    BY <2>1, NextInv
<1>2. now' = now /\ takenAt' = takenAt
  BY DEF vars, pairVars
<1>3. ReportTypeOK'
  BY <1>1 DEF IInv, ReportTypeOK, calibrationVars
<1>4. OffsetInv'
  BY <1>2 DEF OffsetInv, calibrationVars, Shift, Abs
<1>5. SampleIsClose'
  BY <1>2 DEF SampleIsClose, Misplaced, Shift, MaxDrift, Larger, Abs, Lap, Elapsed
<1> QED
  BY <1>1, <1>3, <1>4, <1>5

\* No step of the clock or of a poll breaks the invariant.
LEMMA ReportNextInv == RInv /\ [ReportNext]_<<vars, reportVars>> => RInv'
<1> SUFFICES ASSUME RInv, [ReportNext]_<<vars, reportVars>> PROVE RInv'
  OBVIOUS
<1>1. CASE Hand
  BY <1>1, KeptInv DEF Hand
<1>2. CASE placed = None /\ Next /\ UNCHANGED reportVars
  BY <1>2, ReportClockInv
<1>3. CASE \E d \in Domain, at \in Instant, usable \in BOOLEAN : Poll(d, at, usable)
  BY <1>3, PollInv
<1>4. CASE UNCHANGED <<vars, reportVars>>
  BY <1>4, KeptInv DEF reportVars
<1> QED
  BY <1>1, <1>2, <1>3, <1>4 DEF ReportNext

\* A stored pair and a stored measurement are readings of one moment.
THEOREM ReportInvariance == ReportSpec => []RInv
BY ReportInitInv, ReportNextInv, PTL DEF ReportSpec

\* Every variable of the clock and of the feedback has its type.
THEOREM ReportTypeCorrect == ReportSpec => []ReportTypeOK
<1>1. RInv => ReportTypeOK
  BY DEF RInv
<1> QED
  BY <1>1, ReportInvariance, PTL

\* A report in the domain that was asked for, or in that of the host or of the
\* device, is placed within the error of its clock of the time it tells; one in
\* another clock of the swapchain is off by the distance of the two clocks.
THEOREM SamplesAreClose == ReportSpec => []SampleIsClose
<1>1. RInv => SampleIsClose
  BY DEF RInv
<1> QED
  BY <1>1, ReportInvariance, PTL

-----------------------------------------------------------------------------
(* Two timestamps that are converted with one pair, as the ends of a span  *)
(* are unless the pair is replaced in between.                             *)

\* A multiplier cancels, also when less than one multiple is lost.
LEMMA CancelFacts ==
  ASSUME NEW b \in Nat \ {0}, NEW x \in Int, NEW y \in Int, b * x < b * y + b
  PROVE  x <= y
<1>1. ASSUME y + 1 <= x PROVE FALSE
  <2>1. x - (y + 1) \in Nat
    BY <1>1
  <2>2. b * (x - (y + 1)) >= 0
    BY <2>1
  <2>3. b * x - (b * y + b) = b * (x - (y + 1))
    OBVIOUS
  <2>4. b * x \in Int /\ b * y \in Int
    OBVIOUS
  <2> QED
    BY <2>2, <2>3, <2>4
<1> QED
  BY <1>1

\* Truncation toward zero keeps the order.
LEMMA TruncateKeepsOrder ==
  ASSUME NEW a \in Int, NEW c \in Int, NEW b \in Nat \ {0}, a <= c
  PROVE  Truncate(a, b) <= Truncate(c, b)
<1> DEFINE s == Truncate(a, b)
           t == Truncate(c, b)
<1>1. /\ s \in Int /\ t \in Int /\ b * s \in Int /\ b * t \in Int
      /\ b * s < a + b /\ c - b < b * t
      /\ a >= 0 => b * s <= a
      /\ c < 0 => c <= b * t
  BY TruncateFacts
<1>2. a < 0 /\ c >= 0 => s <= 0 /\ t >= 0
  BY DivisionFacts DEF Truncate
<1>3. ~(a < 0 /\ c >= 0) => b * s < b * t + b
  BY <1>1
<1> HIDE DEF s, t
<1>4. s <= t
  BY <1>1, <1>2, <1>3, CancelFacts
<1> QED
  BY <1>4 DEF s, t

\* The two conversions: what is truncated, and how far apart it is.
LEMMA ConvertedPair ==
  ASSUME IInv, NEW a \in Nat, NEW b \in Nat
  PROVE  \E x, y, h \in Int :
           /\ ticks_to_time(a) = h + Truncate(x, 2 * PeriodDen)
           /\ ticks_to_time(b) = h + Truncate(y, 2 * PeriodDen)
           /\ y - x = 2 * ((b - a) * PeriodNum)
<1> DEFINE x == 2 * SignedDifference(a) * PeriodNum + PeriodDen
           y == 2 * SignedDifference(b) * PeriodNum + PeriodDen
<1>1. /\ device_ticks \in Int /\ host_ns \in Int
      /\ PeriodNum \in Int /\ PeriodDen \in Int
  BY ClockAssumption DEF IInv, TypeOK
<1>2. x \in Int /\ y \in Int
  BY <1>1 DEF SignedDifference
<1>3. y - x = 2 * ((b - a) * PeriodNum)
  BY <1>1 DEF SignedDifference
<1>4. /\ ticks_to_time(a) = host_ns + Truncate(x, 2 * PeriodDen)
      /\ ticks_to_time(b) = host_ns + Truncate(y, 2 * PeriodDen)
  BY DEF ticks_to_time
<1> HIDE DEF x, y
<1> QED
  BY <1>1, <1>2, <1>3, <1>4

\* A later timestamp is never converted to an earlier time, on whatever side of
\* the pair's reading the two lie: with one pair, the end of a span does not come
\* before its start.
THEOREM ConversionKeepsOrder ==
  ASSUME IInv, NEW a \in Nat, NEW b \in Nat, a <= b
  PROVE  ticks_to_time(a) <= ticks_to_time(b)
<1>1. PICK x \in Int, y \in Int, h \in Int :
        /\ ticks_to_time(a) = h + Truncate(x, 2 * PeriodDen)
        /\ ticks_to_time(b) = h + Truncate(y, 2 * PeriodDen)
        /\ y - x = 2 * ((b - a) * PeriodNum)
  BY ConvertedPair
<1>2. 2 * PeriodDen \in Nat \ {0} /\ PeriodNum \in Nat
  BY ClockAssumption
<1>3. (b - a) * PeriodNum >= 0
  <2>1. b - a \in Nat
    OBVIOUS
  <2> QED
    BY <1>2, <2>1
<1>4. x <= y
  <2>1. (b - a) * PeriodNum \in Int
    BY <1>2
  <2> QED
    BY <1>1, <1>3, <2>1
<1>5. Truncate(x, 2 * PeriodDen) <= Truncate(y, 2 * PeriodDen)
  BY <1>2, <1>4, TruncateKeepsOrder
<1>6. Truncate(x, 2 * PeriodDen) \in Int /\ Truncate(y, 2 * PeriodDen) \in Int
  BY <1>2, TruncateFacts
<1> QED
  BY <1>1, <1>5, <1>6

\* The time between two timestamps is converted to within two nanoseconds, however
\* large the error of the pair is: it cancels, and only rounding is left.  The
\* frame times of await_work are of this kind.
THEOREM DurationsAreClose ==
  ASSUME IInv, NEW a \in Nat, NEW b \in Nat
  PROVE  LET elapsed == ticks_to_time(b) - ticks_to_time(a)
         IN  /\ (b - a) * PeriodNum - 2 * PeriodDen < elapsed * PeriodDen
             /\ elapsed * PeriodDen < (b - a) * PeriodNum + 2 * PeriodDen
<1>1. PICK x \in Int, y \in Int, h \in Int :
        /\ ticks_to_time(a) = h + Truncate(x, 2 * PeriodDen)
        /\ ticks_to_time(b) = h + Truncate(y, 2 * PeriodDen)
        /\ y - x = 2 * ((b - a) * PeriodNum)
  BY ConvertedPair
<1> DEFINE s == Truncate(x, 2 * PeriodDen)
           t == Truncate(y, 2 * PeriodDen)
           elapsed == ticks_to_time(b) - ticks_to_time(a)
           d == (b - a) * PeriodNum
<1>2. 2 * PeriodDen \in Nat \ {0} /\ PeriodNum \in Nat /\ PeriodDen \in Nat
  BY ClockAssumption
<1>3. /\ s \in Int /\ t \in Int
      /\ x - 2 * PeriodDen < (2 * PeriodDen) * s /\ (2 * PeriodDen) * s < x + 2 * PeriodDen
      /\ y - 2 * PeriodDen < (2 * PeriodDen) * t /\ (2 * PeriodDen) * t < y + 2 * PeriodDen
  BY <1>2, TruncateFacts
<1>4. elapsed = t - s
  BY <1>1, <1>3
<1>5. d \in Int /\ y - x = 2 * d
  BY <1>1, <1>2
<1> HIDE DEF s, t, d, elapsed
<1>6. /\ (2 * PeriodDen) * s = 2 * (s * PeriodDen)
      /\ (2 * PeriodDen) * t = 2 * (t * PeriodDen)
      /\ s * PeriodDen \in Int /\ t * PeriodDen \in Int
      /\ (t - s) * PeriodDen = t * PeriodDen - s * PeriodDen
  BY <1>2, <1>3
<1>7. /\ d - 2 * PeriodDen < t * PeriodDen - s * PeriodDen
      /\ t * PeriodDen - s * PeriodDen < d + 2 * PeriodDen
  BY <1>2, <1>3, <1>5, <1>6
<1> QED
  BY <1>4, <1>6, <1>7 DEF d, elapsed
=============================================================================
