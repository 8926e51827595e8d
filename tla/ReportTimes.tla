----------------------------- MODULE ReportTimes -----------------------------
(***************************************************************************)
(* How PresentTimingFeedback puts the times of the driver's reports on the *)
(* axis of DeviceClock.  A report is in one of several time domains: that  *)
(* of the host's clock, the device's counter, which DeviceClock converts,  *)
(* or one of the swapchain's own clocks.  If the feedback has asked for    *)
(* one of those, its distance from the host's clock is measured when a     *)
(* poll finds the last measurement older than a period.                    *)
(*                                                                         *)
(* Abstracted: a poll takes no time ("implementations must be non-blocking *)
(* in poll()"), it reports one frame, and when the driver answers it is    *)
(* DeadlinePacing's business.                                              *)
(***************************************************************************)
EXTENDS DeviceClock

CONSTANTS
  LocalClock,           \* the swapchain's clocks: PRESENT_STAGE_LOCAL and
                        \* SWAPCHAIN_LOCAL, each with a timeDomainId
  LocalTime,            \* what each of them shows at an instant
  DriftDen,             \* they gain or lose one in DriftDen at most
  CALIBRATION_PERIOD,
  None

\* The domains that create may choose and to_time_point can place.
Domain == {"monotonic", "device"} \union LocalClock

\* How far a clock is ahead of the host's.
Shift(clock, t) == LocalTime[clock][t] - t

Placed == [domain : Domain, displayed : Int, at : Instant, recent : BOOLEAN]

ASSUME ReportAssumption ==
  /\ "monotonic" \notin LocalClock /\ "device" \notin LocalClock
  /\ LocalTime \in [LocalClock -> [Instant -> Nat]]
  /\ DriftDen \in Nat \ {0} /\ CALIBRATION_PERIOD \in Nat
  /\ \A clock \in LocalClock, s, t \in Instant :
       DriftDen * Abs(Shift(clock, t) - Shift(clock, s)) <= Abs(t - s)
  /\ None \notin Placed

VARIABLES
  time_domain,         \* the one chosen when the feedback was created
  calibration_offset,
  last_calibration,
  has_calibration,
  placed               \* what a poll has just made of its report, for its caller

calibrationVars == <<calibration_offset, last_calibration, has_calibration>>
reportVars == <<time_domain, calibrationVars, placed>>

ReportInit ==
  /\ Init
  /\ time_domain \in Domain
  /\ calibration_offset = 0
  /\ last_calibration = 0
  /\ has_calibration = FALSE
  /\ placed = None

-----------------------------------------------------------------------------
needs_calibration == time_domain \in LocalClock

\* Wrong on purpose: it is enough to have measured once.
CalibrationIsDueOnce == needs_calibration /\ ~has_calibration

CalibrationIsDue ==
  /\ needs_calibration
  /\ ~has_calibration \/ now - last_calibration > CALIBRATION_PERIOD

\* Wrong on purpose: the reading takes the place of the time it was made at.
calibrateAtReading ==
  \E host \in (now - Deviation)..(now + Deviation) :
    /\ calibration_offset' = host - LocalTime[time_domain][now]
    /\ last_calibration' = host
    /\ has_calibration' = TRUE

\* The driver answers with a pair of readings of this moment, of the clock that
\* was asked for and of the host's.
calibrate ==
  \E host \in (now - Deviation)..(now + Deviation) :
    /\ calibration_offset' = host - LocalTime[time_domain][now]
    /\ last_calibration' = now
    /\ has_calibration' = TRUE

\* What the driver (external) writes for a frame, in the domain of the report.
ReportedTime(domain, at) ==
  CASE domain = "monotonic" -> at
    [] domain = "device" -> Counter(at)
    [] domain \in LocalClock -> LocalTime[domain][at]

\* A report says which domain it is in, which need not be the one asked for.
\* Clocks of the swapchain can be placed only with a measurement; which of them
\* was measured is not looked at, nor is the timeDomainId.
CanPlace(domain) == domain \in LocalClock => has_calibration'

to_time_point(domain, time) ==
  CASE domain = "monotonic" -> time
    [] domain = "device" -> ticks_to_time(time)
    [] domain \in LocalClock -> time + calibration_offset'

\* One report of a frame that became visible earlier.  One that is not complete,
\* lacks the stage or is in no known domain is passed over, like one that cannot
\* be placed.  `recent' notes that it does not go by a measurement that was due
\* to be repeated.
Place(domain, at, usable, recent) ==
  placed' = IF usable /\ CanPlace(domain)
            THEN [domain |-> domain, at |-> at, recent |-> recent,
                  displayed |-> to_time_point(domain, ReportedTime(domain, at))]
            ELSE None

\* A poll measures first, if that is due.  If the driver fails it keeps what it
\* has.  A tick is converted when nobody holds the mutex exclusively.
Poll(domain, at, usable) ==
  /\ life = "alive"
  /\ at <= now
  /\ domain = "device" => ~exclusive
  /\ \/ /\ CalibrationIsDue
        /\ calibrate
        /\ Place(domain, at, usable, TRUE)
     \/ /\ CalibrationIsDue
        /\ UNCHANGED calibrationVars
        /\ Place(domain, at, usable, domain \notin LocalClock)
     \/ /\ ~CalibrationIsDue
        /\ UNCHANGED calibrationVars
        /\ Place(domain, at, usable, TRUE)
  /\ UNCHANGED <<vars, time_domain>>

\* The caller has its sample.
Hand ==
  /\ placed # None
  /\ placed' = None
  /\ UNCHANGED <<vars, time_domain, calibrationVars>>

ReportNext ==
  \/ Hand
  \/ placed = None /\ Next /\ UNCHANGED reportVars
  \/ placed = None /\ \E d \in Domain, at \in Instant, usable \in BOOLEAN :
       Poll(d, at, usable)

ReportSpec == ReportInit /\ [][ReportNext]_<<vars, reportVars>>

-----------------------------------------------------------------------------
(* Properties. *)

ReportTypeOK ==
  /\ TypeOK
  /\ time_domain \in Domain
  /\ calibration_offset \in Int
  /\ last_calibration \in Nat
  /\ has_calibration \in BOOLEAN
  /\ has_calibration => time_domain \in LocalClock /\ last_calibration \in Instant
  /\ placed \in Placed \union {None}

\* How far a clock may have drifted between a measurement that is not older than
\* a period at the poll, and a frame that was shown before it.
Larger(a, b) == IF a > b THEN a ELSE b
MaxDrift(report) == Larger(CALIBRATION_PERIOD, now - report.at)

\* By how much a report of one clock is misplaced with the measurement of another:
\* nothing if it is in the domain that was asked for.
Misplaced(domain, at) ==
  IF domain \in LocalClock THEN Shift(domain, at) - Shift(time_domain, at) ELSE 0

\* However long the feedback has been polled, a report is placed where its frame
\* became visible: exactly if it is in the host's domain, within the error of
\* DeviceClock in the device's, and within that of one measurement and of a
\* period's drift in the clock of the swapchain that was asked for.  A report in
\* another of the swapchain's clocks is placed by the measurement of the one that
\* was asked for, and is off by the distance between the two, which nothing bounds.
SampleIsClose ==
  placed # None /\ placed.recent =>
    LET error == Abs(placed.displayed - placed.at
                       - Misplaced(placed.domain, placed.at))
    IN  /\ placed.domain = "monotonic" => error = 0
        /\ placed.domain = "device" /\ Lap(placed.at) = Lap(takenAt) =>
             2 * PeriodDen * error <= 2 * PeriodNum + PeriodDen * (2 * Deviation + 3)
        /\ placed.domain \in LocalClock =>
             DriftDen * error <= DriftDen * Deviation + MaxDrift(placed)
=============================================================================
