----------------------------- MODULE DeviceClock -----------------------------
(***************************************************************************)
(* DeviceClock puts GPU timestamps on the axis of CLOCK_MONOTONIC.  A      *)
(* thread takes a pair of simultaneous readings of the device's counter    *)
(* and of the host's clock, once a second until the device is destroyed;   *)
(* ticks_to_time converts with the pair stored last.                       *)
(*                                                                         *)
(* Time is in nanoseconds.  A tick lasts PeriodNum / PeriodDen of them     *)
(* (limits.timestampPeriod), and the counter has Wrap values               *)
(* (timestampValidBits).  The pair is replaced reading by reading, under   *)
(* DeviceClock::mutex; a conversion holds the mutex shared, and so is made *)
(* in one state, in which nobody holds it exclusively.                     *)
(*                                                                         *)
(* Abstracted: the wait takes any time, not a second, and the arithmetic   *)
(* of double is exact (differences below 2^53 ticks).                      *)
(***************************************************************************)
EXTENDS Integers

CONSTANTS
  Instant,      \* the times at which something may happen
  PeriodNum, PeriodDen,
  Wrap,
  Deviation     \* how far apart the readings of a pair may be

ASSUME ClockAssumption ==
  /\ Instant \subseteq Nat
  /\ PeriodNum \in Nat \ {0} /\ PeriodDen \in Nat \ {0} /\ Wrap \in Nat \ {0}
  /\ Deviation \in Nat

VARIABLES
  now,            \* the time
  device_ticks,   \* the pair that conversions use
  host_ns,
  exclusive,      \* the mutex is held exclusively
  sample,         \* the pair the thread has read and not stored
  thread,         \* checking, calibrating, storing, storingHost, waiting, done
                  \* or terminated
  life,           \* of the DeviceClock: alive, joining or gone
  takenAt         \* history: when the stored pair was taken

pairVars == <<device_ticks, host_ns, takenAt, exclusive>>
vars == <<now, pairVars, sample, thread, life>>

Abs(x) == IF x < 0 THEN -x ELSE x

\* The ticks that have passed at a time.
Elapsed(t) == (t * PeriodDen) \div PeriodNum

\* The device's counter (external), and how often it has started over.
Counter(t) == Elapsed(t) % Wrap

Lap(t) == Elapsed(t) \div Wrap

-----------------------------------------------------------------------------
(* ticks_to_time. *)

\* The difference of two unsigned numbers, with its sign.
SignedDifference(ticks) == ticks - device_ticks

\* static_cast<std::int64_t>: the fraction is dropped.
Truncate(num, den) == IF num >= 0 THEN num \div den ELSE -((-num) \div den)

\* difference * period + 0.5, truncated, and the host's reading.
ticks_to_time(ticks) ==
  host_ns + Truncate(2 * SignedDifference(ticks) * PeriodNum + PeriodDen, 2 * PeriodDen)

-----------------------------------------------------------------------------
(* The calibration thread.  The constructor has calibrated before it.      *)

\* What vkGetCalibratedTimestamps (external) may answer at this time.
Readings(t) ==
  [device : {Counter(t)}, host : {h \in (t - Deviation)..(t + Deviation) : h >= 0},
   at : {t}]

Init ==
  /\ now \in Instant
  /\ sample \in Readings(now)
  /\ device_ticks = sample.device
  /\ host_ns = sample.host
  /\ takenAt = sample.at
  /\ exclusive = FALSE
  /\ thread = "checking"
  /\ life = "alive"

\* A stop is requested by the destructor, and not before.
stop_requested == life # "alive"

Goto(where) == thread' = where

Check ==
  /\ thread = "checking"
  /\ Goto(IF stop_requested THEN "done" ELSE "calibrating")
  /\ UNCHANGED <<now, pairVars, sample, life>>

Calibrate ==
  /\ thread = "calibrating"
  /\ Goto("storing")
  /\ sample' \in Readings(now)
  /\ UNCHANGED <<now, pairVars, life>>

\* The driver's call fails: the exception leaves the thread's function, which
\* terminates the process.
Fail ==
  /\ thread = "calibrating"
  /\ Goto("terminated")
  /\ UNCHANGED <<now, pairVars, sample, life>>

\* Wrong on purpose: the mutex is not taken.
StoreTicksUnlocked ==
  /\ thread = "storing"
  /\ Goto("storingHost")
  /\ device_ticks' = sample.device
  /\ UNCHANGED <<now, host_ns, takenAt, exclusive, sample, life>>

\* The exclusive section begins with the one reading ...
StoreTicks ==
  /\ thread = "storing"
  /\ Goto("storingHost")
  /\ exclusive' = TRUE
  /\ device_ticks' = sample.device
  /\ UNCHANGED <<now, host_ns, takenAt, sample, life>>

\* ... and ends with the other.
StoreHost ==
  /\ thread = "storingHost"
  /\ Goto("waiting")
  /\ exclusive' = FALSE
  /\ host_ns' = sample.host
  /\ takenAt' = sample.at
  /\ UNCHANGED <<now, device_ticks, sample, life>>

\* The period is over ...
TimeOut ==
  /\ thread = "waiting"
  /\ Goto("checking")
  /\ UNCHANGED <<now, pairVars, sample, life>>

\* ... or the stop ends the wait: the stop token's callback notifies, and the
\* request is looked at under the lock that the wait gives up.
Notified ==
  /\ thread = "waiting"
  /\ stop_requested
  /\ Goto("checking")
  /\ UNCHANGED <<now, pairVars, sample, life>>

-----------------------------------------------------------------------------
(* The environment and the destructor. *)

\* Time goes on to any later instant while the process lives.
Advance(t) ==
  /\ t > now
  /\ thread # "terminated"
  /\ now' = t
  /\ UNCHANGED <<pairVars, sample, thread, life>>

\* ~DeviceClock requests the stop, and the thread's destructor joins it.
RequestStop ==
  /\ life = "alive"
  /\ thread # "terminated"
  /\ life' = "joining"
  /\ UNCHANGED <<now, pairVars, sample, thread>>

Join ==
  /\ life = "joining"
  /\ thread = "done"
  /\ life' = "gone"
  /\ UNCHANGED <<now, pairVars, sample, thread>>

Ended == (life = "gone" \/ thread = "terminated") /\ UNCHANGED vars

Next ==
  \/ Check \/ Calibrate \/ Fail \/ StoreTicks \/ StoreHost \/ TimeOut \/ Notified
  \/ \E t \in Instant : Advance(t)
  \/ RequestStop \/ Join \/ Ended

Spec == Init /\ [][Next]_vars

-----------------------------------------------------------------------------
(* Properties. *)

TypeOK ==
  /\ now \in Instant
  /\ device_ticks \in 0..(Wrap - 1)
  /\ host_ns \in Nat
  /\ takenAt \in Instant
  /\ sample \in [device : 0..(Wrap - 1), host : Nat, at : Instant]
  /\ exclusive \in BOOLEAN
  /\ thread \in {"checking", "calibrating", "storing", "storingHost", "waiting",
                  "done", "terminated"}
  /\ life \in {"alive", "joining", "gone"}

\* A timestamp is converted to the time it was written at, within the error of
\* the calibration, one tick and three halves of a nanosecond, whether it was
\* written before or after the pair was taken, in every state in which the mutex
\* lets a thread convert, although the thread of the clock replaces one reading
\* after the other.  (Before the pair the half that is added for rounding and the
\* truncation go the same way.)  Only the counter must not have started over in
\* between.
ConversionIsClose ==
  \A t \in Instant :
    ~exclusive /\ t <= now /\ Lap(t) = Lap(takenAt) =>
      2 * PeriodDen * Abs(ticks_to_time(Counter(t)) - t)
        <= 2 * PeriodNum + PeriodDen * (2 * Deviation + 3)
=============================================================================
