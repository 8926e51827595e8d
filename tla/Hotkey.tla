------------------------------- MODULE Hotkey -------------------------------
(***************************************************************************)
(* HotkeyMonitor: a worker thread polls the key state of every watched     *)
(* input device, one ioctl after the other, and calls back when shift and  *)
(* the trigger key have gone down; the callback flips the layer's          *)
(* effect_enabled.  Keys go up and down while it polls, and the monitor's  *)
(* owner may destroy it.                                                   *)
(*                                                                         *)
(* Abstracted: the two shift keys are one, the sleep between two polls     *)
(* takes any time, and devices do not come or go (the list is made once).  *)
(***************************************************************************)
EXTENDS Naturals

CONSTANTS
  Device,      \* the watched input devices
  MaxEvents    \* bound: key events

ASSUME HotkeyAssumption == Device # {} /\ MaxEvents \in Nat

Key == {"trigger", "shift"}

VARIABLES
  down,         \* the keys that are down, each on its device
  open,         \* the devices whose descriptor is open
  life,         \* of the monitor: alive, closing, joining, gone
  stopping,     \* stop was requested of the worker
  worker,       \* checking, reading, deciding, sleeping or done
  unread,       \* the devices this poll has still to read
  seen,         \* the keys this poll has found down
  wasPressed,   \* was_pressed
  enabled,      \* LayerContext::effect_enabled
  events,       \* history: number of key events
  flips,        \* history: calls of the callback since the last key event,
                \* not counted after a stray read
  strayRead     \* history: the worker has used a closed descriptor

keyVars == <<down, events>>
ownerVars == <<open, life, stopping>>
pollVars == <<worker, unread, seen, wasPressed>>
vars == <<keyVars, ownerVars, pollVars, enabled, flips, strayRead>>

Init ==
  /\ down = {}
  /\ open = Device
  /\ life = "alive"
  /\ stopping = FALSE
  /\ worker = "checking"
  /\ unread = {}
  /\ seen = {}
  /\ wasPressed = FALSE
  /\ enabled \in BOOLEAN
  /\ events = 0
  /\ flips = 0
  /\ strayRead = FALSE

\* A key (external) goes down or up.
KeyEvent(d, k) ==
  /\ events < MaxEvents
  /\ events' = events + 1
  /\ down' = IF <<d, k>> \in down THEN down \ {<<d, k>>} ELSE down \union {<<d, k>>}
  /\ flips' = 0
  /\ UNCHANGED <<ownerVars, pollVars, enabled, strayRead>>

-----------------------------------------------------------------------------
(* The worker: HotkeyMonitor::run with is_pressed. *)

Goto(where) == worker' = where

\* Wrong on purpose: the stop is not looked at.
CheckForever ==
  /\ worker = "checking"
  /\ Goto("reading")
  /\ unread' = Device
  /\ seen' = {}
  /\ UNCHANGED <<keyVars, ownerVars, wasPressed, enabled, flips, strayRead>>

Check ==
  /\ worker = "checking"
  /\ IF stopping THEN Goto("done") /\ UNCHANGED <<unread, seen>>
     ELSE Goto("reading") /\ unread' = Device /\ seen' = {}
  /\ UNCHANGED <<keyVars, ownerVars, wasPressed, enabled, flips, strayRead>>

\* Wrong on purpose: a device without the shift key has the trigger ignored, so
\* both have to be on one device.
ReadOneDevice(d) ==
  /\ worker = "reading"
  /\ d \in unread
  /\ unread' = unread \ {d}
  /\ Goto(IF unread' = {} THEN "deciding" ELSE "reading")
  /\ seen' = IF Key \X {d} \subseteq {<<p[2], p[1]>> : p \in down} THEN Key ELSE seen
  /\ UNCHANGED <<keyVars, ownerVars, wasPressed, enabled, flips, strayRead>>

\* Wrong on purpose: a device that cannot be read ends the poll.
ReadGivesUp(d) ==
  /\ worker = "reading"
  /\ d \in unread
  /\ unread' = unread \ {d}
  /\ Goto(IF unread' = {} \/ d \notin open THEN "deciding" ELSE "reading")
  /\ seen' = seen \union {k \in Key : <<d, k>> \in down}
  /\ strayRead' = (strayRead \/ d \notin open)
  /\ UNCHANGED <<keyVars, ownerVars, wasPressed, enabled, flips>>

\* One EVIOCGKEY.  On a closed descriptor it fails, or, where the number has
\* been given to another device by now, it answers for that one.
Read(d) ==
  /\ worker = "reading"
  /\ d \in unread
  /\ unread' = unread \ {d}
  /\ Goto(IF unread' = {} THEN "deciding" ELSE "reading")
  /\ IF d \in open
     THEN /\ seen' = seen \union {k \in Key : <<d, k>> \in down}
          /\ UNCHANGED strayRead
     ELSE /\ \E keys \in SUBSET Key : seen' = seen \union keys
          /\ strayRead' = TRUE
  /\ UNCHANGED <<keyVars, ownerVars, wasPressed, enabled, flips>>

Pressed == seen = Key

\* Wrong on purpose: the combination counts for as long as it is held.
DecideLevel ==
  /\ worker = "deciding"
  /\ Goto("sleeping")
  /\ wasPressed' = Pressed
  /\ IF Pressed
     THEN enabled' = ~enabled /\ flips' = flips + 1
     ELSE UNCHANGED <<enabled, flips>>
  /\ UNCHANGED <<keyVars, ownerVars, unread, seen, strayRead>>

Decide ==
  /\ worker = "deciding"
  /\ Goto("sleeping")
  /\ wasPressed' = Pressed
  /\ IF Pressed /\ ~wasPressed
     THEN enabled' = ~enabled /\ flips' = IF strayRead THEN flips ELSE flips + 1
     ELSE UNCHANGED <<enabled, flips>>
  /\ UNCHANGED <<keyVars, ownerVars, unread, seen, strayRead>>

Wake ==
  /\ worker = "sleeping"
  /\ Goto("checking")
  /\ UNCHANGED <<keyVars, ownerVars, unread, seen, wasPressed, enabled, flips,
                 strayRead>>

-----------------------------------------------------------------------------
(* The destructor.  Its body runs before the members are destroyed, so the *)
(* descriptors are closed first; destroying `worker' then requests the     *)
(* stop and joins.                                                         *)

BeginDestruction ==
  /\ life = "alive"
  /\ life' = "closing"
  /\ UNCHANGED <<open, stopping, keyVars, pollVars, enabled, flips, strayRead>>

Close(d) ==
  /\ life = "closing"
  /\ d \in open
  /\ open' = open \ {d}
  /\ UNCHANGED <<life, stopping, keyVars, pollVars, enabled, flips, strayRead>>

RequestStop ==
  /\ life = "closing"
  /\ open = {}
  /\ life' = "joining"
  /\ stopping' = TRUE
  /\ UNCHANGED <<open, keyVars, pollVars, enabled, flips, strayRead>>

Join ==
  /\ life = "joining"
  /\ worker = "done"
  /\ life' = "gone"
  /\ UNCHANGED <<open, stopping, keyVars, pollVars, enabled, flips, strayRead>>

Gone == life = "gone" /\ UNCHANGED vars

-----------------------------------------------------------------------------
Worker == Check \/ (\E d \in Device : Read(d)) \/ Decide \/ Wake
Destructor == (\E d \in Device : Close(d)) \/ RequestStop \/ Join

Next ==
  \/ \E d \in Device, k \in Key : KeyEvent(d, k)
  \/ Worker \/ BeginDestruction \/ Destructor \/ Gone

Spec == Init /\ [][Next]_vars

(* The worker runs, and a destruction that has begun goes on.  Nobody has  *)
(* to press a key or to destroy the monitor.                               *)
FairSpec == Spec /\ WF_vars(Worker) /\ WF_vars(Destructor)

-----------------------------------------------------------------------------
(* Properties. *)

TypeOK ==
  /\ down \subseteq Device \X Key
  /\ open \subseteq Device
  /\ life \in {"alive", "closing", "joining", "gone"}
  /\ stopping \in BOOLEAN
  /\ worker \in {"checking", "reading", "deciding", "sleeping", "done"}
  /\ unread \subseteq Device
  /\ worker = "reading" <=> unread # {}
  /\ seen \subseteq Key
  /\ wasPressed \in BOOLEAN
  /\ enabled \in BOOLEAN
  /\ events \in 0..MaxEvents
  /\ flips \in Nat
  /\ strayRead \in BOOLEAN

\* "Edge triggered, so holding the combination toggles once": between two key
\* events the callback runs at most once, although a poll that keys change
\* under may see a combination that was never down.
HoldTogglesOnce == flips <= 1

\* The combination is down, each key on any device.
Combination == \A k \in Key : \E d \in Device : <<d, k>> \in down

\* "A deliberate keypress is never missed": a combination that stays down is
\* seen, and the next one can only be seen after this one was let go.
HeldCombinationIsSeen ==
  /\ (Combination /\ life = "alive") ~> (wasPressed \/ ~Combination \/ life # "alive")
  /\ (down = {} /\ life = "alive") ~> (~wasPressed \/ down # {} \/ life # "alive")

\* The destructor ends: the worker leaves its loop even if no key moves.
DestructionEnds == (life = "closing") ~> (life = "gone")

\* hotkey.cc:90-91 says of the destructor's body that the worker "has already
\* been stopped and joined by the time this runs".
WorkerStoppedBeforeClose == open # Device => worker = "done"
=============================================================================
