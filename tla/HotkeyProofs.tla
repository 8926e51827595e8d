---------------------------- MODULE HotkeyProofs ----------------------------
(***************************************************************************)
(* Proofs about Hotkey, for any devices and number of key events.          *)
(***************************************************************************)
EXTENDS Hotkey, FiniteSetTheorems, TLAPS

\* The keys that the devices read so far have down.
Found == {k \in Key : \E d \in Device \ unread : <<d, k>> \in down}

\* Once the callback has run since the last key event, every poll began after
\* that event: what it has seen is what is down, and a combination that is down
\* has been noticed.
CleanInv ==
  (flips = 1 /\ ~strayRead) =>
    /\ worker \in {"reading", "deciding"} => seen = Found
    /\ Combination => wasPressed

IInv == TypeOK /\ HoldTogglesOnce /\ CleanInv

-----------------------------------------------------------------------------
\* Nothing has been pressed or called back yet.
LEMMA InitInv == Init => IInv
<1> SUFFICES ASSUME Init PROVE IInv
  OBVIOUS
<1>1. TypeOK
  <2>1. /\ down \subseteq Device \X Key /\ open \subseteq Device
        /\ life \in {"alive", "closing", "joining", "gone"}
        /\ worker \in {"checking", "reading", "deciding", "sleeping", "done"}
        /\ unread \subseteq Device /\ seen \subseteq Key
    BY DEF Init
  <2>2. worker = "reading" <=> unread # {}
    BY DEF Init
  <2>3. events \in 0..MaxEvents /\ flips \in Nat
    BY HotkeyAssumption DEF Init
  <2>4. stopping \in BOOLEAN /\ wasPressed \in BOOLEAN /\ enabled \in BOOLEAN
        /\ strayRead \in BOOLEAN
    BY DEF Init
  <2> QED
    BY <2>1, <2>2, <2>3, <2>4 DEF TypeOK
<1>2. flips = 0
  BY DEF Init
<1> QED
  BY <1>1, <1>2 DEF IInv, HoldTogglesOnce, CleanInv

\* A step that leaves the worker, the keys and the effect alone.
LEMMA OwnerStep ==
  ASSUME IInv, UNCHANGED <<keyVars, pollVars, enabled, flips, strayRead>>,
         open' \subseteq Device, life' \in {"alive", "closing", "joining", "gone"},
         stopping' \in BOOLEAN
  PROVE  IInv'
<1>1. /\ down' = down /\ events' = events /\ worker' = worker /\ unread' = unread
      /\ seen' = seen /\ wasPressed' = wasPressed
      /\ enabled' = enabled /\ flips' = flips /\ strayRead' = strayRead
  BY DEF keyVars, pollVars
<1>2. Found' = Found /\ Combination' = Combination
  BY <1>1 DEF Found, Combination
<1>3. TypeOK'
  BY <1>1 DEF IInv, TypeOK
<1>4. HoldTogglesOnce'
  BY <1>1 DEF IInv, HoldTogglesOnce
<1>5. CleanInv'
  <2> SUFFICES ASSUME flips' = 1, ~strayRead'
               PROVE  /\ worker' \in {"reading", "deciding"} => seen' = Found'
                      /\ Combination' => wasPressed'
    BY DEF CleanInv
  <2>1. flips = 1 /\ ~strayRead
    BY <1>1
  <2>2. /\ worker \in {"reading", "deciding"} => seen = Found
        /\ Combination => wasPressed
    BY <2>1 DEF IInv, CleanInv
  <2>3. worker' \in {"reading", "deciding"} => seen' = Found'
    BY <1>1, <1>2, <2>2
  <2>4. Combination' => wasPressed'
    BY <1>1, <1>2, <2>2, Zenon
  <2> QED
    BY <2>3, <2>4
<1> QED
  BY <1>3, <1>4, <1>5 DEF IInv

\* A key that moves starts the count again.
LEMMA KeyStep ==
  ASSUME IInv, NEW d \in Device, NEW k \in Key, KeyEvent(d, k)
  PROVE  IInv'
<1>1. TypeOK'
  <2>1. /\ events \in 0..MaxEvents /\ events < MaxEvents /\ events' = events + 1
        /\ MaxEvents \in Nat
    BY HotkeyAssumption DEF IInv, TypeOK, KeyEvent
  <2>2. events' \in 0..MaxEvents
    BY <2>1
  <2>3. down' \subseteq Device \X Key
    BY DEF KeyEvent, IInv, TypeOK
  <2> QED
    BY <2>2, <2>3 DEF KeyEvent, IInv, TypeOK, ownerVars, pollVars
<1> QED
  BY <1>1 DEF KeyEvent, IInv, HoldTogglesOnce, CleanInv

\* A poll begins with nothing read, if there is anything to read.
LEMMA CheckStep ==
  ASSUME IInv, Check
  PROVE  IInv'
<1>1. /\ worker = "checking" /\ unread = {} /\ down' = down /\ wasPressed' = wasPressed
      /\ flips' = flips /\ strayRead' = strayRead /\ enabled' = enabled /\ events' = events
      /\ open' = open /\ life' = life /\ stopping' = stopping
      /\ \/ worker' = "done" /\ unread' = unread /\ seen' = seen
         \/ worker' = "reading" /\ unread' = Device /\ seen' = {}
  BY DEF Check, Goto, IInv, TypeOK, keyVars, ownerVars
<1>2. TypeOK'
  BY <1>1, HotkeyAssumption DEF IInv, TypeOK
<1>3. CleanInv'
  <2>1. Combination' = Combination
    BY <1>1 DEF Combination
  <2>2. worker' \in {"reading", "deciding"} => seen' = {} /\ Found' = {}
    BY <1>1 DEF Found
  <2> QED
    BY <1>1, <2>1, <2>2, Zenon DEF IInv, CleanInv
<1> QED
  BY <1>1, <1>2, <1>3 DEF IInv, HoldTogglesOnce

\* Reading a device that is open adds what it has down.
LEMMA ReadStep ==
  ASSUME IInv, NEW d \in Device, Read(d)
  PROVE  IInv'
<1>1. /\ worker = "reading" /\ d \in unread /\ unread' = unread \ {d}
      /\ worker' = (IF unread' = {} THEN "deciding" ELSE "reading")
      /\ down' = down /\ wasPressed' = wasPressed
      /\ flips' = flips /\ enabled' = enabled /\ events' = events
      /\ open' = open /\ life' = life /\ stopping' = stopping
  BY DEF Read, Goto, keyVars, ownerVars
<1>2. \/ strayRead' = strayRead /\ seen' = seen \union {k \in Key : <<d, k>> \in down}
      \/ strayRead' = TRUE /\ \E keys \in SUBSET Key : seen' = seen \union keys
  BY DEF Read
<1>3. seen' \subseteq Key /\ strayRead' \in BOOLEAN
  BY <1>2 DEF IInv, TypeOK
<1>4. TypeOK'
  BY <1>1, <1>3 DEF IInv, TypeOK
<1>5. CleanInv'
  <2> SUFFICES ASSUME flips' = 1, ~strayRead'
               PROVE  seen' = Found' /\ (Combination' => wasPressed')
    BY DEF CleanInv
  <2>1. seen = Found /\ (Combination => wasPressed)
    <3>1. flips = 1
      BY <1>1
    <3>2. ~strayRead
      <4>1. strayRead' = strayRead \/ strayRead' = TRUE
        BY <1>2
      <4> QED
        BY <4>1, Zenon
    <3> QED
      BY <1>1, <3>1, <3>2 DEF IInv, CleanInv
  <2>2. seen' = seen \union {k \in Key : <<d, k>> \in down}
    BY <1>2
  <2>3. Combination' = Combination
    BY <1>1 DEF Combination
  <2>4. Found' = Found \union {k \in Key : <<d, k>> \in down}
    <3>1. Found' = {k \in Key : \E e \in Device \ (unread \ {d}) : <<e, k>> \in down}
      BY <1>1 DEF Found
    <3>2. Device \ (unread \ {d}) = (Device \ unread) \union {d}
      OBVIOUS
    <3> QED
      BY <3>1, <3>2 DEF Found
  <2> QED
    BY <1>1, <2>1, <2>2, <2>3, <2>4, Zenon
<1> QED
  BY <1>1, <1>4, <1>5 DEF IInv, HoldTogglesOnce

\* A decision that finds the callback run already does not run it again.
LEMMA DecideStep ==
  ASSUME IInv, Decide
  PROVE  IInv'
<1>1. /\ worker = "deciding" /\ worker' = "sleeping" /\ unread' = unread /\ seen' = seen
      /\ down' = down /\ wasPressed' = Pressed /\ strayRead' = strayRead /\ events' = events
      /\ open' = open /\ life' = life /\ stopping' = stopping /\ unread = {}
  BY DEF Decide, Goto, keyVars, ownerVars, IInv, TypeOK
<1>2. /\ enabled' \in BOOLEAN /\ Pressed \in BOOLEAN
      /\ \/ flips' = flips
         \/ Pressed /\ ~wasPressed /\ ~strayRead /\ flips' = flips + 1
  BY DEF Decide, IInv, TypeOK, Pressed
<1>3. Combination' = Combination
  BY <1>1 DEF Combination
<1>4. flips \in Nat /\ (flips = 0 \/ flips = 1)
  BY DEF IInv, TypeOK, HoldTogglesOnce
<1>5. ASSUME flips = 1, ~strayRead
      PROVE  (Pressed <=> Combination) /\ (Combination => wasPressed)
  <2>1. seen = Found /\ (Combination => wasPressed)
    BY <1>1, <1>5 DEF IInv, CleanInv
  <2>2. Found = {k \in Key : \E d \in Device : <<d, k>> \in down}
    BY <1>1 DEF Found
  <2>3. Found = Key <=> Combination
    BY <2>2 DEF Combination
  <2> QED
    BY <2>1, <2>3 DEF Pressed
<1>6. flips' \in Nat /\ flips' <= 1
  <2>1. CASE flips = 1 /\ Pressed /\ ~wasPressed /\ ~strayRead
    BY <1>5, <2>1
  <2>2. CASE ~(flips = 1 /\ Pressed /\ ~wasPressed /\ ~strayRead)
    BY <1>2, <1>4, <2>2
  <2> QED
    BY <2>1, <2>2
<1>7. TypeOK'
  BY <1>1, <1>2, <1>6 DEF IInv, TypeOK
<1>8. (flips' = 1 /\ ~strayRead') => (Combination' => wasPressed')
  <2> SUFFICES ASSUME flips' = 1, ~strayRead', Combination'
               PROVE  Pressed
    BY <1>1
  <2>1. CASE flips = 1
    BY <1>1, <1>3, <1>5, <2>1
  <2>2. CASE flips = 0
    BY <1>2, <2>2
  <2> QED
    BY <1>4, <2>1, <2>2
<1>9. CleanInv'
  BY <1>1, <1>8 DEF CleanInv
<1> QED
  BY <1>6, <1>7, <1>9 DEF IInv, HoldTogglesOnce

\* Every step keeps the invariant.
LEMMA NextInv == IInv /\ [Next]_vars => IInv'
<1> SUFFICES ASSUME IInv, [Next]_vars PROVE IInv'
  OBVIOUS
<1> USE DEF ownerVars
<1>1. CASE \E d \in Device, k \in Key : KeyEvent(d, k)
  BY <1>1, KeyStep
<1>2. CASE Check
  BY <1>2, CheckStep
<1>3. CASE \E d \in Device : Read(d)
  BY <1>3, ReadStep
<1>4. CASE Decide
  BY <1>4, DecideStep
<1>5. CASE Wake
  <2>1. /\ worker = "sleeping" /\ worker' = "checking"
        /\ UNCHANGED <<down, events, open, life, stopping, unread, seen, wasPressed,
                       enabled, flips, strayRead>>
    BY <1>5 DEF Wake, Goto, keyVars
  <2>2. TypeOK'
    BY <2>1 DEF IInv, TypeOK
  <2>3. Combination' = Combination
    BY <2>1 DEF Combination
  <2>4. CleanInv'
    BY <2>1, <2>3 DEF IInv, CleanInv
  <2> QED
    BY <2>1, <2>2, <2>4 DEF IInv, HoldTogglesOnce
<1>6. CASE BeginDestruction
  BY <1>6, OwnerStep DEF BeginDestruction, IInv, TypeOK
<1>7. CASE \E d \in Device : Close(d)
  BY <1>7, OwnerStep DEF Close, IInv, TypeOK
<1>8. CASE RequestStop
  BY <1>8, OwnerStep DEF RequestStop, IInv, TypeOK
<1>9. CASE Join
  BY <1>9, OwnerStep DEF Join, IInv, TypeOK
<1>10. CASE UNCHANGED vars
  BY <1>10, OwnerStep DEF vars, IInv, TypeOK
<1> QED
  BY <1>1, <1>2, <1>3, <1>4, <1>5, <1>6, <1>7, <1>8, <1>9, <1>10
     DEF Next, Worker, Destructor, Gone

-----------------------------------------------------------------------------
\* The invariant holds throughout.
LEMMA Invariance == Spec => []IInv
BY InitInv, NextInv, PTL DEF Spec

\* The types of the worker's, the owner's and the keys' variables.
THEOREM TypeCorrect == Spec => []TypeOK
<1>1. IInv => TypeOK
  BY DEF IInv
<1> QED
  BY <1>1, Invariance, PTL

\* Holding the combination toggles the effect once, on any number of devices and
\* however the keys move while they are polled.
THEOREM TogglesOnce == Spec => []HoldTogglesOnce
<1>1. IInv => HoldTogglesOnce
  BY DEF IInv
<1> QED
  BY <1>1, Invariance, PTL

-----------------------------------------------------------------------------
(* How the monitor makes progress.  What the fairness of FairSpec says is  *)
(* stated with the guards of the actions, each of which changes the state  *)
(* whenever its guard holds.  A poll takes as many steps as there are      *)
(* devices, so progress is measured by a number that has to fall.          *)

CanWork == worker # "done"
CanDestroy == life = "closing" \/ (life = "joining" /\ worker = "done")
WorkerGoesOn == []([]CanWork => <><<Worker>>_vars)
DestructorGoesOn == []([]CanDestroy => <><<Destructor>>_vars)

\* What the destructor and the polls rely on besides the invariant.
LifeInv ==
  /\ life = "alive" => open = Device
  /\ stopping <=> life \in {"joining", "gone"}
  /\ worker = "done" => stopping

\* The steps the worker has still to take once it has been told to stop.
WorkerLeft ==
  CASE worker = "reading" -> 3 + Cardinality(unread)
    [] worker = "deciding" -> 3
    [] worker = "sleeping" -> 2
    [] worker = "checking" -> 1
    [] worker = "done" -> 0

\* The steps to the end of a destruction that has begun.  As long as the stop
\* has not been requested, the worker may begin another poll.
Destroying == life \in {"closing", "joining"}
Left ==
  CASE life = "closing" -> Cardinality(open) + Cardinality(Device) + 5
    [] life = "joining" -> WorkerLeft + 1
    [] OTHER -> 0

\* The combination is down and has not been noticed, or is up and has not.
Due ==
  /\ life = "alive"
  /\ IF wasPressed THEN down = {} ELSE Combination

\* The poll under way will notice it, if no key moves.
Notices ==
  IF wasPressed THEN seen # Key
  ELSE \A k \in Key : k \in seen \/ \E d \in unread : <<d, k>> \in down

\* The steps until it has been noticed: those of this poll, or those of this
\* poll and of a whole one after it.
PollLeft ==
  CASE worker = "reading" -> (IF Notices THEN 0 ELSE Cardinality(Device) + 3) + 1 + Cardinality(unread)
    [] worker = "deciding" -> (IF Notices THEN 0 ELSE Cardinality(Device) + 3) + 1
    [] worker = "sleeping" -> Cardinality(Device) + 3
    [] worker = "checking" -> Cardinality(Device) + 2
    [] worker = "done" -> 0

-----------------------------------------------------------------------------
\* LifeInv holds: nothing is closed before the destruction begins, and the stop
\* is requested once everything is.
LEMMA LifeIsKept == Spec => []LifeInv
<1>1. Init => LifeInv
  BY DEF Init, LifeInv
<1>2. IInv /\ LifeInv /\ [Next]_vars => LifeInv'
  <2> SUFFICES ASSUME IInv, LifeInv, [Next]_vars PROVE LifeInv'
    OBVIOUS
  <2>1. CASE (\E d \in Device, k \in Key : KeyEvent(d, k)) \/ Gone \/ UNCHANGED vars
    <3>1. open' = open /\ life' = life /\ stopping' = stopping /\ worker' = worker
      BY <2>1, Zenon DEF KeyEvent, Gone, vars, ownerVars, pollVars
    <3> QED
      BY <3>1 DEF LifeInv
  <2>2. CASE Check
    BY <2>2 DEF LifeInv, Check, Goto, ownerVars
  <2>3. CASE (\E d \in Device : Read(d)) \/ Decide \/ Wake
    BY <2>3 DEF LifeInv, Read, Decide, Wake, Goto, ownerVars
  <2>4. CASE BeginDestruction \/ (\E d \in Device : Close(d)) \/ RequestStop \/ Join
    BY <2>4 DEF LifeInv, BeginDestruction, Close, RequestStop, Join, pollVars
  <2> QED
    BY <2>1, <2>2, <2>3, <2>4 DEF Next, Worker, Destructor
<1> QED
  BY <1>1, <1>2, Invariance, PTL DEF Spec

\* Devices are counted.
LEMMA CountFacts ==
  ASSUME IsFiniteSet(Device), IInv
  PROVE  /\ Cardinality(Device) \in Nat
         /\ Cardinality(open) \in Nat /\ Cardinality(unread) \in Nat
         /\ Cardinality(unread) <= Cardinality(Device)
         /\ \A d \in open : Cardinality(open \ {d}) = Cardinality(open) - 1
         /\ \A d \in unread : Cardinality(unread \ {d}) = Cardinality(unread) - 1
         /\ WorkerLeft \in 0..(Cardinality(Device) + 3)
         /\ Left \in Nat /\ PollLeft \in Nat
<1>1. open \subseteq Device /\ unread \subseteq Device
  BY DEF IInv, TypeOK
<1>2. /\ Cardinality(Device) \in Nat
      /\ Cardinality(open) \in Nat /\ Cardinality(unread) \in Nat
      /\ Cardinality(unread) <= Cardinality(Device)
      /\ IsFiniteSet(open) /\ IsFiniteSet(unread)
  BY <1>1, FS_Subset, FS_CardinalityType
<1>3. /\ \A d \in open : Cardinality(open \ {d}) = Cardinality(open) - 1
      /\ \A d \in unread : Cardinality(unread \ {d}) = Cardinality(unread) - 1
  BY <1>2, FS_RemoveElement
<1>4. worker \in {"checking", "reading", "deciding", "sleeping", "done"}
  BY DEF IInv, TypeOK
<1>5. WorkerLeft \in 0..(Cardinality(Device) + 3)
  BY <1>2, <1>4 DEF WorkerLeft
<1>6. Left \in Nat
  BY <1>2, <1>5 DEF Left
<1>7. PollLeft \in Nat
  BY <1>2, <1>4 DEF PollLeft
<1> QED
  BY <1>2, <1>3, <1>5, <1>6, <1>7

\* A worker that has been told to stop takes one step fewer with each.
LEMMA WorkerFacts ==
  ASSUME IsFiniteSet(Device), IInv, Worker, stopping
  PROVE  WorkerLeft' \in Nat /\ WorkerLeft' < WorkerLeft
<1>0. /\ Cardinality(unread) \in Nat
      /\ \A d \in unread : Cardinality(unread \ {d}) = Cardinality(unread) - 1
  BY CountFacts
<1>1. CASE Check
  BY <1>1 DEF Check, Goto, WorkerLeft
<1>2. ASSUME NEW d \in Device, Read(d)
      PROVE  WorkerLeft' \in Nat /\ WorkerLeft' < WorkerLeft
  <2>1. /\ worker = "reading" /\ d \in unread /\ unread' = unread \ {d}
        /\ worker' = "deciding" \/ worker' = "reading"
    BY <1>2 DEF Read, Goto
  <2>2. Cardinality(unread') = Cardinality(unread) - 1
    BY <1>0, <2>1
  <2>3. Cardinality(unread) > 0
    <3>1. IsFiniteSet(unread)
      BY FS_Subset DEF IInv, TypeOK
    <3> QED
      BY <1>0, <2>1, <3>1, FS_EmptySet
  <2> QED
    BY <1>0, <2>1, <2>2, <2>3 DEF WorkerLeft
<1>3. CASE Decide
  BY <1>3 DEF Decide, Goto, WorkerLeft
<1>4. CASE Wake
  BY <1>4 DEF Wake, Goto, WorkerLeft
<1> QED
  BY <1>1, <1>2, <1>3, <1>4 DEF Worker

\* Nobody undoes what a destruction has done, each step of the destructor does
\* some of it, and once the stop has been requested each of the worker's does.
LEMMA LeftFalls ==
  ASSUME IsFiniteSet(Device), IInv, LifeInv, Destroying, [Next]_vars
  PROVE  /\ Destroying' \/ life' = "gone"
         /\ (Left' = Left /\ life' = life) \/ Left' < Left
         /\ Destructor => Left' < Left
         /\ Worker /\ life = "joining" => Left' < Left
<1>0. /\ Cardinality(Device) \in Nat /\ Cardinality(open) \in Nat
      /\ WorkerLeft \in 0..(Cardinality(Device) + 3)
      /\ \A d \in open : Cardinality(open \ {d}) = Cardinality(open) - 1
  BY CountFacts
<1>1. life = "joining" => stopping
  BY DEF LifeInv
<1>2. CASE Worker
  <2>1. life' = life /\ open' = open
    BY <1>2 DEF Worker, Check, Read, Decide, Wake, ownerVars
  <2>2. life = "joining" => Left' < Left
    <3>1. life = "joining" => WorkerLeft' \in Nat /\ WorkerLeft' < WorkerLeft
      BY <1>1, <1>2, WorkerFacts
    <3>2. life = "joining" => Left = WorkerLeft + 1 /\ Left' = WorkerLeft' + 1
      BY <2>1 DEF Left
    <3> QED
      BY <1>0, <3>1, <3>2
  <2>3. life = "closing" => Left' = Left
    BY <2>1 DEF Left
  <2>4. ~Destructor
    <3>1. ~Join
      BY <1>2 DEF Join, Worker, Check, Read, Decide, Wake
    <3> QED
      BY <2>1, <3>1 DEF Destructor, Close, RequestStop
  <2> QED
    BY <2>1, <2>2, <2>3, <2>4 DEF Destroying
<1>3. CASE Destructor
  <2>1. worker' = worker /\ unread' = unread
    BY <1>3 DEF Destructor, Close, RequestStop, Join, pollVars
  <2>2. WorkerLeft' = WorkerLeft
    BY <2>1 DEF WorkerLeft
  <2>3. ASSUME NEW d \in Device, Close(d)
        PROVE  life' = "closing" /\ Left' < Left
    <3>1. /\ life = "closing" /\ life' = life /\ d \in open
          /\ Cardinality(open') = Cardinality(open) - 1
      BY <1>0, <2>3 DEF Close
    <3> QED
      BY <1>0, <3>1 DEF Left
  <2>4. CASE RequestStop
    BY <1>0, <2>2, <2>4 DEF RequestStop, Left, Destroying
  <2>5. CASE Join
    BY <1>0, <2>5 DEF Join, Left
  <2>6. ~Worker \/ life # "joining"
    BY <1>3 DEF Destructor, Close, RequestStop, Join, Worker, Check, Read, Decide, Wake
  <2> QED
    BY <1>3, <2>3, <2>4, <2>5, <2>6 DEF Destructor, Destroying
<1>4. CASE (\E d \in Device, k \in Key : KeyEvent(d, k)) \/ Gone \/ UNCHANGED vars
  <2>1. open' = open /\ life' = life /\ worker' = worker /\ unread' = unread
    BY <1>4, Zenon DEF KeyEvent, Gone, vars, ownerVars, pollVars
  <2>2. Left' = Left
    BY <2>1 DEF Left, WorkerLeft
  <2> QED
    BY <1>2, <1>3, <2>1, <2>2 DEF Destroying
<1>5. ~BeginDestruction
  BY DEF BeginDestruction, Destroying
<1> QED
  BY <1>2, <1>3, <1>4, <1>5 DEF Next

\* What both arguments use of the specification.
Behaviour == [](IInv /\ LifeInv) /\ [][Next]_vars

\* A destruction with n steps left comes to fewer.
Has(n) == Destroying /\ Left = n
HasLess(n) == life = "gone" \/ (Destroying /\ Left < n)
EndsSooner(n) == Has(n) ~> HasLess(n)

\* Whose turn it is: the destructor's until it has requested the stop, the
\* worker's until it has left its loop, and then the destructor's again.
Closes(n) == Has(n) /\ life = "closing"
Leaves(n) == Has(n) /\ life = "joining" /\ worker # "done"
Joins(n) == Has(n) /\ life = "joining" /\ worker = "done"

\* Whoever has the turn keeps it until there is one step less to take.
LEMMA DestructionStep ==
  ASSUME IsFiniteSet(Device), NEW n \in Nat, IInv, LifeInv, [Next]_vars
  PROVE  /\ Closes(n) => (Closes(n)' \/ HasLess(n)') /\ CanDestroy
         /\ Closes(n) /\ <<Destructor>>_vars => HasLess(n)'
         /\ Leaves(n) => (Leaves(n)' \/ Joins(n)' \/ HasLess(n)') /\ CanWork
         /\ Leaves(n) /\ <<Worker>>_vars => HasLess(n)'
         /\ Joins(n) => (Joins(n)' \/ HasLess(n)') /\ CanDestroy
         /\ Joins(n) /\ <<Destructor>>_vars => HasLess(n)'
         /\ Has(n) => Closes(n) \/ Leaves(n) \/ Joins(n)
<1>1. Has(n) => /\ Destroying' \/ life' = "gone"
                /\ (Left' = n /\ life' = life) \/ Left' < n
                /\ Destructor => Left' < n
                /\ Worker /\ life = "joining" => Left' < n
  BY LeftFalls DEF Has
<1>2. worker = "done" /\ life = "joining" => worker' = "done" \/ life' = "gone"
  BY DEF Next, vars, KeyEvent, Worker, Check, Read, Decide, Wake, BeginDestruction,
     Destructor, Close, RequestStop, Join, Gone, pollVars
<1> QED
  BY <1>1, <1>2 DEF Closes, Leaves, Joins, Has, HasLess, CanDestroy, CanWork, Destroying

\* So one step less is left in the end.
LEMMA EndsSoonerHolds ==
  ASSUME IsFiniteSet(Device), NEW n \in Nat
  PROVE  Behaviour /\ WorkerGoesOn /\ DestructorGoesOn => EndsSooner(n)
<1>1. IInv /\ LifeInv /\ [Next]_vars =>
        /\ Closes(n) => (Closes(n)' \/ HasLess(n)') /\ CanDestroy
        /\ Closes(n) /\ <<Destructor>>_vars => HasLess(n)'
  BY DestructionStep
<1>2. IInv /\ LifeInv /\ [Next]_vars =>
        /\ Leaves(n) => (Leaves(n)' \/ Joins(n)' \/ HasLess(n)') /\ CanWork
        /\ Leaves(n) /\ <<Worker>>_vars => HasLess(n)'
  BY DestructionStep
<1>3. IInv /\ LifeInv /\ [Next]_vars =>
        /\ Joins(n) => (Joins(n)' \/ HasLess(n)') /\ CanDestroy
        /\ Joins(n) /\ <<Destructor>>_vars => HasLess(n)'
  BY DestructionStep
<1>4. Has(n) => Closes(n) \/ Leaves(n) \/ Joins(n)
  <2>1. Has(n) => life = "closing" \/ life = "joining"
    BY DEF Has, Destroying
  <2> QED
    BY <2>1 DEF Closes, Leaves, Joins
<1>5. Behaviour /\ DestructorGoesOn => (Closes(n) ~> HasLess(n))
  BY <1>1, PTL DEF Behaviour, DestructorGoesOn
<1>6. Behaviour /\ DestructorGoesOn => (Joins(n) ~> HasLess(n))
  BY <1>3, PTL DEF Behaviour, DestructorGoesOn
<1>7. Behaviour /\ WorkerGoesOn => (Leaves(n) ~> (Joins(n) \/ HasLess(n)))
  BY <1>2, PTL DEF Behaviour, WorkerGoesOn
<1> QED
  BY <1>4, <1>5, <1>6, <1>7, PTL DEF EndsSooner

\* The destruction of the monitor comes to its end step by step, whatever the
\* worker is doing when it begins and whatever keys move.  Left is a natural
\* number, so it falls to the end: that is DestructionEnds, but for the
\* induction over the number.
THEOREM DestructionProceeds ==
  ASSUME IsFiniteSet(Device)
  PROVE  Spec /\ WorkerGoesOn /\ DestructorGoesOn => \A n \in Nat : EndsSooner(n)
<1>1. Spec => Behaviour
  BY Invariance, LifeIsKept, PTL DEF Behaviour, Spec
<1>2. Behaviour /\ WorkerGoesOn /\ DestructorGoesOn => \A n \in Nat : EndsSooner(n)
  BY EndsSoonerHolds
<1> QED
  BY <1>1, <1>2

-----------------------------------------------------------------------------
\* Only key events can put off that a poll notices a combination: any other step
\* brings it closer, or leaves it as far.
Waits(n, e) == Due /\ PollLeft = n /\ events = e
WaitsLess(n, e) == ~Due \/ events > e \/ PollLeft < n
NoticedSooner(n, e) == Waits(n, e) ~> WaitsLess(n, e)

\* What a read adds to the poll, while the monitor is alive.
LEMMA ReadNotices ==
  ASSUME IInv, LifeInv, Due, NEW d \in Device, Read(d)
  PROVE  Notices => Notices'
<1>1. /\ worker = "reading" /\ d \in unread /\ unread' = unread \ {d}
      /\ seen' = seen \union {k \in Key : <<d, k>> \in down}
      /\ wasPressed' = wasPressed /\ down' = down
  BY DEF Read, Due, LifeInv, keyVars
<1>2. CASE wasPressed
  <2>1. down = {}
    BY <1>2 DEF Due
  <2>2. seen' = seen
    BY <1>1, <2>1
  <2> QED
    BY <1>1, <1>2, <2>2 DEF Notices
<1>3. CASE ~wasPressed
  <2> SUFFICES ASSUME Notices, NEW k \in Key
               PROVE  k \in seen' \/ \E x \in unread' : <<x, k>> \in down'
    BY <1>1, <1>3 DEF Notices
  <2>1. CASE k \in seen
    BY <1>1, <2>1
  <2>2. CASE \E x \in unread : <<x, k>> \in down
    <3>1. PICK x \in unread : <<x, k>> \in down
      BY <2>2
    <3>2. CASE x = d
      BY <1>1, <3>1, <3>2
    <3>3. CASE x # d
      BY <1>1, <3>1, <3>3
    <3> QED
      BY <3>2, <3>3
  <2> QED
    BY <1>3, <2>1, <2>2 DEF Notices
<1> QED
  BY <1>2, <1>3

\* A poll begins with nothing seen and all devices to read.
LEMMA CheckNotices ==
  ASSUME IInv, LifeInv, Due, Check
  PROVE  worker' = "reading" /\ unread' = Device /\ Notices'
<1>1. ~stopping
  BY DEF Due, LifeInv
<1>2. /\ worker' = "reading" /\ unread' = Device /\ seen' = {}
      /\ wasPressed' = wasPressed /\ down' = down
  BY <1>1 DEF Check, Goto, keyVars
<1>3. CASE wasPressed
  BY <1>2, <1>3 DEF Notices, Key
<1>4. CASE ~wasPressed
  BY <1>2, <1>4 DEF Notices, Due, Combination
<1> QED
  BY <1>2, <1>3, <1>4

\* A poll that is to notice it does so when it decides.
LEMMA DecideNotices ==
  ASSUME IInv, Due, Decide
  PROVE  /\ worker = "deciding" /\ worker' = "sleeping" /\ down' = down /\ life' = life
         /\ Notices => wasPressed' # wasPressed
<1>1. /\ worker = "deciding" /\ worker' = "sleeping" /\ down' = down /\ life' = life
      /\ wasPressed' = (seen = Key)
  BY DEF Decide, Goto, Pressed, keyVars, ownerVars
<1>2. unread = {} /\ seen \subseteq Key
  BY <1>1 DEF IInv, TypeOK
<1>3. ~wasPressed /\ Notices => seen = Key
  BY <1>2 DEF Notices
<1>4. wasPressed /\ Notices => seen # Key
  BY DEF Notices
<1> QED
  BY <1>1, <1>3, <1>4 DEF IInv, TypeOK

\* While something is due, each step of the worker brings the poll that notices
\* it closer, and no other step but a key event puts it off.
LEMMA PollFalls ==
  ASSUME IsFiniteSet(Device), IInv, LifeInv, Due, [Next]_vars
  PROVE  /\ \/ ~Due' \/ events' > events
            \/ Due' /\ events' = events /\ PollLeft' = PollLeft
            \/ PollLeft' < PollLeft
         /\ Worker => ~Due' \/ PollLeft' < PollLeft
         /\ CanWork
<1> DEFINE C == Cardinality(Device)
           Late == IF Notices THEN 0 ELSE C + 3
<1>0. /\ C \in Nat /\ Cardinality(unread) \in Nat
      /\ Cardinality(unread) <= C
      /\ \A d \in unread : Cardinality(unread \ {d}) = Cardinality(unread) - 1
      /\ events \in Nat
  BY CountFacts DEF IInv, TypeOK
<1>a. CanWork
  BY DEF CanWork, Due, LifeInv
<1> HIDE DEF C
<1>1. CASE Check
  <2>1. worker = "checking" /\ worker' = "reading" /\ unread' = Device /\ Notices'
    BY <1>1, CheckNotices DEF Check
  <2>2. PollLeft = C + 2 /\ PollLeft' = 0 + 1 + Cardinality(unread')
    BY <2>1 DEF PollLeft, C
  <2>3. PollLeft' = 1 + C
    BY <1>0, <2>1, <2>2 DEF C
  <2> QED
    BY <1>0, <1>a, <2>2, <2>3
<1>2. ASSUME NEW d \in Device, Read(d)
      PROVE  PollLeft' < PollLeft
  <2>1. /\ worker = "reading" /\ d \in unread /\ unread' = unread \ {d}
        /\ worker' = "reading" \/ worker' = "deciding"
    BY <1>2 DEF Read, Goto
  <2>2. Notices => Notices'
    BY <1>2, ReadNotices
  <2>3. Late \in Nat /\ Late' \in Nat /\ Late' <= Late
    <3>1. C' = C
      BY DEF C
    <3> QED
      BY <1>0, <2>2, <3>1
  <2>4. PollLeft = Late + 1 + Cardinality(unread)
    BY <2>1 DEF PollLeft, C
  <2>5. \/ PollLeft' = Late' + 1 + Cardinality(unread')
        \/ PollLeft' = Late' + 1
    BY <2>1 DEF PollLeft, C
  <2>6. /\ Cardinality(unread') = Cardinality(unread) - 1
        /\ Cardinality(unread) > 0
    <3>1. Cardinality(unread') = Cardinality(unread) - 1
      BY <1>0, <2>1
    <3>2. IsFiniteSet(unread)
      BY FS_Subset DEF IInv, TypeOK
    <3> QED
      BY <1>0, <2>1, <3>1, <3>2, FS_EmptySet
  <2> HIDE DEF Late
  <2> QED
    BY <1>0, <2>3, <2>4, <2>5, <2>6
<1>3. CASE Decide
  <2>1. /\ worker = "deciding" /\ worker' = "sleeping" /\ down' = down /\ life' = life
        /\ Notices => wasPressed' # wasPressed
    BY <1>3, DecideNotices
  <2>2. PollLeft' = C + 3
    BY <2>1 DEF PollLeft, C
  <2>3. ~Notices => PollLeft = C + 3 + 1
    BY <2>1 DEF PollLeft, C
  <2>4. Notices => ~Due'
    <3>1. Combination => down # {}
      BY DEF Combination, Key
    <3>2. Combination' = Combination
      BY <2>1 DEF Combination
    <3>3. CASE wasPressed
      <4>1. down' = {} /\ ~Combination'
        BY <2>1, <3>1, <3>2, <3>3 DEF Due
      <4>2. Notices => ~wasPressed'
        BY <2>1, <3>3, NextInv DEF IInv, TypeOK
      <4> QED
        BY <4>1, <4>2 DEF Due
    <3>4. CASE ~wasPressed
      <4>1. down' # {}
        BY <2>1, <3>1, <3>4 DEF Due
      <4>2. Notices => wasPressed'
        BY <2>1, <3>4, NextInv DEF IInv, TypeOK
      <4> QED
        BY <4>1, <4>2 DEF Due
    <3> QED
      BY <3>3, <3>4
  <2> QED
    BY <1>0, <1>a, <2>2, <2>3, <2>4
<1>4. CASE Wake
  <2>1. worker = "sleeping" /\ worker' = "checking"
    BY <1>4 DEF Wake, Goto
  <2>2. PollLeft = C + 3 /\ PollLeft' = C + 2
    BY <2>1 DEF PollLeft, C
  <2> QED
    BY <1>0, <1>a, <2>2
<1>5. CASE Worker
  BY <1>a, <1>1, <1>2, <1>3, <1>4, <1>5 DEF Worker
<1>6. CASE \E d \in Device, k \in Key : KeyEvent(d, k)
  <2>1. events' > events /\ worker' = worker /\ unread' = unread
    BY <1>0, <1>6 DEF KeyEvent, pollVars
  <2>2. ~Worker
    BY <1>0, <1>6 DEF KeyEvent, Worker, Check, Read, Decide, Wake, keyVars
  <2> QED
    BY <1>a, <2>1, <2>2
<1>7. CASE BeginDestruction \/ Destructor \/ Gone
  <2>1. ~Due'
    BY <1>7 DEF BeginDestruction, Destructor, Close, RequestStop, Join, Gone, Due
  <2> QED
    BY <1>a, <2>1
<1>8. CASE UNCHANGED vars
  <2>1. /\ down' = down /\ events' = events /\ life' = life /\ worker' = worker
        /\ unread' = unread /\ seen' = seen /\ wasPressed' = wasPressed
    BY <1>8 DEF vars, keyVars, ownerVars, pollVars
  <2>2. Due' /\ events' = events
    BY <2>1 DEF Due, Combination
  <2>3. PollLeft' = PollLeft
    BY <2>1 DEF PollLeft, Notices
  <2>4. ~Worker
    BY <1>0, <2>1 DEF Worker, Check, Read, Decide, Wake, Goto
  <2> QED
    BY <1>a, <2>2, <2>3, <2>4
<1> QED
  BY <1>5, <1>6, <1>7, <1>8 DEF Next

\* The worker's next step comes, so the poll that notices it does.
LEMMA NoticedSoonerHolds ==
  ASSUME IsFiniteSet(Device), NEW n \in Nat, NEW e \in Nat
  PROVE  Behaviour /\ WorkerGoesOn => NoticedSooner(n, e)
<1>1. IInv /\ LifeInv /\ [Next]_vars =>
        /\ Waits(n, e) => (Waits(n, e)' \/ WaitsLess(n, e)') /\ CanWork
        /\ Waits(n, e) /\ <<Worker>>_vars => WaitsLess(n, e)'
  BY PollFalls DEF Waits, WaitsLess
<1> QED
  BY <1>1, PTL DEF Behaviour, WorkerGoesOn, NoticedSooner

\* Between two key events, the poll that notices a held combination, or that it
\* was let go, comes closer step by step, whatever the poll under way has seen
\* before.  PollLeft is a natural number, and there are MaxEvents key events: that
\* is HeldCombinationIsSeen, but for the induction over the two.
THEOREM CombinationIsNoticed ==
  ASSUME IsFiniteSet(Device)
  PROVE  Spec /\ WorkerGoesOn => \A n, e \in Nat : NoticedSooner(n, e)
<1>1. Spec => Behaviour
  BY Invariance, LifeIsKept, PTL DEF Behaviour, Spec
<1>2. Behaviour /\ WorkerGoesOn => \A n, e \in Nat : NoticedSooner(n, e)
  BY NoticedSoonerHolds
<1> QED
  BY <1>1, <1>2
=============================================================================
