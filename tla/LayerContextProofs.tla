------------------------- MODULE LayerContextProofs -------------------------
(***************************************************************************)
(* Proofs about LayerContext, for any threads, handles and bound.          *)
(***************************************************************************)
EXTENDS LayerContext, TLAPS

Handle == Owner \union Part

\* An owner that one thread has to itself: the application does not know of it
\* yet, or no more.
Exclusive == {"inserting", "erasing", "destroying"}

ThreadInv ==
  /\ \A t \in Thread : pc[t] # "idle" => owner[t] \in Owner /\ object[owner[t]] # 0
  /\ \A t \in Thread : pc[t] = "registering" =>
       /\ owner[t] \in known
       /\ parts[t] \subseteq PartsOf(owner[t])
       /\ found[t] = object[owner[t]]
  /\ \A t \in Thread : pc[t] \in Exclusive =>
       /\ owner[t] \notin known
       /\ \A u \in Thread : u # t => owner[u] # owner[t]
  /\ \A t \in Thread : pc[t] \in {"inserting", "destroying"} => contexts[owner[t]] = None
  /\ \A t \in Thread : pc[t] = "erasing" => contexts[owner[t]] # None
  /\ \A t \in Thread : pc[t] = "idle" => owner[t] = None

OwnerInv ==
  /\ \A o \in Owner : contexts[o] # None =>
       /\ contexts[o].object = object[o]
       /\ object[o] # 0
       /\ \A p \in contexts[o].parts : belongs[p] = o /\ contexts[p] # None
  /\ \A o \in Owner : o \in known => contexts[o] # None

PartInv ==
  /\ \A p \in Part : belongs[p] # None => object[belongs[p]] # 0
  /\ \A p \in Part : contexts[p] # None =>
       /\ belongs[p] \in Owner
       /\ contexts[belongs[p]] # None
       /\ p \in contexts[belongs[p]].parts
       /\ contexts[p].object = object[belongs[p]]
  /\ \A p \in Part : p \in known => belongs[p] \in known /\ contexts[p] # None

IInv == TypeOK /\ ThreadInv /\ OwnerInv /\ PartInv

-----------------------------------------------------------------------------
(* Contexts are records, and None is none. *)

\* What the two ways to make a context give.
LEMMA ContextFacts ==
  /\ \A c \in Context : c # None
  /\ \A o \in Nat : /\ NewContext(o) \in Context
                    /\ NewContext(o).object = o
                    /\ NewContext(o).parts = {}
  /\ \A c \in Context, P \in SUBSET Part :
       LET d == [c EXCEPT !.parts = @ \union P]
       IN  /\ d \in Context
           /\ d.object = c.object
           /\ d.parts = c.parts \union P
BY RegistryAssumption DEF Context, NewContext

\* What a thread has to itself once its call is over: nothing.
LEMMA ReturnFacts ==
  ASSUME TypeOK, NEW t \in Thread, Return(t)
  PROVE  /\ \A u \in Thread \ {t} : /\ pc'[u] = pc[u] /\ owner'[u] = owner[u]
                                    /\ parts'[u] = parts[u] /\ found'[u] = found[u]
         /\ pc'[t] = "idle" /\ owner'[t] = None
         /\ pc' \in [Thread -> {"idle", "inserting", "registering", "erasing", "destroying"}]
         /\ owner' \in [Thread -> Owner \union {None}]
         /\ parts' \in [Thread -> SUBSET Part]
         /\ found' \in [Thread -> Nat]
BY DEF TypeOK, Return, Goto

\* The invariant holds of an empty registry.
LEMMA InitInv == Init => IInv
BY RegistryAssumption DEF Init, IInv, TypeOK, ThreadInv, OwnerInv, PartInv, Exclusive

-----------------------------------------------------------------------------
(* Every action preserves the invariant. *)

\* A new object is behind a handle nothing in the registry speaks of.
LEMMA CreateStep ==
  ASSUME IInv, NEW t \in Thread, NEW o \in Owner, Create(t, o)
  PROVE  IInv'
<1> USE RegistryAssumption
<1>1. TypeOK'
  BY DEF Create, Goto, IInv, TypeOK
<1>2. /\ o \notin known
      /\ contexts[o] = None
      /\ \A u \in Thread : owner[u] # o
      /\ \A p \in Part : belongs[p] # o
  BY DEF Create, IInv, TypeOK, ThreadInv, OwnerInv, PartInv
<1>3. /\ contexts' = contexts /\ known' = known /\ parts' = parts /\ found' = found
      /\ \A q \in Owner : object'[q] = IF q = o THEN created + 1 ELSE object[q]
      /\ \A p \in Part : belongs'[p] = belongs[p] \/ (belongs[p] = None /\ belongs'[p] = o)
      /\ \A u \in Thread : /\ pc'[u] = IF u = t THEN "inserting" ELSE pc[u]
                           /\ owner'[u] = IF u = t THEN o ELSE owner[u]
      /\ created + 1 # 0
  <2>1. contexts' = contexts /\ known' = known /\ parts' = parts /\ found' = found
    BY DEF Create
  <2>2. \A q \in Owner : object'[q] = IF q = o THEN created + 1 ELSE object[q]
    BY DEF Create, IInv, TypeOK
  <2>3. \A p \in Part : belongs'[p] = belongs[p] \/ (belongs[p] = None /\ belongs'[p] = o)
    BY DEF Create
  <2>4. \A u \in Thread : /\ pc'[u] = IF u = t THEN "inserting" ELSE pc[u]
                          /\ owner'[u] = IF u = t THEN o ELSE owner[u]
    BY DEF Create, Goto, IInv, TypeOK
  <2>5. created + 1 # 0
    BY DEF IInv, TypeOK
  <2> QED
    BY <2>1, <2>2, <2>3, <2>4, <2>5
<1>4. ThreadInv'
  BY <1>1, <1>2, <1>3 DEF IInv, TypeOK, ThreadInv, Exclusive, PartsOf
<1>5. OwnerInv'
  BY <1>2, <1>3 DEF IInv, OwnerInv, PartInv, TypeOK, Context
<1>6. PartInv'
  BY <1>2, <1>3 DEF IInv, PartInv, OwnerInv, TypeOK
<1> QED
  BY <1>1, <1>4, <1>5, <1>6 DEF IInv

\* The first entry of an owner is that of its object.
LEMMA InsertStep ==
  ASSUME IInv, NEW t \in Thread, Insert(t)
  PROVE  IInv'
<1> DEFINE o == owner[t]
<1> USE RegistryAssumption
<1>1. /\ o \in Owner /\ object[o] # 0 /\ object[o] \in Nat
      /\ contexts[o] = None
      /\ o \notin known
      /\ \A u \in Thread : u # t => owner[u] # o
  BY DEF Insert, IInv, TypeOK, ThreadInv, Exclusive
<1>2. /\ \A h \in Handle : contexts'[h] = IF h = o THEN NewContext(object[o]) ELSE contexts[h]
      /\ contexts' \in [Handle -> Context \union {None}]
  BY <1>1, ContextFacts DEF Insert, IInv, TypeOK, Handle
<1>3. /\ object' = object /\ belongs' = belongs /\ created' = created
      /\ known' = known \union {o}
  BY DEF Insert, driverVars
<1> HIDE DEF o
<1>4. Return(t)
  BY DEF Insert
<1>5. TypeOK'
  BY <1>1, <1>2, <1>3, <1>4, ReturnFacts DEF IInv, TypeOK, Handle
<1>6. ThreadInv'
  BY <1>1, <1>2, <1>3, <1>4, ReturnFacts DEF IInv, TypeOK, ThreadInv, Exclusive, PartsOf, Handle
<1>7. OwnerInv'
  BY <1>1, <1>2, <1>3, ContextFacts DEF IInv, OwnerInv, TypeOK, Handle, Context
<1>8. PartInv'
  BY <1>1, <1>2, <1>3 DEF IInv, PartInv, TypeOK, Handle
<1> QED
  BY <1>5, <1>6, <1>7, <1>8 DEF IInv

\* A look-up finds the context of the object behind the handle.
LEMMA ObtainStep ==
  ASSUME IInv, NEW t \in Thread, NEW o \in Owner, NEW P \in SUBSET Part, Obtain(t, o, P)
  PROVE  IInv'
<1> USE RegistryAssumption
<1>1. contexts[o].object = object[o] /\ object[o] # 0 /\ object[o] \in Nat
  BY DEF Obtain, IInv, TypeOK, OwnerInv
<1>2. /\ UNCHANGED <<contexts, object, belongs, created, known>>
      /\ \A u \in Thread : /\ pc'[u] = IF u = t THEN "registering" ELSE pc[u]
                           /\ owner'[u] = IF u = t THEN o ELSE owner[u]
                           /\ parts'[u] = IF u = t THEN P ELSE parts[u]
                           /\ found'[u] = IF u = t THEN object[o] ELSE found[u]
      /\ o \in known /\ P \subseteq PartsOf(o)
      /\ pc[t] = "idle"
  BY <1>1 DEF Obtain, Goto, driverVars, IInv, TypeOK
<1>3. TypeOK'
  BY <1>1 DEF Obtain, Goto, driverVars, IInv, TypeOK
<1>4. ThreadInv'
  BY <1>1, <1>2 DEF IInv, ThreadInv, Exclusive, PartsOf
<1>5. OwnerInv' /\ PartInv'
  BY <1>2 DEF IInv, OwnerInv, PartInv
<1> QED
  BY <1>3, <1>4, <1>5 DEF IInv

\* Parts registered twice, or by two threads, have the one entry of the first.
LEMMA RegisterStep ==
  ASSUME IInv, NEW t \in Thread, Register(t)
  PROVE  IInv'
<1> DEFINE o == owner[t]
           P == parts[t]
<1> USE RegistryAssumption
<1>1. /\ o \in Owner /\ object[o] # 0 /\ object[o] \in Nat
      /\ o \in known
      /\ contexts[o] \in Context
      /\ P \in SUBSET Part /\ P \subseteq PartsOf(o)
      /\ found[t] = object[o]
  BY DEF Register, IInv, TypeOK, ThreadInv, OwnerInv, Exclusive
<1> DEFINE d == [contexts[o] EXCEPT !.parts = @ \union P]
<1>2. /\ d \in Context
      /\ d.object = contexts[o].object
      /\ d.parts = contexts[o].parts \union P
  BY <1>1, ContextFacts
<1>3. \A h \in Handle : contexts'[h] =
        IF h \in P /\ contexts[h] = None THEN NewContext(object[o])
        ELSE IF h = o THEN d ELSE contexts[h]
  BY <1>1 DEF Register, Handle
<1>5. /\ object' = object /\ belongs' = belongs /\ created' = created
      /\ known' = known \union P
      /\ Return(t)
  BY DEF Register, driverVars
<1>6. \A q \in Owner : contexts'[q] = IF q = o THEN d ELSE contexts[q]
  BY <1>1, <1>3 DEF Handle
<1>7. \A p \in Part : contexts'[p] =
        IF p \in P /\ contexts[p] = None THEN NewContext(object[o]) ELSE contexts[p]
  BY <1>1, <1>3 DEF Handle
<1> HIDE DEF o, P, d
<1>4. contexts' \in [Handle -> Context \union {None}]
  <2>1. \A h \in Handle : contexts'[h] \in Context \union {None}
    <3>1. NewContext(object[o]) \in Context
      BY <1>1, ContextFacts
    <3>2. \A h \in Handle : contexts[h] \in Context \union {None}
      BY DEF IInv, TypeOK, Handle
    <3> QED
      BY <1>2, <1>3, <3>1, <3>2
  <2> QED
    BY <2>1 DEF Register, Handle
<1>8. TypeOK'
  BY <1>1, <1>4, <1>5, ReturnFacts DEF IInv, TypeOK, Handle
<1>9. \A q \in Owner : /\ (contexts'[q] # None) <=> (contexts[q] # None)
                       /\ contexts'[q].object = contexts[q].object
  <2>1. contexts[o] # None /\ d # None
    BY <1>1, <1>2, ContextFacts
  <2> QED
    BY <1>2, <1>6, <2>1
<1>10. ThreadInv'
  <2>1. /\ \A u \in Thread \ {t} : /\ pc'[u] = pc[u] /\ owner'[u] = owner[u]
                                  /\ parts'[u] = parts[u] /\ found'[u] = found[u]
        /\ pc'[t] = "idle" /\ owner'[t] = None
    BY <1>5, ReturnFacts DEF IInv
  <2>2. \A q \in Owner : q \in known' <=> q \in known
    BY <1>1, <1>5
  <2>3. \A u \in Thread : pc'[u] # "idle" =>
          /\ u # t /\ pc'[u] = pc[u] /\ owner'[u] = owner[u] /\ owner[u] \in Owner
          /\ parts'[u] = parts[u] /\ found'[u] = found[u]
    BY <2>1 DEF IInv, ThreadInv
  <2>4. \A u \in Thread : owner'[u] = owner[u] \/ owner'[u] = None
    BY <2>1
  <2>5. \A u \in Thread : pc'[u] \in Exclusive =>
          /\ owner'[u] \notin known'
          /\ \A v \in Thread : v # u => owner'[v] # owner'[u]
    BY <2>2, <2>3, <2>4 DEF IInv, ThreadInv, Exclusive
  <2>6. \A u \in Thread : pc'[u] = "registering" =>
          /\ owner'[u] \in known'
          /\ parts'[u] \subseteq PartsOf(owner[u])'
          /\ found'[u] = object'[owner'[u]]
    <3> SUFFICES ASSUME NEW u \in Thread, pc'[u] = "registering"
                 PROVE  /\ owner'[u] \in known'
                        /\ parts'[u] \subseteq PartsOf(owner[u])'
                        /\ found'[u] = object'[owner'[u]]
      OBVIOUS
    <3>1. /\ owner'[u] = owner[u] /\ owner[u] \in Owner /\ parts'[u] = parts[u]
          /\ found'[u] = found[u] /\ pc[u] = "registering"
      BY <2>3
    <3>2. /\ owner[u] \in known
          /\ parts[u] \subseteq PartsOf(owner[u])
          /\ found[u] = object[owner[u]]
      BY <3>1 DEF IInv, ThreadInv
    <3>3. PartsOf(owner[u])' = PartsOf(owner[u])
      BY <1>5, <3>1 DEF PartsOf
    <3> QED
      BY <1>5, <2>2, <3>1, <3>2, <3>3
  <2>7. \A u \in Thread :
          /\ pc'[u] # "idle" => owner'[u] \in Owner /\ object'[owner'[u]] # 0
          /\ pc'[u] \in {"inserting", "destroying"} => contexts'[owner'[u]] = None
          /\ pc'[u] = "erasing" => contexts'[owner'[u]] # None
    <3> SUFFICES ASSUME NEW u \in Thread, pc'[u] # "idle"
                 PROVE  /\ owner'[u] \in Owner /\ object'[owner'[u]] # 0
                        /\ pc'[u] \in {"inserting", "destroying"} => contexts'[owner'[u]] = None
                        /\ pc'[u] = "erasing" => contexts'[owner'[u]] # None
      OBVIOUS
    <3>1. /\ owner'[u] = owner[u] /\ owner[u] \in Owner /\ pc'[u] = pc[u]
      BY <2>3
    <3>2. contexts'[owner[u]] = None <=> contexts[owner[u]] = None
      BY <1>9, <3>1
    <3>3. object[owner[u]] # 0
      BY <3>1 DEF IInv, ThreadInv
    <3>4. /\ pc[u] \in {"inserting", "destroying"} => contexts[owner[u]] = None
          /\ pc[u] = "erasing" => contexts[owner[u]] # None
      BY <3>1 DEF IInv, ThreadInv
    <3> QED
      BY <1>5, <3>1, <3>2, <3>3, <3>4
  <2>8. \A u \in Thread : pc'[u] = "idle" => owner'[u] = None
    BY <2>1 DEF IInv, ThreadInv
  <2> QED
    BY <2>5, <2>6, <2>7, <2>8 DEF ThreadInv
<1>11. \A p \in Part : /\ p \in P => belongs[p] = o
                       /\ (contexts'[p] # None) <=> (contexts[p] # None \/ p \in P)
                       /\ (contexts'[p] # None /\ contexts[p] = None)
                            => (contexts'[p].object = object[o])
                       /\ contexts[p] # None => contexts'[p] = contexts[p]
  <2>1. /\ NewContext(object[o]) # None
        /\ NewContext(object[o]).object = object[o]
    BY <1>1, ContextFacts
  <2> QED
    BY <1>1, <1>7, <2>1 DEF PartsOf
<1>12. OwnerInv'
  <2>1. \A q \in Owner, p \in Part : contexts'[q] # None /\ p \in contexts'[q].parts =>
          belongs[p] = q /\ contexts'[p] # None
    <3>1. \A q \in Owner, p \in Part : contexts[q] # None /\ p \in contexts[q].parts =>
            belongs[p] = q /\ contexts[p] # None
      BY DEF IInv, OwnerInv
    <3> QED
      BY <1>1, <1>2, <1>6, <1>9, <1>11, <3>1
  <2>2. \A q \in Owner : contexts'[q] # None => contexts'[q].parts \subseteq Part
    BY <1>4 DEF Handle, Context
  <2>3. \A q \in Owner : contexts'[q] # None =>
          contexts'[q].object = object[q] /\ object[q] # 0
    <3>1. \A q \in Owner : contexts[q] # None =>
            contexts[q].object = object[q] /\ object[q] # 0
      BY DEF IInv, OwnerInv
    <3> QED
      BY <1>9, <3>1
  <2>4. \A q \in Owner : q \in known' => contexts'[q] # None
    BY <1>1, <1>5, <1>9 DEF IInv, OwnerInv
  <2> QED
    BY <1>5, <2>1, <2>2, <2>3, <2>4 DEF OwnerInv
<1>13. PartInv'
  <2>1. \A p \in Part : contexts[p] # None =>
          /\ belongs[p] \in Owner
          /\ contexts[belongs[p]] # None
          /\ p \in contexts[belongs[p]].parts
          /\ contexts[p].object = object[belongs[p]]
    BY DEF IInv, PartInv
  <2>2. \A q \in Owner : contexts[q].parts \subseteq contexts'[q].parts
    BY <1>2, <1>6
  <2>3. \A p \in P : p \in contexts'[o].parts
    BY <1>1, <1>2, <1>6
  <2>4. \A p \in Part : contexts'[p] # None =>
          /\ belongs[p] \in Owner
          /\ contexts'[belongs[p]] # None
          /\ p \in contexts'[belongs[p]].parts
          /\ contexts'[p].object = object[belongs[p]]
    <3> SUFFICES ASSUME NEW p \in Part, contexts'[p] # None
                 PROVE  /\ belongs[p] \in Owner
                        /\ contexts'[belongs[p]] # None
                        /\ p \in contexts'[belongs[p]].parts
                        /\ contexts'[p].object = object[belongs[p]]
      OBVIOUS
    <3>1. CASE contexts[p] # None
      <4>1. contexts'[p].object = contexts[p].object
        BY <1>11, <3>1
      <4> QED
        BY <1>9, <2>1, <2>2, <3>1, <4>1
    <3>2. CASE contexts[p] = None
      <4>1. p \in P /\ belongs[p] = o /\ contexts'[p].object = object[o]
        BY <1>11, <3>2
      <4>2. contexts'[o] # None
        BY <1>1, <1>9, ContextFacts
      <4> QED
        BY <1>1, <2>3, <4>1, <4>2
    <3> QED
      BY <3>1, <3>2
  <2>5. \A p \in Part : p \in known' => belongs[p] \in known' /\ contexts'[p] # None
    BY <1>1, <1>5, <1>11 DEF IInv, PartInv
  <2> QED
    BY <1>5, <2>4, <2>5 DEF IInv, PartInv
<1> QED
  BY <1>8, <1>10, <1>12, <1>13 DEF IInv

\* An owner that is given up is its destroyer's alone.
LEMMA BeginDestroyStep ==
  ASSUME IInv, NEW t \in Thread, NEW o \in Owner, BeginDestroy(t, o)
  PROVE  IInv'
<1> USE RegistryAssumption
<1>1. /\ o \in known /\ contexts[o] # None /\ object[o] # 0
      /\ \A u \in Thread : owner[u] # o
      /\ pc[t] = "idle"
  BY DEF BeginDestroy, IInv, OwnerInv
<1>2. /\ UNCHANGED <<contexts, object, belongs, created, parts, found>>
      /\ known' = known \ ({o} \union PartsOf(o))
      /\ \A u \in Thread : /\ pc'[u] = IF u = t THEN "erasing" ELSE pc[u]
                           /\ owner'[u] = IF u = t THEN o ELSE owner[u]
  BY DEF BeginDestroy, Goto, driverVars, IInv, TypeOK
<1>3. PartsOf(o) \subseteq Part /\ \A q \in Owner : q \notin PartsOf(o)
  BY DEF PartsOf
<1>4. TypeOK'
  BY DEF BeginDestroy, Goto, driverVars, IInv, TypeOK
<1>5. ThreadInv'
  BY <1>1, <1>2, <1>3 DEF IInv, ThreadInv, Exclusive, PartsOf
<1>6. OwnerInv'
  BY <1>2 DEF IInv, OwnerInv
<1>7. PartInv'
  BY <1>2, <1>3 DEF IInv, PartInv, PartsOf
<1> QED
  BY <1>4, <1>5, <1>6, <1>7 DEF IInv

\* The entries of the parts of an owner go with its own.
LEMMA EraseStep ==
  ASSUME IInv, NEW t \in Thread, Erase(t)
  PROVE  IInv'
<1> DEFINE o == owner[t]
           P == contexts[o].parts
<1> USE RegistryAssumption
<1>1. /\ o \in Owner /\ object[o] # 0
      /\ contexts[o] # None
      /\ o \notin known
      /\ \A u \in Thread : u # t => owner[u] # o
  BY DEF Erase, IInv, TypeOK, ThreadInv, Exclusive
<1>2. P \subseteq Part /\ \A p \in P : belongs[p] = o
  BY <1>1 DEF IInv, OwnerInv, TypeOK, Context
<1>3. \A h \in Handle : contexts'[h] = IF h = o \/ h \in P THEN None ELSE contexts[h]
  BY DEF Erase, Handle
<1>4. contexts' \in [Handle -> Context \union {None}]
  <2>1. \A h \in Handle : contexts'[h] \in Context \union {None}
    BY <1>3 DEF IInv, TypeOK, Handle
  <2> QED
    BY <2>1 DEF Erase, Handle
<1>5. /\ UNCHANGED <<object, belongs, created, known, owner, parts, found>>
      /\ \A u \in Thread : pc'[u] = IF u = t THEN "destroying" ELSE pc[u]
      /\ pc[t] = "erasing"
  BY DEF Erase, Goto, driverVars, IInv, TypeOK
<1>6. \A q \in Owner : contexts'[q] = IF q = o THEN None ELSE contexts[q]
  BY <1>2, <1>3 DEF Handle
<1>7. \A p \in Part : contexts'[p] = IF p \in P THEN None ELSE contexts[p]
  BY <1>1, <1>3 DEF Handle
<1>8. \A p \in Part : p \in P => p \notin known
  BY <1>1, <1>2 DEF IInv, PartInv
<1>9. \A p \in Part : contexts[p] # None /\ belongs[p] = o => p \in P
  BY DEF IInv, PartInv
<1>10. TypeOK'
  BY <1>4 DEF Erase, Goto, driverVars, IInv, TypeOK, Handle
<1> HIDE DEF P
<1>11. ThreadInv'
  BY <1>1, <1>5, <1>6 DEF IInv, ThreadInv, Exclusive, PartsOf
<1>12. OwnerInv'
  BY <1>1, <1>2, <1>5, <1>6, <1>7 DEF IInv, OwnerInv, TypeOK, Context
<1>13. PartInv'
  BY <1>1, <1>2, <1>5, <1>6, <1>7, <1>8, <1>9 DEF IInv, PartInv
<1> QED
  BY <1>10, <1>11, <1>12, <1>13 DEF IInv

\* Nothing in the registry speaks of what the driver destroys.
LEMMA DriverDestroyStep ==
  ASSUME IInv, NEW t \in Thread, DriverDestroy(t)
  PROVE  IInv'
<1> DEFINE o == owner[t]
<1> USE RegistryAssumption
<1>1. /\ o \in Owner
      /\ contexts[o] = None
      /\ o \notin known
      /\ \A u \in Thread : u # t => owner[u] # o
  BY DEF DriverDestroy, IInv, TypeOK, ThreadInv, Exclusive
<1>2. /\ UNCHANGED <<contexts, created, known>>
      /\ \A q \in Owner : object'[q] = IF q = o THEN 0 ELSE object[q]
      /\ \A p \in Part : belongs'[p] = IF belongs[p] = o THEN None ELSE belongs[p]
      /\ Return(t)
  BY DEF DriverDestroy, IInv, TypeOK
<1>3. object' \in [Owner -> Nat] /\ belongs' \in [Part -> Owner \union {None}]
  BY DEF DriverDestroy, IInv, TypeOK
<1> HIDE DEF o
<1>4. TypeOK'
  BY <1>2, <1>3, ReturnFacts DEF IInv, TypeOK
<1>5. ThreadInv'
  BY <1>1, <1>2, ReturnFacts DEF IInv, TypeOK, ThreadInv, Exclusive, PartsOf
<1>6. OwnerInv'
  BY <1>1, <1>2 DEF IInv, OwnerInv, TypeOK, Context
<1>7. PartInv'
  BY <1>1, <1>2 DEF IInv, PartInv, TypeOK
<1> QED
  BY <1>4, <1>5, <1>6, <1>7 DEF IInv

\* Every step preserves the invariant.
LEMMA NextStep == IInv /\ [Next]_vars => IInv'
<1> SUFFICES ASSUME IInv, [Next]_vars PROVE IInv'
  OBVIOUS
<1>1. CASE Next
  BY <1>1, CreateStep, InsertStep, ObtainStep, RegisterStep, BeginDestroyStep, EraseStep,
     DriverDestroyStep DEF Next
<1>2. CASE UNCHANGED vars
  BY <1>2 DEF vars, driverVars, threadVars, IInv, TypeOK, ThreadInv, OwnerInv, PartInv, PartsOf
<1> QED
  BY <1>1, <1>2

-----------------------------------------------------------------------------
(* The theorems. *)

\* The inductive invariant holds of every behaviour.
THEOREM Invariant == Spec => []IInv
BY InitInv, NextStep, PTL DEF Spec

\* TypeOK: contexts, and what the driver and the threads keep, have their types.
THEOREM TypeCorrect == Spec => []TypeOK
<1>1. IInv => TypeOK
  BY DEF IInv
<1> QED
  BY <1>1, Invariant, PTL

\* LookUpIsOwn: get_context answers for the object behind the handle.
THEOREM LookUpCorrect == Spec => []LookUpIsOwn
<1>1. IInv => LookUpIsOwn
  BY RegistryAssumption DEF IInv, TypeOK, OwnerInv, PartInv, LookUpIsOwn
<1> QED
  BY <1>1, Invariant, PTL

\* NewHandleIsUnknown: the asserts of layer.cc:161 and :471 hold.
THEOREM InsertInserts == Spec => []NewHandleIsUnknown
<1>1. IInv => NewHandleIsUnknown
  BY DEF IInv, ThreadInv, NewHandleIsUnknown
<1> QED
  BY <1>1, Invariant, PTL

\* MapsAgree: the map and the owners' lists of their parts are consistent.
THEOREM Consistent == Spec => []MapsAgree
<1>1. IInv => MapsAgree
  BY DEF IInv, OwnerInv, PartInv, MapsAgree
<1> QED
  BY <1>1, Invariant, PTL
=============================================================================
