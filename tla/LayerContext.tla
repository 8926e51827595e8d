---------------------------- MODULE LayerContext ----------------------------
(***************************************************************************)
(* The registry: a map, under one mutex, from dispatchable handles to the  *)
(* layer's contexts.  An owner is an instance or a device, and its parts   *)
(* are the physical devices of the one or the queues of the other; the     *)
(* hooks of layer.cc treat the two alike.  Owners are created and          *)
(* destroyed, and parts obtained any number of times, by several threads;  *)
(* the driver gives the handles of what is destroyed out again, and a      *)
(* handle is a mere pointer in the map, of whatever kind.                  *)
(*                                                                         *)
(* Abstracted: the contexts' content, and every call that only looks a     *)
(* context up.  VK_INCOMPLETE as the answer to an enumeration is left out: *)
(* the loader asks for all physical devices.                               *)
(***************************************************************************)
EXTENDS Naturals

CONSTANTS
  Thread,      \* application threads
  Owner,       \* handles of instances and devices
  Instance,    \* those of them that are instances'
  Part,        \* handles of physical devices and queues
  MaxCreated,  \* bound: owners created
  None

ASSUME RegistryAssumption ==
  /\ Instance \subseteq Owner
  /\ Owner \intersect Part = {}
  /\ MaxCreated \in Nat
  /\ None \notin Owner /\ None \notin [object : Nat, parts : SUBSET Part]

VARIABLES
  contexts,   \* LayerContext::contexts
  object,     \* driver: the object behind the handle of an owner, or 0
  belongs,    \* driver: the owner of a part's handle
  created,    \* owners created so far; numbers the objects
  known,      \* the handles the application was given and may use
  pc,         \* where each thread is
  owner,      \* the owner its call is about
  parts,      \* the parts the driver has answered it
  found       \* the object whose context it has looked up

driverVars == <<object, belongs, created>>
threadVars == <<pc, owner, parts, found>>
vars == <<contexts, driverVars, known, threadVars>>

\* A context of an owner has its object, and which parts it holds contexts of;
\* that of a part refers to its owner's.
Context == [object : Nat, parts : SUBSET Part]
NewContext(o) == [object |-> o, parts |-> {}]
PartsOf(o) == {p \in Part : belongs[p] = o}

Init ==
  /\ contexts = [h \in Owner \union Part |-> None]
  /\ object = [o \in Owner |-> 0]
  /\ belongs = [p \in Part |-> None]
  /\ created = 0
  /\ known = {}
  /\ pc = [t \in Thread |-> "idle"]
  /\ owner = [t \in Thread |-> None]
  /\ parts = [t \in Thread |-> {}]
  /\ found = [t \in Thread |-> 0]

Goto(t, where) == pc' = [pc EXCEPT ![t] = where]
Return(t) ==
  /\ Goto(t, "idle")
  /\ owner' = [owner EXCEPT ![t] = None]
  /\ parts' = [parts EXCEPT ![t] = {}]
  /\ found' = [found EXCEPT ![t] = 0]

-----------------------------------------------------------------------------
(* vkCreateInstance, vkCreateDevice: the driver, then the map. *)

Create(t, o) ==
  /\ pc[t] = "idle"
  /\ object[o] = 0
  /\ created < MaxCreated
  /\ created' = created + 1
  /\ object' = [object EXCEPT ![o] = created + 1]
  /\ \E P \in SUBSET {p \in Part : belongs[p] = None} :
       belongs' = [p \in Part |-> IF p \in P THEN o ELSE belongs[p]]
  /\ Goto(t, "inserting")
  /\ owner' = [owner EXCEPT ![t] = o]
  /\ UNCHANGED <<contexts, known, parts, found>>

\* try_emplace leaves an entry that is there as it is.
Insert(t) ==
  /\ pc[t] = "inserting"
  /\ contexts' = [contexts EXCEPT ![owner[t]] =
                    IF @ = None THEN NewContext(object[owner[t]]) ELSE @]
  /\ known' = known \union {owner[t]}
  /\ Return(t)
  /\ UNCHANGED driverVars

-----------------------------------------------------------------------------
(* vkEnumeratePhysicalDevices, vkGetDeviceQueue, vkGetDeviceQueue2: look    *)
(* the owner up and ask the driver; then, under the mutex, register.       *)

Obtain(t, o, P) ==
  /\ pc[t] = "idle"
  /\ o \in known
  /\ P # {} /\ P \subseteq PartsOf(o)
  /\ IF o \in Instance THEN P = PartsOf(o) ELSE \E p \in P : P = {p}
  /\ Goto(t, "registering")
  /\ owner' = [owner EXCEPT ![t] = o]
  /\ parts' = [parts EXCEPT ![t] = P]
  /\ found' = [found EXCEPT ![t] = contexts[o].object]
  /\ UNCHANGED <<contexts, driverVars, known>>

\* Wrong on purpose: the owner does not note its new parts.
RegisterUnnoted(t) ==
  /\ pc[t] = "registering"
  /\ contexts' = [h \in Owner \union Part |->
       IF h \in parts[t] /\ contexts[h] = None THEN NewContext(found[t])
       ELSE contexts[h]]
  /\ known' = known \union parts[t]
  /\ Return(t)
  /\ UNCHANGED driverVars

\* Wrong on purpose: an entry that is made stays empty.
RegisterEmpty(t) ==
  /\ pc[t] = "registering"
  /\ contexts' = [h \in Owner \union Part |->
       IF h \in parts[t] /\ contexts[h] = None THEN [object |-> None, parts |-> {}]
       ELSE IF h = owner[t] THEN [contexts[h] EXCEPT !.parts = @ \union parts[t]]
       ELSE contexts[h]]
  /\ known' = known \union parts[t]
  /\ Return(t)
  /\ UNCHANGED driverVars

Register(t) ==
  /\ pc[t] = "registering"
  /\ contexts' = [h \in Owner \union Part |->
       IF h \in parts[t] /\ contexts[h] = None THEN NewContext(found[t])
       ELSE IF h = owner[t] THEN [contexts[h] EXCEPT !.parts = @ \union parts[t]]
       ELSE contexts[h]]
  /\ known' = known \union parts[t]
  /\ Return(t)
  /\ UNCHANGED driverVars

-----------------------------------------------------------------------------
(* vkDestroyInstance, vkDestroyDevice.  Vulkan allows no other call on the  *)
(* owner or on its parts meanwhile.                                        *)

BeginDestroy(t, o) ==
  /\ pc[t] = "idle"
  /\ o \in known
  /\ \A u \in Thread : owner[u] # o
  /\ known' = known \ ({o} \union PartsOf(o))
  /\ Goto(t, "erasing")
  /\ owner' = [owner EXCEPT ![t] = o]
  /\ UNCHANGED <<contexts, driverVars, parts, found>>

\* Wrong on purpose: the parts stay in the map.
EraseOwnerOnly(t) ==
  /\ pc[t] = "erasing"
  /\ contexts' = [contexts EXCEPT ![owner[t]] = None]
  /\ Goto(t, "destroying")
  /\ UNCHANGED <<driverVars, known, owner, parts, found>>

\* Under the mutex: the parts the context knows of go, then the owner.
Erase(t) ==
  /\ pc[t] = "erasing"
  /\ contexts' = [h \in Owner \union Part |->
       IF h = owner[t] \/ h \in contexts[owner[t]].parts THEN None ELSE contexts[h]]
  /\ Goto(t, "destroying")
  /\ UNCHANGED <<driverVars, known, owner, parts, found>>

\* Wrong on purpose: the driver may have destroyed it before it is erased.
DriverDestroyEarly(t) ==
  /\ pc[t] \in {"erasing", "destroying"}
  /\ object' = [object EXCEPT ![owner[t]] = IF pc[t] = "erasing" THEN 0 ELSE @]
  /\ belongs' = [p \in Part |-> IF belongs[p] = owner[t] THEN None ELSE belongs[p]]
  /\ IF pc[t] = "destroying" THEN Return(t) ELSE UNCHANGED threadVars
  /\ UNCHANGED <<contexts, created, known>>

DriverDestroy(t) ==
  /\ pc[t] = "destroying"
  /\ object' = [object EXCEPT ![owner[t]] = 0]
  /\ belongs' = [p \in Part |-> IF belongs[p] = owner[t] THEN None ELSE belongs[p]]
  /\ Return(t)
  /\ UNCHANGED <<contexts, created, known>>

-----------------------------------------------------------------------------
Next ==
  \E t \in Thread :
    \/ Insert(t) \/ Register(t) \/ Erase(t) \/ DriverDestroy(t)
    \/ \E o \in Owner : \/ Create(t, o) \/ BeginDestroy(t, o)
                        \/ \E P \in SUBSET Part : Obtain(t, o, P)

Spec == Init /\ [][Next]_vars

-----------------------------------------------------------------------------
(* Properties. *)

TypeOK ==
  /\ contexts \in [Owner \union Part -> Context \union {None}]
  /\ object \in [Owner -> Nat]
  /\ belongs \in [Part -> Owner \union {None}]
  /\ created \in Nat
  /\ known \subseteq Owner \union Part
  /\ pc \in [Thread -> {"idle", "inserting", "registering", "erasing", "destroying"}]
  /\ owner \in [Thread -> Owner \union {None}]
  /\ parts \in [Thread -> SUBSET Part]
  /\ found \in [Thread -> Nat]

\* get_context: a handle the application may use has a context, and it is that
\* of the object now behind the handle, not of one that had the handle before.
LookUpIsOwn ==
  \A h \in known :
    /\ contexts[h] # None
    /\ h \in Owner => contexts[h].object = object[h]
    /\ h \in Part => /\ belongs[h] # None
                     /\ contexts[h].object = object[belongs[h]]

\* A handle that the driver has just made is not in the map
\* (layer.cc:161 and :471), or the new owner would go without a context.
NewHandleIsUnknown ==
  \A t \in Thread : pc[t] = "inserting" => contexts[owner[t]] = None

\* A part has its entry in the map exactly while its owner's context holds it,
\* whichever threads obtain it, and however often: destruction, which goes by
\* the owner's list, leaves no entry behind and finds each one.
MapsAgree ==
  \A p \in Part :
    contexts[p] # None <=>
      \E o \in Owner : contexts[o] # None /\ p \in contexts[o].parts
=============================================================================
