-------------------------- MODULE NegotiationProofs --------------------------
(***************************************************************************)
(* Proofs about Negotiation, for any drivers that keep the rules of        *)
(* NegotiationAssumption and for any requests, surfaces and time domains.  *)
(***************************************************************************)
EXTENDS Negotiation, TLAPS

\* The stages hold what was found or chosen when they were reached, and none of
\* it can change afterwards.
InstanceInv ==
  instance # None =>
    /\ instance.success = (instance.extensions \subseteq driver.instance)
    /\ instance.extensions =
         (IF instance.request.extensions \union extra_extensions(instance.request)
               \subseteq driver.instance
          THEN instance.request.extensions \union extra_extensions(instance.request)
          ELSE instance.request.extensions)

PhysicalInv ==
  physical # None =>
    /\ Succeeds(instance)
    /\ physical.supports_required_extensions = has_required_extensions
    /\ physical.calibrated_timestamps_extension = pick_calibrated_timestamps
    /\ physical.display_extensions = find_display_extensions

DeviceInv ==
  device # None =>
    /\ physical # None
    /\ device.is_active = is_active
    /\ device.extensions = next_extensions(device.request)
    /\ device.chain = next_chain(device.request)
    /\ device.display_extensions = wanted_display_extensions
    /\ device.success = Accepts(device.extensions, device.chain)

SwapchainInv ==
  swapchain # None =>
    /\ Succeeds(device)
    /\ swapchain.presentTimingFlag =
         (config.allow_present_timing /\ "presentTiming" \in device.display_extensions)
    /\ \E answers \in BOOLEAN :
         swapchain.feedback # None =>
           /\ device.is_active
           /\ swapchain.feedback =
                createFeedback(query(swapchain.surface, answers), swapchain.domains)

IInv ==
  /\ driver \in Driver /\ TypeOK
  /\ InstanceInv /\ PhysicalInv /\ DeviceInv /\ SwapchainInv

-----------------------------------------------------------------------------
(* Operators. *)

\* What a list of preferences picks is one of those offered.
LEMMA FirstOfFacts ==
  ASSUME NEW seq, NEW offered, DOMAIN seq \subseteq 1..4,
         FirstOf(seq, offered) # None
  PROVE  FirstOf(seq, offered) \in offered \intersect Image(seq)
<1>1. PICK i \in DOMAIN seq : seq[i] \in offered
  BY DEF FirstOf
<1>2. \E n \in DOMAIN seq :
        /\ seq[n] \in offered
        /\ \A j \in DOMAIN seq : seq[j] \in offered => n <= j
  <2>1. \A n \in DOMAIN seq : n \in {1, 2, 3, 4}
    OBVIOUS
  <2>2. CASE 1 \in DOMAIN seq /\ seq[1] \in offered
    BY <2>1, <2>2
  <2>3. CASE ~(1 \in DOMAIN seq /\ seq[1] \in offered) /\ 2 \in DOMAIN seq /\ seq[2] \in offered
    BY <2>1, <2>3
  <2>4. CASE /\ ~(1 \in DOMAIN seq /\ seq[1] \in offered)
             /\ ~(2 \in DOMAIN seq /\ seq[2] \in offered)
             /\ 3 \in DOMAIN seq /\ seq[3] \in offered
    BY <2>1, <2>4
  <2>5. CASE /\ ~(1 \in DOMAIN seq /\ seq[1] \in offered)
             /\ ~(2 \in DOMAIN seq /\ seq[2] \in offered)
             /\ ~(3 \in DOMAIN seq /\ seq[3] \in offered)
    BY <2>1, <2>5, <1>1
  <2> QED
    BY <2>2, <2>3, <2>4, <2>5
<1> QED
  BY <1>1, <1>2 DEF FirstOf, Image

\* The picked extension is one the driver has, and a usable device has one.
LEMMA CalibratedFacts ==
  /\ pick_calibrated_timestamps \in Image(calibrated_timestamps_extensions) \union {None}
  /\ has_required_extensions =>
       required_extensions \union {pick_calibrated_timestamps} \subseteq driver.extensions
  /\ "calibrated_timestamps_khr" \in driver.extensions =>
       pick_calibrated_timestamps = "calibrated_timestamps_khr"
<1> DEFINE L == calibrated_timestamps_extensions
<1>1. /\ DOMAIN L = {1, 2} /\ DOMAIN L \subseteq 1..4
      /\ L[1] = "calibrated_timestamps_khr"
  BY DEF calibrated_timestamps_extensions
<1>2. pick_calibrated_timestamps # None =>
        pick_calibrated_timestamps \in driver.extensions \intersect Image(L)
  BY <1>1, FirstOfFacts DEF pick_calibrated_timestamps
<1>3. ASSUME "calibrated_timestamps_khr" \in driver.extensions
      PROVE  pick_calibrated_timestamps = "calibrated_timestamps_khr"
  <2>1. 1 \in DOMAIN L /\ L[1] \in driver.extensions
    BY <1>1, <1>3
  <2>2. (CHOOSE i \in DOMAIN L : /\ L[i] \in driver.extensions
                                 /\ \A j \in DOMAIN L : L[j] \in driver.extensions => i <= j) = 1
    BY <1>1, <2>1
  <2> QED
    BY <1>1, <2>1, <2>2 DEF pick_calibrated_timestamps, FirstOf
<1> QED
  BY <1>2, <1>3 DEF has_required_extensions

\* The structure that holds a bit is in the new chain, with that bit; nothing
\* else is set that was not, and everything that was there still is.
LEMMA ChainFacts ==
  ASSUME NEW r \in DeviceRequest
  PROVE  LET added == IF is_active THEN RequiredFeature \union wanted_display_extensions
                      ELSE {}
         IN  /\ BitsOf(next_chain(r)) = BitsOf(r.chain) \union added
             /\ \A s \in DOMAIN r.chain :
                  s \in DOMAIN next_chain(r) /\ r.chain[s] \subseteq next_chain(r)[s]
             /\ DOMAIN next_chain(r) =
                  DOMAIN r.chain \union {Place(f, r.chain) : f \in added}
<1> DEFINE added == IF is_active THEN RequiredFeature \union wanted_display_extensions
                    ELSE {}
           chain == r.chain
           new == next_chain(r)
<1>1. /\ DOMAIN new = DOMAIN chain \union {Place(f, chain) : f \in added}
      /\ \A s \in DOMAIN new :
           new[s] = (IF s \in DOMAIN chain THEN chain[s] ELSE {})
                      \union {f \in added : Place(f, chain) = s}
  BY DEF next_chain
<1> HIDE DEF added, chain, new
<1>2. BitsOf(new) \subseteq BitsOf(chain) \union added
  BY <1>1 DEF BitsOf
<1>3. BitsOf(chain) \subseteq BitsOf(new)
  BY <1>1 DEF BitsOf
<1>4. added \subseteq BitsOf(new)
  BY <1>1 DEF BitsOf
<1>5. \A s \in DOMAIN chain : s \in DOMAIN new /\ chain[s] \subseteq new[s]
  BY <1>1
<1> QED
  BY <1>1, <1>2, <1>3, <1>4, <1>5 DEF added, chain, new

-----------------------------------------------------------------------------
(* The invariant. *)

\* Nothing is negotiated at first.
LEMMA InitInv == Init => IInv
BY DEF Init, IInv, TypeOK, InstanceInv, PhysicalInv, DeviceInv, SwapchainInv

\* A creation that fails leaves nothing that later stages could rest on.
LEMMA InstanceStep ==
  ASSUME IInv, NEW r \in InstanceRequest, CreateInstance(r)
  PROVE  IInv'
<1>1. physical = None /\ device = None /\ swapchain = None
  BY DEF CreateInstance, IInv, PhysicalInv, DeviceInv, SwapchainInv, Succeeds
<1>2. /\ instance'.request = r /\ instance'.success \in BOOLEAN
      /\ InstanceInv'
  BY DEF CreateInstance, InstanceInv, extra_extensions
<1>3. UNCHANGED <<config, driver, physical, device, swapchain>>
  BY DEF CreateInstance
<1> QED
  BY <1>1, <1>2, <1>3 DEF IInv, TypeOK, PhysicalInv, DeviceInv, SwapchainInv

\* The physical device is described by what its driver and its instance offer.
LEMMA PhysicalStep ==
  ASSUME IInv, EnumeratePhysicalDevices
  PROVE  IInv'
<1>1. /\ device = None /\ swapchain = None
      /\ UNCHANGED <<config, driver, instance, device, swapchain>>
  BY DEF EnumeratePhysicalDevices, IInv, DeviceInv, SwapchainInv, Succeeds
<1>2. /\ physical'.supports_required_extensions = has_required_extensions
      /\ physical'.calibrated_timestamps_extension = pick_calibrated_timestamps
      /\ physical'.display_extensions = find_display_extensions
      /\ Succeeds(instance)
  BY DEF EnumeratePhysicalDevices
<1>3. PhysicalInv'
  BY <1>1, <1>2 DEF PhysicalInv, Succeeds, has_required_extensions,
     pick_calibrated_timestamps, find_display_extensions, get_features2
<1>4. TypeOK'
  <2>1. has_required_extensions \in BOOLEAN /\ find_display_extensions \subseteq DisplayFeature
    BY DEF has_required_extensions, find_display_extensions
  <2> QED
    BY <1>1, <1>2, <2>1, CalibratedFacts DEF IInv, TypeOK
<1>5. InstanceInv' /\ DeviceInv' /\ SwapchainInv'
  BY <1>1 DEF IInv, InstanceInv, DeviceInv, SwapchainInv, extra_extensions
<1> QED
  BY <1>1, <1>3, <1>4, <1>5 DEF IInv

\* The device is what the description of its physical device makes of the
\* request.
LEMMA DeviceStep ==
  ASSUME IInv, NEW r \in DeviceRequest, CreateDevice(r)
  PROVE  IInv'
<1>1. /\ swapchain = None /\ physical # None
      /\ UNCHANGED <<config, driver, instance, physical, swapchain>>
  BY DEF CreateDevice, IInv, SwapchainInv, Succeeds
<1>2. /\ device'.request = r
      /\ device'.is_active = is_active
      /\ device'.extensions = next_extensions(r)
      /\ device'.chain = next_chain(r)
      /\ device'.display_extensions = wanted_display_extensions
      /\ device'.success = Accepts(next_extensions(r), next_chain(r))
  BY DEF CreateDevice
<1>3. /\ is_active' = is_active
      /\ wanted_display_extensions' = wanted_display_extensions
      /\ next_extensions(r)' = next_extensions(r)
      /\ next_chain(r)' = next_chain(r)
      /\ Accepts(next_extensions(r), next_chain(r))' = Accepts(next_extensions(r), next_chain(r))
  BY <1>1 DEF is_active, wanted_display_extensions, next_extensions, next_chain, Accepts
<1>4. DeviceInv'
  <2>1. next_extensions(device.request)' = next_extensions(r)
    BY <1>1, <1>2 DEF next_extensions, is_active, wanted_display_extensions
  <2>2. next_chain(device.request)' = next_chain(r)
    BY <1>1, <1>2 DEF next_chain, is_active, wanted_display_extensions
  <2>3. Accepts(device.extensions, device.chain)' = Accepts(next_extensions(r), next_chain(r))
    BY <1>1, <1>2 DEF Accepts
  <2> QED
    BY <1>1, <1>2, <1>3, <2>1, <2>2, <2>3 DEF DeviceInv
<1>5. TypeOK'
  <2>1. /\ is_active \in BOOLEAN
        /\ wanted_display_extensions \subseteq DisplayFeature
        /\ Accepts(next_extensions(r), next_chain(r)) \in BOOLEAN
    <3>1. physical.supports_required_extensions \in BOOLEAN
          /\ physical.display_extensions \subseteq DisplayFeature
      BY <1>1 DEF IInv, TypeOK
    <3>2. is_active \in BOOLEAN
      BY <3>1 DEF is_active
    <3>3. wanted_display_extensions \subseteq DisplayFeature
      BY <3>1 DEF wanted_display_extensions
    <3> QED
      BY <3>2, <3>3 DEF Accepts
  <2> QED
    BY <1>1, <1>2, <2>1 DEF IInv, TypeOK
<1>6. InstanceInv' /\ PhysicalInv' /\ SwapchainInv'
  BY <1>1 DEF IInv, InstanceInv, PhysicalInv, SwapchainInv, extra_extensions, Succeeds,
     has_required_extensions, pick_calibrated_timestamps, find_display_extensions,
     get_features2
<1> QED
  BY <1>1, <1>4, <1>5, <1>6 DEF IInv

\* A step of the swapchain alone leaves all before it.
LEMMA EarlierStages ==
  ASSUME IInv, UNCHANGED <<config, driver, instance, physical, device>>
  PROVE  /\ driver' \in Driver
         /\ InstanceInv' /\ PhysicalInv' /\ DeviceInv'
         /\ \A s, d : \A a \in BOOLEAN :
              createFeedback(query(s, a), d)' = createFeedback(query(s, a), d)
<1>1. InstanceInv' /\ PhysicalInv'
  BY DEF IInv, InstanceInv, PhysicalInv, extra_extensions, Succeeds,
     has_required_extensions, pick_calibrated_timestamps, find_display_extensions,
     get_features2
<1>2. DeviceInv'
  <2>1. /\ is_active' = is_active
        /\ wanted_display_extensions' = wanted_display_extensions
    BY DEF is_active, wanted_display_extensions
  <2>2. /\ next_extensions(device.request)' = next_extensions(device.request)
        /\ next_chain(device.request)' = next_chain(device.request)
        /\ Accepts(device.extensions, device.chain)' = Accepts(device.extensions, device.chain)
    BY <2>1 DEF next_extensions, next_chain, Accepts
  <2> QED
    BY <2>1, <2>2 DEF IInv, DeviceInv
<1>3. \A s, d : \A a \in BOOLEAN :
        createFeedback(query(s, a), d)' = createFeedback(query(s, a), d)
  BY DEF createFeedback, query, EntryPoints
<1> QED
  BY <1>1, <1>2, <1>3 DEF IInv

\* A new swapchain's feedback is what one answer of its surface allows.
LEMMA SwapchainStep ==
  ASSUME IInv, NEW s \in Surface, NEW d \in Domains, NEW gated \in BOOLEAN,
         NEW answers \in BOOLEAN, CreateSwapchain(s, d, gated, answers)
  PROVE  IInv'
<1>1. UNCHANGED <<config, driver, instance, physical, device>> /\ Succeeds(device)
  BY DEF CreateSwapchain
<1>2. /\ swapchain'.surface = s
      /\ swapchain'.domains = d
      /\ swapchain'.presentTimingFlag =
           (config.allow_present_timing /\ "presentTiming" \in device.display_extensions)
      /\ swapchain'.feedback # None =>
           /\ device.is_active
           /\ swapchain'.feedback = createFeedback(query(s, answers), d)
  BY DEF CreateSwapchain
<1>3. createFeedback(query(s, answers), d)' = createFeedback(query(s, answers), d)
  BY <1>1, EarlierStages
<1>4. createFeedback(query(swapchain.surface, answers), swapchain.domains)'
        = createFeedback(query(s, answers), d)
  BY <1>1, <1>2 DEF createFeedback, query, EntryPoints
<1>5. SwapchainInv'
  BY <1>1, <1>2, <1>4 DEF SwapchainInv, Succeeds
<1>6. TypeOK'
  BY <1>1, <1>2 DEF IInv, TypeOK
<1> QED
  BY <1>1, <1>5, <1>6, EarlierStages DEF IInv

\* Every step preserves the invariant.
LEMMA NextInv == IInv /\ [Next]_vars => IInv'
<1> SUFFICES ASSUME IInv, [Next]_vars
             PROVE  IInv'
  OBVIOUS
<1>1. ASSUME NEW r \in InstanceRequest, CreateInstance(r) PROVE IInv'
  BY <1>1, InstanceStep
<1>2. CASE EnumeratePhysicalDevices
  BY <1>2, PhysicalStep
<1>3. ASSUME NEW r \in DeviceRequest, CreateDevice(r) PROVE IInv'
  BY <1>3, DeviceStep
<1>4. ASSUME NEW s \in Surface, NEW d \in Domains, NEW gated \in BOOLEAN,
             NEW answers \in BOOLEAN, CreateSwapchain(s, d, gated, answers)
      PROVE  IInv'
  BY <1>4, SwapchainStep
<1>5. CASE DestroySwapchain
  <2>1. /\ UNCHANGED <<config, driver, instance, physical, device>>
        /\ swapchain' = None
    BY <1>5 DEF DestroySwapchain
  <2>2. TypeOK' /\ SwapchainInv'
    BY <2>1 DEF IInv, TypeOK, SwapchainInv
  <2> QED
    BY <2>1, <2>2, EarlierStages DEF IInv
<1>6. CASE UNCHANGED vars
  <2>1. UNCHANGED <<config, driver, instance, physical, device>> /\ swapchain' = swapchain
    BY <1>6 DEF vars
  <2>2. TypeOK'
    BY <2>1 DEF IInv, TypeOK
  <2>3. SwapchainInv'
    BY <2>1 DEF IInv, SwapchainInv, Succeeds, createFeedback, query, EntryPoints
  <2> QED
    BY <2>1, <2>2, <2>3, EarlierStages DEF IInv
<1> QED
  BY <1>1, <1>2, <1>3, <1>4, <1>5, <1>6 DEF Next

-----------------------------------------------------------------------------
(* What the properties need of the invariant. *)

\* Everything the layer adds to a device is something the driver has.
LEMMA AdditionsAreSupported ==
  ASSUME IInv, device # None, device.is_active
  PROVE  /\ required_extensions \union {pick_calibrated_timestamps}
              \union {DisplayExtensions[f] : f \in device.display_extensions}
              \subseteq driver.extensions
         /\ RequiredFeature \union device.display_extensions \subseteq driver.features
<1>1. /\ has_required_extensions
      /\ device.display_extensions \subseteq find_display_extensions
  BY DEF IInv, DeviceInv, PhysicalInv, is_active, wanted_display_extensions
<1>2. required_extensions \union {pick_calibrated_timestamps} \subseteq driver.extensions
  BY <1>1, CalibratedFacts
<1>3. /\ \A f \in device.display_extensions : DisplayExtensions[f] \in driver.extensions
      /\ device.display_extensions \subseteq driver.features
  BY <1>1 DEF find_display_extensions
<1>4. RequiredFeature \subseteq driver.features
  BY <1>2, NegotiationAssumption DEF RequiredFeature, required_extensions, IInv
<1> QED
  BY <1>2, <1>3, <1>4

\* A device gets the application's extensions and bits, and for an active one
\* those of the layer.
LEMMA WhatIsEnabled ==
  ASSUME IInv, device # None
  PROVE  /\ device.extensions =
              (IF device.is_active
               THEN device.request.extensions \union required_extensions
                      \union {pick_calibrated_timestamps}
                      \union {DisplayExtensions[f] : f \in device.display_extensions}
               ELSE device.request.extensions)
         /\ BitsOf(device.chain) =
              BitsOf(device.request.chain)
                \union (IF device.is_active
                        THEN RequiredFeature \union device.display_extensions ELSE {})
<1>1. device.request \in DeviceRequest
  BY DEF IInv, TypeOK
<1>2. physical.calibrated_timestamps_extension = pick_calibrated_timestamps
  BY DEF IInv, DeviceInv, PhysicalInv
<1>3. BitsOf(device.chain) =
        BitsOf(device.request.chain)
          \union (IF device.is_active
                  THEN RequiredFeature \union device.display_extensions ELSE {})
  BY <1>1, ChainFacts DEF IInv, DeviceInv
<1> QED
  BY <1>2, <1>3 DEF IInv, DeviceInv, next_extensions

\* The driver's answer is the same: what is added is supported.
LEMMA SuccessInv == IInv => SuccessIsTheDrivers
<1> SUFFICES ASSUME IInv
             PROVE  SuccessIsTheDrivers
  OBVIOUS
<1>1. instance # None =>
        (instance.success <=> instance.request.extensions \subseteq driver.instance)
  BY DEF IInv, InstanceInv
<1>2. ASSUME device # None
      PROVE  device.success <=> Accepts(device.request.extensions, device.request.chain)
  <2>1. device.success = Accepts(device.extensions, device.chain)
    BY <1>2 DEF IInv, DeviceInv
  <2>2. CASE device.is_active
    BY <1>2, <2>1, <2>2, WhatIsEnabled, AdditionsAreSupported DEF Accepts
  <2>3. CASE ~device.is_active
    BY <1>2, <2>1, <2>3, WhatIsEnabled DEF Accepts
  <2> QED
    BY <2>2, <2>3
<1> QED
  BY <1>1, <1>2 DEF SuccessIsTheDrivers

\* The request is passed on: a bit goes where its structure is.
LEMMA KeptInv == IInv => RequestIsKept
<1> SUFFICES ASSUME IInv, device # None
             PROVE  /\ device.request.extensions \subseteq device.extensions
                    /\ \A s \in DOMAIN device.request.chain :
                         /\ s \in DOMAIN device.chain
                         /\ device.request.chain[s] \subseteq device.chain[s]
                    /\ LegalChain(device.chain)
                    /\ ~device.is_active =>
                         /\ device.extensions = device.request.extensions
                         /\ device.chain = device.request.chain
  BY DEF RequestIsKept
<1> DEFINE r == device.request
           added == IF is_active THEN RequiredFeature \union wanted_display_extensions
                    ELSE {}
<1>1. /\ r \in DeviceRequest /\ device.chain = next_chain(r)
      /\ device.is_active = is_active /\ wanted_display_extensions \subseteq DisplayFeature
  BY DEF IInv, TypeOK, DeviceInv
<1>2. r.extensions \subseteq device.extensions
  BY WhatIsEnabled
<1>3. \A s \in DOMAIN r.chain : s \in DOMAIN device.chain /\ r.chain[s] \subseteq device.chain[s]
  BY <1>1, ChainFacts
<1>4. LegalChain(device.chain)
  <2>1. DOMAIN device.chain = DOMAIN r.chain \union {Place(f, r.chain) : f \in added}
    BY <1>1, ChainFacts
  <2>2. LegalChain(r.chain)
    BY <1>1, NegotiationAssumption
  <2>3. added \subseteq {"synchronization2", "hostQueryReset", "presentId2",
                         "presentTiming", "presentAtRelativeTime"}
    BY <1>1 DEF RequiredFeature, DisplayFeature, DisplayExtensions
  <2>4. /\ Place("synchronization2", r.chain) =
             (IF "vulkan13" \in DOMAIN r.chain THEN "vulkan13" ELSE "synchronization2")
        /\ Place("hostQueryReset", r.chain) =
             (IF "vulkan12" \in DOMAIN r.chain THEN "vulkan12" ELSE "host_query_reset")
        /\ Place("presentId2", r.chain) = "present_id2"
        /\ Place("presentTiming", r.chain) = "present_timing"
        /\ Place("presentAtRelativeTime", r.chain) = "present_timing"
    BY DEF Place, CoreStructure, OwnStructure
  <2>5. \A chain : LegalChain(chain) <=>
          /\ ~("vulkan13" \in DOMAIN chain /\ "synchronization2" \in DOMAIN chain)
          /\ ~("vulkan12" \in DOMAIN chain /\ "host_query_reset" \in DOMAIN chain)
    BY DEF LegalChain, RequiredFeature, CoreStructure, OwnStructure
  <2> HIDE DEF added
  <2>6. ~("vulkan13" \in DOMAIN device.chain /\ "synchronization2" \in DOMAIN device.chain)
    BY <2>1, <2>2, <2>3, <2>4, <2>5
  <2>7. ~("vulkan12" \in DOMAIN device.chain /\ "host_query_reset" \in DOMAIN device.chain)
    BY <2>1, <2>2, <2>3, <2>4, <2>5
  <2> QED
    BY <2>5, <2>6, <2>7
<1>5. ASSUME ~device.is_active
      PROVE  device.extensions = r.extensions /\ device.chain = r.chain
  <2>1. device.extensions = r.extensions
    BY <1>5, WhatIsEnabled
  <2>2. next_chain(r) = [s \in DOMAIN r.chain |-> r.chain[s]]
    BY <1>1, <1>5 DEF next_chain
  <2> QED
    BY <1>1, <2>1, <2>2, NegotiationAssumption
<1> QED
  BY <1>2, <1>3, <1>4, <1>5

\* FeedbackIsUsable follows: the last stage asks for everything that the
\* earlier ones decided.
LEMMA UsableInv == IInv => FeedbackIsUsable
<1> SUFFICES ASSUME IInv, swapchain # None, swapchain.feedback # None
             PROVE  /\ {"present_timing", "present_id2", "calibrated_timestamps_khr"}
                         \subseteq device.extensions \intersect driver.extensions
                    /\ DisplayFeature \subseteq BitsOf(device.chain) \intersect driver.features
                    /\ "surface_capabilities2" \in instance.extensions
                    /\ "presentTiming" \in swapchain.surface.supported
                    /\ swapchain.presentTimingFlag
                    /\ swapchain.feedback.stage \in swapchain.surface.stages
                    /\ swapchain.feedback.time_domain \in swapchain.domains
  BY DEF FeedbackIsUsable
<1>1. device # None /\ device.is_active
  BY DEF IInv, SwapchainInv, Succeeds
<1>2. PICK answers \in BOOLEAN :
        swapchain.feedback = createFeedback(query(swapchain.surface, answers), swapchain.domains)
  BY DEF IInv, SwapchainInv
<1> DEFINE support == query(swapchain.surface, answers)
           stage == FirstOf(STAGE_PREFERENCE, support.stages)
           domain == FirstOf(DOMAIN_PREFERENCE, swapchain.domains)
<1>3. /\ "presentTiming" \in support.supported
      /\ "presentAtRelativeTime" \in device.display_extensions
      /\ stage # None /\ domain # None
      /\ swapchain.feedback.stage = stage /\ swapchain.feedback.time_domain = domain
  BY <1>2 DEF createFeedback
<1>4. /\ "surface_capabilities2" \in instance.extensions
      /\ "presentTiming" \in swapchain.surface.supported
      /\ "presentTiming" \in device.display_extensions
      /\ support.stages = swapchain.surface.stages
  BY <1>3 DEF query
<1>5. device.display_extensions = DisplayFeature /\ config.allow_present_timing
  <2>1. /\ "presentId2" \in device.display_extensions /\ config.allow_present_timing
        /\ device.display_extensions \subseteq DisplayFeature
    BY <1>1, <1>4 DEF IInv, DeviceInv, TypeOK, wanted_display_extensions
  <2> QED
    BY <1>3, <1>4, <2>1 DEF DisplayFeature, DisplayExtensions
<1>6. {"present_timing", "present_id2"} \subseteq device.extensions \intersect driver.extensions
  <2>1. DisplayExtensions["presentTiming"] = "present_timing"
        /\ DisplayExtensions["presentId2"] = "present_id2"
        /\ {"presentTiming", "presentId2"} \subseteq DisplayFeature
    BY DEF DisplayExtensions, DisplayFeature
  <2> QED
    BY <1>1, <1>5, <2>1, WhatIsEnabled, AdditionsAreSupported
<1>7. "calibrated_timestamps_khr" \in device.extensions \intersect driver.extensions
  <2>1. "calibrated_timestamps_khr" \in driver.extensions
    BY <1>6, NegotiationAssumption DEF IInv
  <2> QED
    BY <1>1, <2>1, WhatIsEnabled, CalibratedFacts
<1>8. DisplayFeature \subseteq BitsOf(device.chain) \intersect driver.features
  BY <1>1, <1>5, WhatIsEnabled, AdditionsAreSupported
<1>9. swapchain.presentTimingFlag
  BY <1>4, <1>5 DEF IInv, SwapchainInv
<1>10. stage \in swapchain.surface.stages /\ domain \in swapchain.domains
  <2>1. DOMAIN STAGE_PREFERENCE \subseteq 1..4 /\ DOMAIN DOMAIN_PREFERENCE \subseteq 1..4
    BY DEF STAGE_PREFERENCE, DOMAIN_PREFERENCE
  <2> QED
    BY <1>3, <1>4, <2>1, FirstOfFacts
<1> QED
  BY <1>3, <1>4, <1>6, <1>7, <1>8, <1>9, <1>10

-----------------------------------------------------------------------------
(* The theorems. *)

\* The invariant holds throughout.
LEMMA Invariance == Spec => []IInv
BY InitInv, NextInv, PTL DEF Spec

\* The stages keep their types.
THEOREM TypeCorrect == Spec => []TypeOK
<1>1. IInv => TypeOK
  BY DEF IInv
<1> QED
  BY <1>1, Invariance, PTL

\* Whatever the driver offers and the application asks for, the layer neither
\* makes vkCreateInstance or vkCreateDevice fail nor lets them succeed, and all
\* that was asked for is passed on, in a legal chain.
THEOREM Transparent == Spec => []CreationIsTransparent
<1>1. IInv => CreationIsTransparent
  BY SuccessInv, KeptInv DEF CreationIsTransparent
<1> QED
  BY <1>1, Invariance, PTL

\* Display feedback exists only where all it uses is enabled and supported.
THEOREM FeedbackUsable == Spec => []FeedbackIsUsable
BY UsableInv, Invariance, PTL
=============================================================================
