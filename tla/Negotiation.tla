----------------------------- MODULE Negotiation -----------------------------
(***************************************************************************)
(* What the layer adds to the objects the application creates, and what it *)
(* may use of them later: instance extensions (layer.cc, CreateInstance),  *)
(* the capabilities of a physical device (PhysicalDeviceContext), device   *)
(* extensions and features (CreateDevice), the flag of a swapchain, what   *)
(* its surface supports, and the display feedback that is built on all of  *)
(* these (DisplayFeedback::create).                                        *)
(*                                                                         *)
(* The stages form one line: a later one relies on what earlier ones found *)
(* or enabled.  Extensions, features and structures are their names.  A    *)
(* pNext chain is a function from the structures in it to the feature bits *)
(* that are set; the loader's own structure is always in it, so the chain  *)
(* the code searches is never empty.                                       *)
(*                                                                         *)
(* Abstracted: failures of the driver that have nothing to do with what is *)
(* asked of it, the context maps (LayerContext) and the hotkey (Hotkey).   *)
(***************************************************************************)
EXTENDS Naturals, Sequences

CONSTANTS
  Driver,            \* the drivers there may be
  InstanceRequest,   \* what applications ask of vkCreateInstance,
  DeviceRequest,     \* and of vkCreateDevice
  Surface,           \* what a surface may support
  Domains,           \* the sets of time domains a swapchain may have
  None

PacingMode == {"Off", "Drain", "Deadline", "Auto"}

InstanceExtension == {"surface_capabilities2", "physical_device_properties2"}
calibrated_timestamps_extensions == <<"calibrated_timestamps_khr", "calibrated_timestamps_ext">>
required_extensions == {"synchronization2", "host_query_reset"}

\* The display features, each with the extension it belongs to.
DisplayExtensions ==
  [presentId2 |-> "present_id2", presentTiming |-> "present_timing",
   presentAtRelativeTime |-> "present_timing"]
DisplayFeature == DOMAIN DisplayExtensions
RequiredFeature == {"synchronization2", "hostQueryReset"}

\* Where a feature bit may be: the structure of a core version, or its own.
CoreStructure ==
  [synchronization2 |-> "vulkan13", hostQueryReset |-> "vulkan12",
   presentId2 |-> "present_id2", presentTiming |-> "present_timing",
   presentAtRelativeTime |-> "present_timing"]
OwnStructure ==
  [CoreStructure EXCEPT !.synchronization2 = "synchronization2",
                        !.hostQueryReset = "host_query_reset"]

STAGE_PREFERENCE == <<"first_pixel_visible", "first_pixel_out", "dequeued", "queue_end">>
DOMAIN_PREFERENCE == <<"monotonic", "device", "stage_local", "swapchain_local">>

Image(seq) == {seq[i] : i \in DOMAIN seq}

BitsOf(chain) == UNION {chain[s] : s \in DOMAIN chain}

\* The rules of Vulkan for a pair of structures that hold the same bit.
LegalChain(chain) ==
  \A f \in RequiredFeature :
    ~({CoreStructure[f], OwnStructure[f]} \subseteq DOMAIN chain)

(* Drivers and applications keep the rules of Vulkan: a driver supports    *)
(* the features its extensions promise and what its extensions depend on.  *)
ASSUME NegotiationAssumption ==
  /\ \A d \in Driver :
       /\ "synchronization2" \in d.extensions => "synchronization2" \in d.features
       /\ "host_query_reset" \in d.extensions => "hostQueryReset" \in d.features
       /\ "present_timing" \in d.extensions =>
            {"present_id2", "calibrated_timestamps_khr"} \subseteq d.extensions
  /\ \A r \in DeviceRequest :
       LegalChain(r.chain) /\ r.chain = [s \in DOMAIN r.chain |-> r.chain[s]]
  /\ \A x \in Image(calibrated_timestamps_extensions) \union Image(STAGE_PREFERENCE)
            \union Image(DOMAIN_PREFERENCE) : x # None

VARIABLES
  config,      \* mode and allow_present_timing
  driver,      \* the driver (external)
  instance,    \* what became of vkCreateInstance
  physical,    \* PhysicalDeviceContext
  device,      \* what became of vkCreateDevice, and DeviceContext
  swapchain    \* what became of vkCreateSwapchainKHR, and SwapchainPacer

vars == <<config, driver, instance, physical, device, swapchain>>

Init ==
  /\ config \in [mode : PacingMode, allow_present_timing : BOOLEAN]
  /\ driver \in Driver
  /\ instance = None
  /\ physical = None
  /\ device = None
  /\ swapchain = None

-----------------------------------------------------------------------------
(* vkCreateInstance. *)

Succeeds(instanceOrDevice) == instanceOrDevice # None /\ instanceOrDevice.success

\* What the layer would like and the application has not asked for.
extra_extensions(request) ==
  IF config.mode = "Off" THEN {} ELSE InstanceExtension \ request.extensions

\* If the driver does not know all extensions, it is asked again for those of
\* the application alone.
CreateInstance(request) ==
  LET extended == request.extensions \union extra_extensions(request)
      names == IF extended \subseteq driver.instance THEN extended
               ELSE request.extensions
  IN  /\ ~Succeeds(instance)
      /\ instance' = [request |-> request, extensions |-> names,
                      success |-> names \subseteq driver.instance]
      /\ UNCHANGED <<config, driver, physical, device, swapchain>>

-----------------------------------------------------------------------------
(* PhysicalDeviceContext. *)

\* The first of a list of preferences that is offered.
FirstOf(preference, offered) ==
  IF \E i \in DOMAIN preference : preference[i] \in offered
  THEN preference[CHOOSE i \in DOMAIN preference :
         /\ preference[i] \in offered
         /\ \A j \in DOMAIN preference : preference[j] \in offered => i <= j]
  ELSE None

pick_calibrated_timestamps ==
  FirstOf(calibrated_timestamps_extensions, driver.extensions)

has_required_extensions ==
  required_extensions \subseteq driver.extensions /\ pick_calibrated_timestamps # None

\* vkGetPhysicalDeviceFeatures2 is there since 1.1, its KHR alias where the
\* instance extension was enabled.
get_features2 ==
  instance.request.api >= 11 \/ "physical_device_properties2" \in instance.extensions

\* Wrong on purpose: what is found is an extension, not a feature.
find_by_extension ==
  {DisplayExtensions[f] : f \in {g \in DisplayFeature :
     /\ get_features2
     /\ DisplayExtensions[g] \in driver.extensions
     /\ g \in driver.features}}

\* A feature counts if its extension is there and the driver sets its bit.
find_display_extensions ==
  {f \in DisplayFeature :
     /\ get_features2
     /\ DisplayExtensions[f] \in driver.extensions
     /\ f \in driver.features}

EnumeratePhysicalDevices ==
  /\ Succeeds(instance)
  /\ physical = None
  /\ physical' = [supports_required_extensions |-> has_required_extensions,
                  calibrated_timestamps_extension |-> pick_calibrated_timestamps,
                  display_extensions |-> find_display_extensions]
  /\ UNCHANGED <<config, driver, instance, device, swapchain>>

-----------------------------------------------------------------------------
(* vkCreateDevice. *)

is_active == config.mode # "Off" /\ physical.supports_required_extensions

\* Timings need ids, ids are wanted for timings only, and the configuration
\* can veto them.
wanted_display_extensions ==
  IF /\ is_active
     /\ config.allow_present_timing
     /\ {"presentId2", "presentTiming"} \subseteq physical.display_extensions
  THEN physical.display_extensions
  ELSE {}

next_extensions(request) ==
  IF ~is_active THEN request.extensions
  ELSE request.extensions
         \union required_extensions \union {physical.calibrated_timestamps_extension}
         \union {DisplayExtensions[f] : f \in wanted_display_extensions}

\* Wrong on purpose: the structure of the core version is not looked for.
PlaceOwn(f, chain) == OwnStructure[f]

Place(f, chain) ==
  IF CoreStructure[f] \in DOMAIN chain THEN CoreStructure[f] ELSE OwnStructure[f]

\* The application's chain, with the bits the layer needs set where their
\* structures are found and in new structures otherwise.
next_chain(request) ==
  LET chain == request.chain
      added == IF is_active THEN RequiredFeature \union wanted_display_extensions
               ELSE {}
  IN  [s \in DOMAIN chain \union {Place(f, chain) : f \in added} |->
         (IF s \in DOMAIN chain THEN chain[s] ELSE {})
           \union {f \in added : Place(f, chain) = s}]

\* The driver (external) refuses what it does not support.
Accepts(extensions, chain) ==
  extensions \subseteq driver.extensions /\ BitsOf(chain) \subseteq driver.features

CreateDevice(request) ==
  /\ physical # None
  /\ ~Succeeds(device)
  /\ device' = [request |-> request,
                is_active |-> is_active,
                extensions |-> next_extensions(request),
                chain |-> next_chain(request),
                display_extensions |-> wanted_display_extensions,
                success |-> Accepts(next_extensions(request), next_chain(request))]
  /\ UNCHANGED <<config, driver, instance, physical, swapchain>>

-----------------------------------------------------------------------------
(* vkCreateSwapchainKHR, with the SwapchainPacer that is made for it. *)

\* SurfaceFeedbackSupport::query: only features that were enabled are asked
\* about.  Without the instance extension, or if the driver fails, there is
\* no support.
query(surface, answers) ==
  IF answers /\ "surface_capabilities2" \in instance.extensions
  THEN [supported |-> surface.supported \intersect device.display_extensions,
        stages |-> IF "presentTiming" \in device.display_extensions
                   THEN surface.stages ELSE {}]
  ELSE [supported |-> {}, stages |-> {}]

\* The extension's functions are there if it was enabled.
EntryPoints == "present_timing" \in device.extensions

\* Wrong on purpose: the relative scheduling feature is not asked for.
createFeedbackAbsolute(support, domains) ==
  LET stage == FirstOf(STAGE_PREFERENCE, support.stages)
      domain == FirstOf(DOMAIN_PREFERENCE, domains)
  IN  IF /\ "presentTiming" \in support.supported
         /\ EntryPoints
         /\ stage # None
         /\ domain # None
      THEN [stage |-> stage, time_domain |-> domain]
      ELSE None

\* DisplayFeedback::create.  `domains' is what both calls for the swapchain's
\* time domains agree on, and nothing if one fails.
createFeedback(support, domains) ==
  LET stage == FirstOf(STAGE_PREFERENCE, support.stages)
      domain == FirstOf(DOMAIN_PREFERENCE, domains)
  IN  IF /\ "presentTiming" \in support.supported
         /\ EntryPoints
         /\ "presentAtRelativeTime" \in device.display_extensions
         /\ stage # None
         /\ domain # None
      THEN [stage |-> stage, time_domain |-> domain]
      ELSE None

CreateSwapchain(surface, domains, refreshGated, answers) ==
  LET support == query(surface, answers)
      timed == /\ device.is_active
               /\ refreshGated
               /\ config.mode \notin {"Off", "Drain"}
  IN  /\ Succeeds(device)
      /\ "swapchain" \in device.request.extensions
      /\ swapchain = None
      /\ swapchain' =
           [surface |-> surface,
            domains |-> domains,
            presentTimingFlag |-> /\ config.allow_present_timing
                                  /\ "presentTiming" \in device.display_extensions,
            feedback |-> IF timed THEN createFeedback(support, domains) ELSE None]
      /\ UNCHANGED <<config, driver, instance, physical, device>>

\* The swapchain is recreated, perhaps for another surface.
DestroySwapchain ==
  /\ swapchain # None
  /\ swapchain' = None
  /\ UNCHANGED <<config, driver, instance, physical, device>>

\* SwapchainPacer::wants_present_id: presents are labelled by the layer.
wants_present_id == swapchain.feedback # None

-----------------------------------------------------------------------------
Next ==
  \/ \E r \in InstanceRequest : CreateInstance(r)
  \/ EnumeratePhysicalDevices
  \/ \E r \in DeviceRequest : CreateDevice(r)
  \/ \E s \in Surface, d \in Domains, gated, answers \in BOOLEAN :
       CreateSwapchain(s, d, gated, answers)
  \/ DestroySwapchain

Spec == Init /\ [][Next]_vars

-----------------------------------------------------------------------------
(* Properties. *)

TypeOK ==
  /\ config \in [mode : PacingMode, allow_present_timing : BOOLEAN]
  /\ instance # None =>
       instance.request \in InstanceRequest /\ instance.success \in BOOLEAN
  /\ physical # None =>
       /\ physical.supports_required_extensions \in BOOLEAN
       /\ physical.calibrated_timestamps_extension
            \in Image(calibrated_timestamps_extensions) \union {None}
       /\ physical.display_extensions \subseteq DisplayFeature
  /\ device # None =>
       /\ device.request \in DeviceRequest
       /\ device.is_active \in BOOLEAN /\ device.success \in BOOLEAN
       /\ device.display_extensions \subseteq DisplayFeature
  /\ swapchain # None =>
       swapchain.surface \in Surface /\ swapchain.domains \in Domains

\* The driver accepts what it would have accepted of the application.
SuccessIsTheDrivers ==
  /\ instance # None =>
       (instance.success <=> instance.request.extensions \subseteq driver.instance)
  /\ device # None =>
       (device.success <=> Accepts(device.request.extensions, device.request.chain))

\* What the application asked for is in what the driver is asked for.
RequestIsKept ==
  device # None =>
    /\ device.request.extensions \subseteq device.extensions
    /\ \A s \in DOMAIN device.request.chain :
         s \in DOMAIN device.chain /\ device.request.chain[s] \subseteq device.chain[s]
    /\ LegalChain(device.chain)
    /\ ~device.is_active =>
         device.extensions = device.request.extensions /\ device.chain = device.request.chain

\* What the layer adds never makes a creation fail, nor lets one succeed: an
\* instance or a device is created exactly if the driver would have created
\* what the application asked for.  And it is created with all of that, in a
\* chain that is still legal, and with nothing else where the layer does not act.
CreationIsTransparent == SuccessIsTheDrivers /\ RequestIsKept

\* Feedback is there only where every stage before it has enabled or found
\* what it will use: the extension with those it depends on, the feature bits,
\* the flag, and a stage and domain that the surface and the swapchain have.
FeedbackIsUsable ==
  (swapchain # None /\ swapchain.feedback # None) =>
    /\ {"present_timing", "present_id2", "calibrated_timestamps_khr"}
         \subseteq device.extensions \intersect driver.extensions
    /\ DisplayFeature \subseteq BitsOf(device.chain) \intersect driver.features
    /\ "surface_capabilities2" \in instance.extensions
    /\ "presentTiming" \in swapchain.surface.supported
    /\ swapchain.presentTimingFlag
    /\ swapchain.feedback.stage \in swapchain.surface.stages
    /\ swapchain.feedback.time_domain \in swapchain.domains

\* display_feedback.hh:38-40: present_id2 and present_timing are surface
\* capabilities, "and using them on a surface that does not advertise them is
\* invalid regardless of what the physical device says".
UsesOnlyWhatSurfaceAdvertises ==
  swapchain # None =>
    /\ swapchain.presentTimingFlag => "presentTiming" \in swapchain.surface.supported
    /\ wants_present_id => "presentId2" \in swapchain.surface.supported
=============================================================================
