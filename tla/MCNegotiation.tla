---------------------------- MODULE MCNegotiation ----------------------------
(* Instances of Negotiation for TLC. *)
EXTENDS Negotiation

Calibrated == {{}, {"calibrated_timestamps_khr"}, {"calibrated_timestamps_ext"},
               Image(calibrated_timestamps_extensions)}
Display == {{}, {"present_id2"}, {"present_id2", "present_timing"}}

\* What a driver's extensions promise.
Promised(extensions) ==
  (IF "synchronization2" \in extensions THEN {"synchronization2"} ELSE {})
    \union (IF "host_query_reset" \in extensions THEN {"hostQueryReset"} ELSE {})

\* Drivers with and without each extension the layer asks about, as far as the
\* extensions' dependencies allow it, and with any of the display features.
MCDriver ==
  {[instance |-> i, extensions |-> e, features |-> Promised(e) \union f] :
     i \in SUBSET InstanceExtension, f \in SUBSET DisplayFeature,
     e \in {{"swapchain"} \union r \union c \union d :
              r \in {{"synchronization2"}, required_extensions},
              c \in Calibrated, d \in Display}}
MCConforming ==
  {d \in MCDriver :
     /\ "present_timing" \in d.extensions => "calibrated_timestamps_khr" \in d.extensions
     /\ \A f \in DisplayFeature \intersect d.features :
          DisplayExtensions[f] \in d.extensions}

MCInstanceRequest ==
  {[api |-> a, extensions |-> e] :
     a \in {10, 13}, e \in {{}, {"physical_device_properties2"}, InstanceExtension}}

\* No chain, the core structures, and the bits' own structures, set or not.
MCChain ==
  {[s \in {} |-> {}],
   [s \in {"vulkan12", "vulkan13"} |-> {}],
   [synchronization2 |-> {"synchronization2"}, present_timing |-> {}],
   [host_query_reset |-> {}, present_id2 |-> {"presentId2"}]}
MCDeviceRequest ==
  {[extensions |-> {"swapchain"} \union e, chain |-> c] :
     e \in {{}, {"synchronization2", "present_id2"}}, c \in MCChain}

MCSurface ==
  {[supported |-> s, stages |-> t] :
     s \in {{}, {"presentTiming"}, {"presentId2", "presentTiming"}},
     t \in {{}, {"queue_end", "first_pixel_out"}}}
MCDomains == {{}, {"swapchain_local", "device"}}
=============================================================================
