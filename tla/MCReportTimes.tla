---------------------------- MODULE MCReportTimes ----------------------------
(* Instances of ReportTimes for TLC. *)
EXTENDS ReportTimes

MCInstant == {0, 3, 7, 10, 12, 16}

MCLocalClock == {"present_stage_local", "swapchain_local"}

\* A clock that is five ahead and gains one in three now and then, and one that
\* is nine ahead and loses.
MCLocalTime ==
  [present_stage_local |->
     [t \in MCInstant |-> t + IF t < 10 THEN 5 ELSE IF t < 16 THEN 6 ELSE 7],
   swapchain_local |->
     [t \in MCInstant |-> t + IF t < 10 THEN 9 ELSE 8]]
=============================================================================
