------------------------------ MODULE MCAlerts ------------------------------
EXTENDS Alerts, TLC

(* A unit is not expected any more when it is disabled; a device is silent *)
(* at most.                                                                *)
ProbeReports ==
  [k \in Plain |->
     CASE k = "unit"   -> {"ok", "warn", Absent}
       [] k = "device" -> {"ok", "info", Absent}]

Symmetry == Permutations(Runners)
=============================================================================
