---------------------------- MODULE MCInstaller ----------------------------
EXTENDS Installer, StepTable

(* An account half made, and the unit the proof depends on.                *)
TwoRows == <<OwnerAccount, Runtime>>

(* All of them; only the alerts are ever declined.                         *)
AllRows == [m \in DOMAIN LinuxSteps |->
              [LinuxSteps[m] EXCEPT !.declines = LinuxSteps[m].id = "alerts"]]

(* The table is as the proofs take it to be.                               *)
ASSUME WellMade /\ WellOrdered
=============================================================================
