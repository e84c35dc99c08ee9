---------------------------- MODULE MCBrainSlot ----------------------------
EXTENDS BrainSlot

AB == {"a", "b"}

Ships(id, a, b, peak) == [id |-> id, kind |-> [s \in AB |-> IF s = "a" THEN a ELSE b], peak |-> peak]

(* Kinds that change, services that come and go, a peak that does not fit. *)
Shipped ==
  {Ships("first", "resident", "scheduled", 0), Ships("second", "resident", "absent", 1100),
   Ships("third", "absent", "resident", 20000), Ships("fourth", "scheduled", "scheduled", 700)}

(* The example of the module's own documentation: 32 GiB with CI.          *)
ASSUME LET b == Compute(32768, 0, TRUE)
       IN /\ <<b.brain_low, b.brain_high, b.brain>> = <<4096, 8192, 10240>>
          /\ <<b.user_high, b.user>> = <<12544, 14592>>
          /\ <<b.ci_high, b.ci, b.system_low>> = <<3072, 4096, 2048>>
          /\ 32768 - Ceilings(b) = 3840
=============================================================================
