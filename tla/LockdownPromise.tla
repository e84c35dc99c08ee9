-------------------------- MODULE LockdownPromise ---------------------------
(***************************************************************************)
(* What closing public access promises the owner (docs/SECURITY.md:8 and   *)
(* the head of pskit/lockdown.py), without files, timers or processes: a   *)
(* trial that is kept only by way of a confirmation, and that otherwise    *)
(* ends by itself with the previous access back.                           *)
(***************************************************************************)
VARIABLE phase  \* "open" (as before), "trial", "confirmed" or "kept"

Init == phase = "open"

(* The new settings take effect; the owner is now on trial. *)
Close == phase = "open" /\ phase' = "trial"

(* The owner proves that the way in over the tailnet works. *)
Confirm == phase = "trial" /\ phase' = "confirmed"

(* Only a confirmed lockdown is recorded as kept. *)
Keep == phase = "confirmed" /\ phase' = "kept"

(***************************************************************************)
(* The previous access is back.  From "trial" this is the promised undo;   *)
(* from "confirmed" and "kept" it is an undo that had already begun when   *)
(* the confirmation arrived (revert_if_due looks for it only once), or a   *)
(* later attempt that takes the settings it finds as its own "before".     *)
(***************************************************************************)
Undo == phase # "open" /\ phase' = "open"

Next == Close \/ Confirm \/ Keep \/ Undo

(* A trial does not last; a confirmation may stay unrecorded. *)
TrialEnds == phase = "trial" /\ (Confirm \/ Undo)

Spec == Init /\ [][Next]_phase /\ WF_phase(TrialEnds)

=============================================================================
