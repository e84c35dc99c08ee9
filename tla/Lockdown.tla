------------------------------ MODULE Lockdown ------------------------------
(***************************************************************************)
(* Closing public access with confirm-or-revert (pskit/lockdown.py, run by *)
(* the installer's Lockdown step in pskit/linux/steps_net.py).             *)
(*                                                                         *)
(* Three parties share the files under /var/lib/pskit/lockdown:            *)
(*   - the installer, which snapshots, arms the undo timer, closes access, *)
(*     polls for the confirmation, and undoes the change if none arrives;  *)
(*   - the oneshot service the systemd timer starts, which runs the same   *)
(*     revert_if_due;                                                      *)
(*   - the owner's SSH sessions that run `pskit confirm-lockdown`.         *)
(* No lock orders them: every label below is a point where another party,  *)
(* a kill of the installer or a reboot may intervene.                      *)
(*                                                                         *)
(* An operator nothing else uses (TimerLeftAsItWas, SshdNotReloaded...) is *)
(* a fault a property must detect in the definition after it.              *)
(***************************************************************************)
EXTENDS Naturals

CONSTANTS
  MaxNonce,    \* bound on the nonces ever issued (1 is an earlier lockdown's)
  MaxReboots,  \* bound on reboots
  Faults       \* the adverse conditions a run admits, see AllFaults

(***************************************************************************)
(* What the code does not guard against.  The promises below are made for  *)
(* as long as none of it has happened:                                     *)
(*   restore_raises  restore_snapshot raises (disk full, a second Ctrl-C)  *)
(*   commands_fail   a command fails whose status the code does not look   *)
(*                   at: ufw in a restore, the reload of sshd (both ways), *)
(*                   the restart of a timer that has elapsed               *)
(*   overlap         the timer's service runs while the installer is       *)
(*                   inside apply(): apply() outlasts the ten minutes, or  *)
(*                   a killed run's timer is still counting, or the next   *)
(*                   run starts before the service has finished            *)
(***************************************************************************)
AllFaults == {"restore_raises", "commands_fail", "overlap"}

ASSUME ConstantsAssumption ==
  /\ MaxNonce \in Nat \ {0}
  /\ MaxReboots \in Nat
  /\ Faults \subseteq AllFaults

VARIABLES
  pending,    \* pending.json: "none", "armed" (applied: false) or "applied"
  nonce,      \* the nonce of the last pending.json written
  confirmed,  \* the nonces n with a file confirmed-<n>
  applied,    \* the nonce in applied.json, 0 when there is no file
  reverted,   \* the nonce in reverted.json, 0 when there is no file
  snap,       \* the snapshot directory
  dropin,     \* the sshd drop-in on disk
  sshd,       \* the configuration the running sshd obeys
  fw,         \* ufw: "prior" rules, "reset" (disabled) or "closed"
  timer,      \* pskit-lockdown-revert.timer: "off", "counting", "elapsed"
  pc,         \* where the installer and the timer's service are
  seen,       \* per process: the nonce of the pending record it has read
  caller,     \* per process: who called finalize or restore_snapshot
  logins,     \* nonces of sessions past confirm()'s checks, not yet written
  report,     \* what the installer last told the owner
  before,     \* history: access settings when the attempt began
  proved,     \* history: nonces somebody logged in for on a closed machine
  reboots,    \* reboots so far
  faulted,    \* history: one of Faults has happened
  missed      \* history: a reload of sshd failed unseen in this attempt

files  == <<pending, nonce, confirmed, applied, reverted, snap>>
access == <<dropin, sshd, fw>>
faults == <<faulted, missed>>
aux    == <<logins, before, proved, reboots, faults>>
vars   == <<files, access, timer, pc, seen, caller, report, aux>>

Procs == {"installer", "service"}

Applying  == {"arm", "enable", "dropin", "firewall", "reload", "mark"}
Restoring == {"rs_files", "rs_firewall", "rs_sshd"}
Reverting == {"rv_read", "rv_decide", "rv_remove", "rv_record", "rv_disarm"}
Finalizing == {"fz_check", "fz_disarm", "fz_apply", "fz_clear", "fz_unmark"}
Aborting  == {"ab_disarm", "ab_remove"}

Labels == {"idle", "wait", "verify"} \cup Applying \cup Restoring
            \cup Reverting \cup Finalizing \cup Aborting

ConfSettings == {"prior", "hard"}
FwSettings   == {"prior", "reset", "closed"}

TypeOK ==
  /\ pending \in {"none", "armed", "applied"}
  /\ nonce \in Nat /\ applied \in Nat /\ reverted \in Nat /\ reboots \in Nat
  /\ confirmed \subseteq Nat /\ logins \subseteq Nat /\ proved \subseteq Nat
  /\ snap \in [dropin : ConfSettings, fw : FwSettings]
  /\ before \in [dropin : ConfSettings, sshd : ConfSettings, fw : FwSettings]
  /\ dropin \in ConfSettings /\ sshd \in ConfSettings /\ fw \in FwSettings
  /\ timer \in {"off", "counting", "elapsed"}
  /\ pc \in [Procs -> Labels]
  /\ seen \in [Procs -> Nat]
  /\ caller \in [Procs -> {"wait", "revert", "abort"}]
  /\ report \in {"none", "done", "apply_failed", "not_confirmed",
                 "not_effective"}
  /\ faulted \in BOOLEAN /\ missed \in BOOLEAN

(* Public SSH is closed: keys only for the owner, and only the tailnet in. *)
Closed == fw = "closed" /\ sshd = "hard" /\ dropin = "hard"

(* Nothing differs from the settings the attempt began with; an sshd that  *)
(* had not reread its file by then may have done so since.                 *)
AsBefore ==
  /\ dropin = before.dropin /\ fw = before.fw
  /\ sshd \in {before.sshd, before.dropin}

Goto(p, l)  == pc' = [pc EXCEPT ![p] = l]
Move(p, from, to) == pc[p] = from /\ Goto(p, to)

(* The process returns; only the installer reports to the owner. *)
Finish(p, r) ==
  /\ Goto(p, "idle")
  /\ seen' = [seen EXCEPT ![p] = 0]
  /\ caller' = [caller EXCEPT ![p] = "revert"]
  /\ report' = IF p = "installer" THEN r ELSE report

(***************************************************************************)
(* A machine nobody locked down yet, or one whose earlier lockdown (nonce  *)
(* 1) is recorded while its owner has since disabled the firewall and      *)
(* perhaps removed the drop-in: the Lockdown step's check fails on both.   *)
(***************************************************************************)
Init ==
  /\ pending = "none" /\ nonce = 1 /\ confirmed = {} /\ reverted = 0
  /\ applied \in {0, 1}
  /\ dropin \in (IF applied = 0 THEN {"prior"} ELSE ConfSettings)
  /\ sshd = dropin /\ fw = "prior"
  /\ snap = [dropin |-> dropin, fw |-> fw]
  /\ before = [dropin |-> dropin, sshd |-> sshd, fw |-> fw]
  /\ timer = "off"
  /\ pc = [p \in Procs |-> "idle"]
  /\ seen = [p \in Procs |-> 0]
  /\ caller = [p \in Procs |-> "revert"]
  /\ logins = {} /\ proved = {} /\ report = "none" /\ reboots = 0
  /\ faulted = FALSE /\ missed = FALSE

(* It happens, where the run admits it. *)
Fault(kind) == kind \in Faults /\ faulted' = TRUE

-----------------------------------------------------------------------------
(* The installer *)

(* Lockdown.check: recorded, and `sshd -T` and `ufw status` agree. *)
StepCheck == applied # 0 /\ dropin = "hard" /\ fw = "closed"

(***************************************************************************)
(* Engine.run reaches the step: already in state, resume the wait for a    *)
(* pending lockdown, or begin a new one.                                   *)
(***************************************************************************)
Start ==
  /\ pc["installer"] = "idle"
  /\ \/ StepCheck /\ Finish("installer", "done") /\ UNCHANGED <<before, faulted>>
     \/ /\ ~StepCheck /\ pending # "none"
        /\ Goto("installer", "wait") /\ report' = "none"
        /\ UNCHANGED <<seen, caller, before, faulted>>
     \/ /\ ~StepCheck /\ pending = "none" /\ nonce < MaxNonce
        /\ IF pc["service"] = "idle" THEN UNCHANGED faulted ELSE Fault("overlap")
        /\ Goto("installer", "arm") /\ report' = "none"
        /\ before' = [dropin |-> dropin, sshd |-> sshd, fw |-> fw]
        /\ UNCHANGED <<seen, caller>>
  /\ UNCHANGED <<files, access, timer, logins, proved, reboots, missed>>

(* What snapshot copies aside. *)
TakeSnapshot == [dropin |-> dropin, fw |-> fw]

(* snapshot, then _arm's pending.json: a fresh nonce, applied: false. *)
Arm ==
  /\ Move("installer", "arm", "enable")
  /\ snap' = TakeSnapshot
  /\ pending' = "armed" /\ nonce' = nonce + 1
  /\ missed' = FALSE
  /\ UNCHANGED <<confirmed, applied, reverted, access, timer, seen, caller,
                 report, logins, before, proved, reboots, faulted>>

(***************************************************************************)
(* The rest of _arm: install, enable and restart the timer.  An `enable`   *)
(* that fails, with or without effect, ends in _abort; that the restart of *)
(* a timer fails goes unseen, which matters for one that has elapsed.      *)
(***************************************************************************)
TimerLeftAsItWas == timer
TimerRestarted == "counting"

EnableTimer ==
  /\ \/ /\ Move("installer", "enable", "dropin") /\ UNCHANGED caller
        /\ \/ timer' = TimerRestarted /\ UNCHANGED faulted
           \/ timer = "elapsed" /\ UNCHANGED timer /\ Fault("commands_fail")
     \/ /\ Move("installer", "enable", "ab_disarm")
        /\ timer' \in {timer, "counting"}
        /\ caller' = [caller EXCEPT !["installer"] = "abort"]
        /\ UNCHANGED faulted
  /\ UNCHANGED <<files, access, seen, report, logins, before, proved, reboots,
                 missed>>

(* _disarm: whether `systemctl disable --now` works is not looked at. *)
Disarm == timer' \in {"off", timer}

(***************************************************************************)
(* One step of _apply_changes: it goes on, or an exception (a rejected     *)
(* configuration, a failed or timed-out command, a Ctrl-C) makes apply()   *)
(* restore the snapshot.                                                   *)
(***************************************************************************)
NothingToUndo == "ab_disarm"
OnException == "rs_files"

Change(from, to) ==
  \/ Move("installer", from, to) /\ UNCHANGED caller
  \/ Move("installer", from, OnException)
     /\ caller' = [caller EXCEPT !["installer"] = "abort"]

InstallDropin ==
  /\ Change("dropin", "firewall")
  /\ dropin' = "hard"
  /\ UNCHANGED <<files, sshd, fw, timer, seen, report, aux>>

(* From `ufw --force reset` to `ufw --force enable`. *)
CloseFirewall ==
  /\ Change("firewall", "reload")
  /\ fw' \in IF pc'["installer"] = "reload" THEN {"closed"}
             ELSE {fw, "reset", "closed"}
  /\ UNCHANGED <<files, dropin, sshd, timer, seen, report, aux>>

SshdNotReloaded == sshd
SshdReloaded == dropin

(***************************************************************************)
(* reload_sshd: neither the status of `systemctl reload` nor a time out is *)
(* looked at, and no reload is tried if is-active fails, so sshd may go on *)
(* with what it had read before.                                           *)
(***************************************************************************)
Reload ==
  \/ sshd' = SshdReloaded /\ UNCHANGED faults
  \/ /\ sshd # dropin /\ UNCHANGED sshd
     /\ Fault("commands_fail") /\ missed' = TRUE

(* Interrupted, it may or may not have come to the reload. *)
ReloadSshd ==
  /\ Change("reload", "mark")
  /\ \/ pc'["installer"] = "mark" /\ Reload
     \/ /\ pc'["installer"] = OnException
        /\ sshd' \in {sshd, dropin} /\ UNCHANGED faults
  /\ UNCHANGED <<files, dropin, fw, timer, seen, report, logins, before, proved,
                 reboots>>

(* Only now may a login confirm it: pending.json says applied: true. *)
MarkApplied ==
  /\ Move("installer", "mark", "wait")
  /\ pending' = "applied"
  /\ UNCHANGED <<nonce, confirmed, applied, reverted, snap, access, timer,
                 seen, caller, report, aux>>

AbortDisarm ==
  /\ Move("installer", "ab_disarm", "ab_remove")
  /\ Disarm
  /\ UNCHANGED <<files, access, seen, caller, report, aux>>

AbortRemove ==
  /\ pc["installer"] = "ab_remove"
  /\ Finish("installer", "apply_failed")
  /\ pending' = "none"
  /\ UNCHANGED <<nonce, confirmed, applied, reverted, snap, access, timer, aux>>

(***************************************************************************)
(* wait_for_confirmation, one poll: the record is gone (somebody settled   *)
(* it), it is confirmed, or the 580 seconds are over - before a poll could *)
(* see either, perhaps - and the installer undoes the change itself.       *)
(***************************************************************************)
Poll ==
  /\ pc["installer"] = "wait"
  /\ \/ /\ pending = "none" /\ applied # 0
        /\ Goto("installer", "verify") /\ UNCHANGED caller
     \/ /\ pending # "none" /\ nonce \in confirmed
        /\ Goto("installer", "fz_check")
        /\ caller' = [caller EXCEPT !["installer"] = "wait"]
     \/ /\ Goto("installer", "rv_read")
        /\ caller' = [caller EXCEPT !["installer"] = "revert"]
  /\ UNCHANGED <<files, access, timer, seen, report, aux>>

Verify ==
  /\ pc["installer"] = "verify"
  /\ Finish("installer", IF StepCheck THEN "done" ELSE "not_effective")
  /\ UNCHANGED <<files, access, timer, aux>>

(* Its terminal goes away, or a Ctrl-C outside _apply_changes ends it. *)
Killed ==
  /\ pc["installer"] # "idle"
  /\ Finish("installer", "none")
  /\ UNCHANGED <<files, access, timer, aux>>

-----------------------------------------------------------------------------
(* revert_if_due, finalize and restore_snapshot, run by either process *)

RevertRead(p) ==
  /\ pc[p] = "rv_read"
  /\ Goto(p, IF pending = "none" THEN "rv_disarm" ELSE "rv_decide")
  /\ seen' = [seen EXCEPT ![p] = nonce]
  /\ UNCHANGED <<files, access, timer, caller, report, aux>>

RevertDecide(p) ==
  /\ Move(p, "rv_decide", IF seen[p] \in confirmed THEN "fz_check" ELSE "rs_files")
  /\ UNCHANGED <<files, access, timer, seen, caller, report, aux>>

RestoreFiles(p) ==
  /\ Move(p, "rs_files", "rs_firewall")
  /\ dropin' = snap.dropin
  /\ UNCHANGED <<files, sshd, fw, timer, seen, caller, report, aux>>

(* `ufw reload` or `ufw disable`: its exit status is not looked at. *)
RestoreFirewall(p) ==
  /\ Move(p, "rs_firewall", "rs_sshd")
  /\ \/ fw' = snap.fw /\ UNCHANGED faulted
     \/ fw' = fw /\ Fault("commands_fail")
  /\ UNCHANGED <<files, dropin, sshd, timer, seen, caller, report, logins,
                 before, proved, reboots, missed>>

RestoreSshd(p) ==
  /\ Move(p, "rs_sshd", IF caller[p] = "abort" THEN "ab_disarm" ELSE "rv_remove")
  /\ Reload
  /\ UNCHANGED <<files, dropin, fw, timer, seen, caller, report, logins, before,
                 proved, reboots>>

(* apply()'s `finally: _abort` runs anyway; revert_if_due just fails. *)
RestoreRaises(p) ==
  /\ Fault("restore_raises")
  /\ pc[p] \in Restoring
  /\ IF caller[p] = "abort"
     THEN Goto(p, "ab_disarm") /\ UNCHANGED <<seen, caller, report>>
     ELSE Finish(p, "none")
  /\ UNCHANGED <<files, access, timer, logins, before, proved, reboots, missed>>

RevertRemove(p) ==
  /\ Move(p, "rv_remove", "rv_record")
  /\ pending' = "none"
  /\ UNCHANGED <<nonce, confirmed, applied, reverted, snap, access, timer,
                 seen, caller, report, aux>>

RevertRecord(p) ==
  /\ Move(p, "rv_record", "rv_disarm")
  /\ reverted' = seen[p]
  /\ UNCHANGED <<pending, nonce, confirmed, applied, snap, access, timer,
                 seen, caller, report, aux>>

RevertDisarm(p) ==
  /\ pc[p] = "rv_disarm"
  /\ Disarm
  /\ Finish(p, "not_confirmed")
  /\ UNCHANGED <<files, access, aux>>

(* What finalize's caller does with its result. *)
Return(p, ok) ==
  IF caller[p] = "wait"
  THEN /\ Goto(p, IF ok THEN "verify" ELSE "rv_read")
       /\ caller' = [caller EXCEPT ![p] = "revert"]
       /\ UNCHANGED <<seen, report>>
  ELSE Finish(p, "not_confirmed")

(* finalize reads the record again; somebody else may have settled it. *)
FinalizeDue == pending # "none" /\ nonce \in confirmed

FinalizeCheck(p) ==
  /\ pc[p] = "fz_check"
  /\ IF FinalizeDue
     THEN /\ Goto(p, "fz_disarm") /\ seen' = [seen EXCEPT ![p] = nonce]
          /\ UNCHANGED <<caller, report>>
     ELSE Return(p, FALSE)
  /\ UNCHANGED <<files, access, timer, aux>>

FinalizeDisarm(p) ==
  /\ Move(p, "fz_disarm", "fz_apply")
  /\ Disarm
  /\ UNCHANGED <<files, access, seen, caller, report, aux>>

FinalizeApply(p) ==
  /\ Move(p, "fz_apply", "fz_clear")
  /\ applied' = seen[p]
  /\ UNCHANGED <<pending, nonce, confirmed, reverted, snap, access, timer,
                 seen, caller, report, aux>>

FinalizeClear(p) ==
  /\ Move(p, "fz_clear", "fz_unmark")
  /\ pending' = "none"
  /\ UNCHANGED <<nonce, confirmed, applied, reverted, snap, access, timer,
                 seen, caller, report, aux>>

FinalizeUnmark(p) ==
  /\ pc[p] = "fz_unmark"
  /\ confirmed' = confirmed \ {seen[p]}
  /\ Return(p, TRUE)
  /\ UNCHANGED <<pending, nonce, applied, reverted, snap, access, timer, aux>>

-----------------------------------------------------------------------------
(* The timer, the laptop and the machine *)

(* OnActiveSec elapses and systemd starts the oneshot service. *)
TimerFires ==
  /\ timer = "counting" /\ pc["service"] = "idle"
  /\ IF pc["installer"] \notin Applying THEN UNCHANGED faulted ELSE Fault("overlap")
  /\ timer' = "elapsed"
  /\ Goto("service", "rv_read")
  /\ caller' = [caller EXCEPT !["service"] = "revert"]
  /\ UNCHANGED <<files, access, seen, report, logins, before, proved, reboots,
                 missed>>

(***************************************************************************)
(* confirm() up to its last line: only an applied lockdown, and only a     *)
(* connection from the tailnet (a session opened earlier from a public     *)
(* address is refused).                                                    *)
(***************************************************************************)
ReadyWhenArmed == pending # "none"
ReadyToConfirm == pending = "applied"

ConfirmCheck(origin) ==
  /\ ReadyToConfirm
  /\ origin = "tailnet"
  /\ logins' = logins \cup {nonce}
  /\ proved' = IF Closed /\ origin = "tailnet" THEN proved \cup {nonce} ELSE proved
  /\ UNCHANGED <<files, access, timer, pc, seen, caller, report, before, reboots,
                 faults>>

(* Its last line, on what the check saw. *)
ConfirmWrite ==
  /\ \E n \in logins :
        confirmed' = confirmed \cup {n} /\ logins' = logins \ {n}
  /\ UNCHANGED <<pending, nonce, applied, reverted, snap, access, timer, pc,
                 seen, caller, report, before, proved, reboots, faults>>

(* Processes and sessions die, sshd rereads its files, an enabled timer    *)
(* starts counting from the beginning.                                     *)
TimerNotEnabled == "off"
TimerAfterBoot == IF timer = "off" THEN "off" ELSE "counting"

Reboot ==
  /\ reboots < MaxReboots
  /\ reboots' = reboots + 1
  /\ pc' = [p \in Procs |-> "idle"]
  /\ seen' = [p \in Procs |-> 0] /\ caller' = [p \in Procs |-> "revert"]
  /\ sshd' = dropin
  /\ timer' = TimerAfterBoot
  /\ logins' = {} /\ report' = "none"
  /\ UNCHANGED <<files, dropin, fw, before, proved, faults>>

-----------------------------------------------------------------------------
InstallerApplies ==
  \/ Arm \/ EnableTimer \/ InstallDropin \/ CloseFirewall
  \/ ReloadSshd \/ MarkApplied
  \/ AbortDisarm \/ AbortRemove

Settle(p) ==
  \/ RevertRead(p) \/ RevertDecide(p) \/ RevertRemove(p) \/ RevertRecord(p)
  \/ RevertDisarm(p)
  \/ RestoreFiles(p) \/ RestoreFirewall(p) \/ RestoreSshd(p)
  \/ FinalizeCheck(p) \/ FinalizeDisarm(p)
  \/ FinalizeApply(p) \/ FinalizeClear(p) \/ FinalizeUnmark(p)

Next ==
  \/ Start \/ InstallerApplies \/ Poll \/ Verify \/ Killed
  \/ \E p \in Procs : Settle(p) \/ RestoreRaises(p)
  \/ TimerFires
  \/ \E origin \in {"tailnet", "public"} : ConfirmCheck(origin)
  \/ ConfirmWrite
  \/ Reboot

Spec == Init /\ [][Next]_vars

(***************************************************************************)
(* The timer elapses and its service runs to the end (systemd and the      *)
(* kernel schedule them); so does an installer inside apply(), whose       *)
(* commands all have timeouts.  Nobody has to confirm, to run the          *)
(* installer again or to leave it alive.                                   *)
(***************************************************************************)
Fairness ==
  /\ WF_vars(TimerFires)
  /\ WF_vars(Settle("service"))
  /\ WF_vars(InstallerApplies \/ Settle("installer"))

FairSpec == Spec /\ Fairness

-----------------------------------------------------------------------------
(* Properties *)

(* The attempt is on record as kept, or its confirmation is. *)
KeptOrConfirmed == applied = nonce \/ nonce \in confirmed

(* A timer is counting, or has started a service that has yet to act. *)
NetHolds == pending # "none" /\ (timer = "counting" \/ pc["service"] # "idle")

(***************************************************************************)
(* apply's docstring: "the machine is never left closed without its safety *)
(* net".  While any setting differs from those the attempt began with, it  *)
(* is kept, or confirmed, or the undo is armed: whoever was killed, and    *)
(* wherever a reboot fell.                                                 *)
(***************************************************************************)
SafetyNet == faulted \/ AsBefore \/ KeptOrConfirmed \/ NetHolds

(***************************************************************************)
(* A lockdown on record that does close the machine was proved: somebody   *)
(* passed confirm's checks from the tailnet while every change was in      *)
(* place, not while apply() was still at it.  It holds whatever else went  *)
(* wrong, unless a reload of sshd failed unseen in this attempt: then the  *)
(* login proves the firewall and the old sshd, and the reboot or the next  *)
(* reload closes more than that.                                           *)
(***************************************************************************)
KeptIsProved ==
  applied = nonce /\ nonce > 1 /\ Closed => nonce \in proved \/ missed

(***************************************************************************)
(* When the undo of the last attempt is on record, every setting is as it  *)
(* was: "everything is put back exactly as it was" - the running sshd too, *)
(* as long as no unseen failure kept it from reading its file again.       *)
(***************************************************************************)
RevertedIsBefore == reverted = nonce => AsBefore \/ faulted

(***************************************************************************)
(* What the installer says of a failed apply(): "Could not close public    *)
(* access: ... Nothing was changed."                                       *)
(***************************************************************************)
FailedApplyChangedNothing == report = "apply_failed" => AsBefore \/ faulted

(***************************************************************************)
(* Settings nobody confirms do not last: the timer, or its countdown after *)
(* a reboot, puts them back even if no one touches the machine again.      *)
(***************************************************************************)
Resolves == ~AsBefore ~> (AsBefore \/ KeptOrConfirmed \/ faulted)

(***************************************************************************)
(* The files, settings and processes above implement what the step         *)
(* promises its owner (LockdownPromise), until something goes wrong that   *)
(* the code does not guard against.                                        *)
(***************************************************************************)
phaseBar ==
  IF AsBefore \/ faulted THEN "open"
  ELSE IF applied = nonce THEN "kept"
  ELSE IF nonce \in confirmed THEN "confirmed"
  ELSE "trial"

Promise == INSTANCE LockdownPromise WITH phase <- phaseBar
ImplementsPromise == Promise!Spec

=============================================================================
