--------------------------- MODULE Lockdown_proofs --------------------------
(***************************************************************************)
(* Proofs about Lockdown, for any number of attempts and reboots and any   *)
(* of the adverse conditions.                                              *)
(***************************************************************************)
EXTENDS Lockdown, TLAPS

(* The state variables keep their types, whatever goes wrong. *)
LEMMA TypeInit == Init => TypeOK
<1>1. Init => faulted \in BOOLEAN /\ missed \in BOOLEAN
  BY Zenon DEF Init
<1> QED
  BY <1>1 DEF Init, TypeOK, Procs, Labels, ConfSettings, FwSettings

(* What has gone wrong is either so or not. *)
LEMMA FaultsTyped ==
  TypeOK /\ [Next]_vars => faulted' \in BOOLEAN /\ missed' \in BOOLEAN
<1> SUFFICES ASSUME TypeOK, [Next]_vars
             PROVE  faulted' \in BOOLEAN /\ missed' \in BOOLEAN
  OBVIOUS
<1>0. faulted \in BOOLEAN /\ missed \in BOOLEAN
  BY DEF TypeOK
<1> USE <1>0 DEF faults, aux, Fault
<1>1. ASSUME NEW p \in Procs, Settle(p)
      PROVE  faulted' \in BOOLEAN /\ missed' \in BOOLEAN
  BY <1>1, Zenon DEF Settle, RevertRead, RevertDecide, RevertRemove,
     RevertRecord, RevertDisarm, RestoreFiles, RestoreFirewall, RestoreSshd, Reload,
     FinalizeCheck, FinalizeDisarm, FinalizeApply, FinalizeClear, FinalizeUnmark
<1>2. CASE Start \/ InstallerApplies \/ Poll \/ Verify \/ Killed
  BY <1>2, Zenon DEF Start, InstallerApplies, Arm, EnableTimer, InstallDropin,
     CloseFirewall, ReloadSshd, MarkApplied, AbortDisarm, AbortRemove, Poll,
     Verify, Killed, Reload
<1>3. ASSUME NEW p \in Procs, RestoreRaises(p)
      PROVE  faulted' \in BOOLEAN /\ missed' \in BOOLEAN
  BY <1>3, Zenon DEF RestoreRaises
<1>4. ASSUME NEW origin \in {"tailnet", "public"}, ConfirmCheck(origin)
      PROVE  faulted' \in BOOLEAN /\ missed' \in BOOLEAN
  BY <1>4, Zenon DEF ConfirmCheck
<1>5. CASE TimerFires \/ ConfirmWrite \/ Reboot \/ UNCHANGED vars
  BY <1>5, Zenon DEF TimerFires, ConfirmWrite, Reboot, vars
<1> QED
  BY <1>1, <1>2, <1>3, <1>4, <1>5 DEF Next

(* No step leaves the types. *)
LEMMA TypeStep == TypeOK /\ [Next]_vars => TypeOK'
<1> SUFFICES ASSUME TypeOK, [Next]_vars PROVE TypeOK'
  OBVIOUS
<1>0. faulted' \in BOOLEAN /\ missed' \in BOOLEAN
  BY FaultsTyped
<1> USE <1>0 DEF TypeOK, Procs, Labels, ConfSettings, FwSettings, Applying,
            Restoring, Reverting, Finalizing, Aborting, Goto, Move, Finish,
            files, access, faults, aux, Fault, Disarm
<1>1. CASE Start
  BY <1>1 DEF Start
<1>2. CASE Arm
  BY <1>2 DEF Arm, TakeSnapshot
<1>3. CASE EnableTimer
  BY <1>3 DEF EnableTimer, TimerRestarted
<1>4. CASE InstallDropin
  BY <1>4 DEF InstallDropin, Change, OnException
<1>5. CASE CloseFirewall
  BY <1>5 DEF CloseFirewall, Change, OnException
<1>6. CASE ReloadSshd
  BY <1>6 DEF ReloadSshd, Reload, SshdReloaded, Change, OnException
<1>7. CASE MarkApplied
  BY <1>7 DEF MarkApplied
<1>8. CASE AbortDisarm
  BY <1>8 DEF AbortDisarm
<1>9. CASE AbortRemove
  BY <1>9 DEF AbortRemove
<1>10. CASE Poll
  BY <1>10 DEF Poll
<1>11. CASE Verify
  BY <1>11 DEF Verify
<1>12. CASE Killed
  BY <1>12 DEF Killed
<1>13. ASSUME NEW p \in Procs, Settle(p) PROVE TypeOK'
  <2>1. CASE RevertRead(p)
    BY <2>1 DEF RevertRead
  <2>2. CASE RevertDecide(p)
    BY <2>2 DEF RevertDecide
  <2>3. CASE RevertRemove(p)
    BY <2>3 DEF RevertRemove
  <2>4. CASE RevertRecord(p)
    BY <2>4 DEF RevertRecord
  <2>5. CASE RevertDisarm(p)
    BY <2>5 DEF RevertDisarm
  <2>6. CASE RestoreFiles(p)
    BY <2>6 DEF RestoreFiles
  <2>7. CASE RestoreFirewall(p)
    BY <2>7 DEF RestoreFirewall
  <2>8. CASE RestoreSshd(p)
    BY <2>8 DEF RestoreSshd, Reload, SshdReloaded
  <2>9. CASE FinalizeCheck(p)
    BY <2>9 DEF FinalizeCheck, Return
  <2>10. CASE FinalizeDisarm(p)
    BY <2>10 DEF FinalizeDisarm
  <2>11. CASE FinalizeApply(p)
    BY <2>11 DEF FinalizeApply
  <2>12. CASE FinalizeClear(p)
    BY <2>12 DEF FinalizeClear
  <2>13. CASE FinalizeUnmark(p)
    <3>1. confirmed' \subseteq Nat
      BY <2>13 DEF FinalizeUnmark
    <3>2. /\ pc' \in [Procs -> Labels] /\ seen' \in [Procs -> Nat]
          /\ caller' \in [Procs -> {"wait", "revert", "abort"}]
          /\ report' \in {"none", "done", "apply_failed", "not_confirmed",
                          "not_effective"}
      BY <2>13 DEF FinalizeUnmark, Return
    <3> QED
      BY <2>13, <3>1, <3>2 DEF FinalizeUnmark
  <2> QED
    BY <1>13, <2>1, <2>2, <2>3, <2>4, <2>5, <2>6, <2>7, <2>8, <2>9, <2>10,
       <2>11, <2>12, <2>13 DEF Settle
<1>14. ASSUME NEW p \in Procs, RestoreRaises(p) PROVE TypeOK'
  BY <1>14 DEF RestoreRaises
<1>15. CASE TimerFires
  BY <1>15 DEF TimerFires
<1>16. ASSUME NEW origin \in {"tailnet", "public"}, ConfirmCheck(origin)
       PROVE TypeOK'
  BY <1>16 DEF ConfirmCheck
<1>17. CASE ConfirmWrite
  BY <1>17 DEF ConfirmWrite
<1>18. CASE Reboot
  BY <1>18 DEF Reboot, TimerAfterBoot
<1>19. CASE UNCHANGED vars
  BY <1>19 DEF vars
<1> QED
  BY <1>1, <1>2, <1>3, <1>4, <1>5, <1>6, <1>7, <1>8, <1>9, <1>10, <1>11,
     <1>12, <1>13, <1>14, <1>15, <1>16, <1>17, <1>18, <1>19
     DEF Next, InstallerApplies

(***************************************************************************)
(* Every state variable has its type in every reachable state, whatever    *)
(* goes wrong.                                                             *)
(***************************************************************************)
THEOREM TypeCorrect == Spec => []TypeOK
  BY TypeInit, TypeStep, PTL DEF Spec

-----------------------------------------------------------------------------
(***************************************************************************)
(* The inductive invariant behind the safety net.                          *)
(*                                                                         *)
(* SafetyNet alone is not inductive: a step that disarms the timer or      *)
(* removes the pending record is safe only because of what its process has *)
(* already done.  The conjuncts below say, label by label, what that is.   *)
(***************************************************************************)
I == "installer"
S == "service"

(* The snapshot holds the settings the attempt began with. *)
SnapOK == snap.dropin = before.dropin /\ snap.fw = before.fw

(* apply() runs alone, and what it has set up so far. *)
ApplyInv ==
  /\ pc[I] \in Applying => pc[S] = "idle" /\ report = "none"
  /\ pc[I] = "arm" => AsBefore /\ pending = "none"
  /\ pc[I] = "enable" => AsBefore /\ pending # "none"
  /\ pc[I] \in {"dropin", "firewall", "reload", "mark"} =>
       pending # "none" /\ timer = "counting"
  /\ pc[I] \in {"enable", "dropin", "firewall", "reload", "mark"} =>
       reverted < nonce

(* Whoever is restoring has the right snapshot, and how far it has come. *)
RestoreInv ==
  /\ pending # "none" => SnapOK
  /\ \A p \in Procs :
       /\ pc[p] \in {"rv_decide", "rs_files", "rs_firewall", "rs_sshd"} => SnapOK
       /\ pc[p] \in {"rs_firewall", "rs_sshd"} => dropin = before.dropin
       /\ pc[p] = "rs_sshd" => fw = before.fw
       /\ pc[p] \in {"rv_remove", "rv_record", "ab_disarm", "ab_remove"} => AsBefore
       /\ pc[p] \in {"rv_record", "rv_disarm"} => pending = "none"

(* Whoever is finalizing works on the last attempt, and it is confirmed. *)
FinalizeInv ==
  \A p \in Procs :
    /\ seen[p] <= nonce
    /\ pc[p] \in {"rv_decide", "fz_disarm", "fz_apply"} => seen[p] = nonce
    /\ pc[p] \in Finalizing => KeptOrConfirmed
    /\ pc[p] \in {"fz_clear", "fz_unmark"} => applied = nonce

(* The net itself: it survives a reboot too, as the timer is still enabled. *)
Net ==
  \/ AsBefore \/ KeptOrConfirmed
  \/ /\ pending # "none" /\ timer # "off"
     /\ timer = "counting" \/ pc[S] # "idle"

(* All of it holds until one of the adverse conditions comes true. *)
Core ==
  /\ caller[S] = "revert"
  /\ reverted <= nonce
  /\ ApplyInv /\ RestoreInv /\ FinalizeInv
  /\ RevertedIsBefore /\ FailedApplyChangedNothing
  /\ Net

IInv == TypeOK /\ (~faulted => Core)

-----------------------------------------------------------------------------
(* The initial states satisfy the invariant. *)
LEMMA InvInit == Init => IInv
<1> SUFFICES ASSUME Init PROVE IInv
  OBVIOUS
<1>1. TypeOK
  BY TypeInit
<1> QED
  BY <1>1 DEF Init, IInv, Core, ApplyInv, RestoreInv, FinalizeInv, RevertedIsBefore,
     FailedApplyChangedNothing, Net, AsBefore, KeptOrConfirmed, SnapOK, Procs,
     Applying, Finalizing, I, S

(* What has gone wrong is not forgotten. *)
LEMMA FaultedStays == TypeOK /\ [Next]_vars /\ faulted => faulted'
<1> SUFFICES ASSUME TypeOK, [Next]_vars, faulted PROVE faulted'
  OBVIOUS
<1> USE DEF faults, aux, Fault, Finish, Return
<1>1. ASSUME NEW p \in Procs, Settle(p) PROVE faulted'
  BY <1>1 DEF Settle, RevertRead, RevertDecide, RevertRemove, RevertRecord,
     RevertDisarm, RestoreFiles, RestoreFirewall, RestoreSshd, Reload, FinalizeCheck,
     FinalizeDisarm, FinalizeApply, FinalizeClear, FinalizeUnmark
<1>2. CASE Start \/ InstallerApplies \/ Poll \/ Verify \/ Killed
  BY <1>2 DEF Start, InstallerApplies, Arm, EnableTimer, InstallDropin,
     CloseFirewall, ReloadSshd, MarkApplied, AbortDisarm, AbortRemove, Poll,
     Verify, Killed, Reload
<1>3. ASSUME NEW p \in Procs, RestoreRaises(p) PROVE faulted'
  BY <1>3 DEF RestoreRaises
<1>4. ASSUME NEW origin \in {"tailnet", "public"}, ConfirmCheck(origin)
      PROVE faulted'
  BY <1>4 DEF ConfirmCheck
<1>5. CASE TimerFires \/ ConfirmWrite \/ Reboot \/ UNCHANGED vars
  BY <1>5 DEF TimerFires, ConfirmWrite, Reboot, vars
<1> QED
  BY <1>1, <1>2, <1>3, <1>4, <1>5 DEF Next

(* A step in which nothing goes wrong preserves the core of the invariant. *)
LEMMA CoreStep == TypeOK /\ Core /\ [Next]_vars /\ ~faulted' => Core'
<1> SUFFICES ASSUME TypeOK, Core, [Next]_vars, ~faulted' PROVE Core'
  OBVIOUS
<1>0. TypeOK /\ TypeOK'
  BY TypeStep
<1>a. /\ pc \in [Procs -> Labels] /\ seen \in [Procs -> Nat]
      /\ caller \in [Procs -> {"wait", "revert", "abort"}]
      /\ nonce \in Nat /\ reverted \in Nat /\ applied \in Nat
      /\ ~faulted
  BY <1>0, FaultedStays DEF TypeOK
<1> USE <1>a DEF Core, Fault, ApplyInv, RestoreInv, FinalizeInv,
      RevertedIsBefore, FailedApplyChangedNothing, Net, AsBefore,
      KeptOrConfirmed, SnapOK, Procs, Applying, Restoring, Finalizing, I, S,
      Goto, Move, Finish, files, access, faults, aux, Disarm
<1>1. CASE Start
  BY <1>0, <1>1 DEF Start, StepCheck
<1>2. CASE Arm
  BY <1>0, <1>2 DEF Arm, TakeSnapshot
<1>3. CASE EnableTimer
  BY <1>0, <1>3 DEF EnableTimer, TimerRestarted
<1>4. CASE InstallDropin
  BY <1>0, <1>4 DEF InstallDropin, Change, OnException
<1>5. CASE CloseFirewall
  BY <1>0, <1>5 DEF CloseFirewall, Change, OnException
<1>6. CASE ReloadSshd
  BY <1>0, <1>6 DEF ReloadSshd, Reload, SshdReloaded, Change, OnException
<1>7. CASE MarkApplied
  BY <1>0, <1>7 DEF MarkApplied
<1>8. CASE AbortDisarm
  BY <1>0, <1>8 DEF AbortDisarm
<1>9. CASE AbortRemove
  BY <1>0, <1>9 DEF AbortRemove
<1>10. CASE Poll
  BY <1>0, <1>10 DEF Poll
<1>11. CASE Verify
  BY <1>0, <1>11 DEF Verify
<1>12. CASE Killed
  BY <1>0, <1>12 DEF Killed
<1>13. ASSUME NEW p \in Procs, Settle(p) PROVE Core'
  <2>1. CASE RevertRead(p)
    BY <1>0, <2>1 DEF RevertRead
  <2>2. CASE RevertDecide(p)
    BY <1>0, <2>2 DEF RevertDecide
  <2>3. CASE RevertRemove(p)
    BY <1>0, <2>3 DEF RevertRemove
  <2>4. CASE RevertRecord(p)
    BY <1>0, <2>4 DEF RevertRecord
  <2>5. CASE RevertDisarm(p)
    BY <1>0, <2>5 DEF RevertDisarm
  <2>6. CASE RestoreFiles(p)
    BY <1>0, <2>6 DEF RestoreFiles
  <2>7. CASE RestoreFirewall(p)
    BY <1>0, <2>7 DEF RestoreFirewall
  <2>8. CASE RestoreSshd(p)
    BY <1>0, <2>8 DEF RestoreSshd, Reload, SshdReloaded
  <2>9. CASE FinalizeCheck(p)
    BY <1>0, <2>9 DEF FinalizeCheck, FinalizeDue, Return
  <2>10. CASE FinalizeDisarm(p)
    BY <1>0, <2>10 DEF FinalizeDisarm
  <2>11. CASE FinalizeApply(p)
    BY <1>0, <2>11 DEF FinalizeApply
  <2>12. CASE FinalizeClear(p)
    BY <1>0, <2>12 DEF FinalizeClear
  <2>13. CASE FinalizeUnmark(p)
    BY <1>0, <2>13 DEF FinalizeUnmark, Return
  <2> QED
    BY <1>13, <2>1, <2>2, <2>3, <2>4, <2>5, <2>6, <2>7, <2>8, <2>9, <2>10, <2>11, <2>12, <2>13 DEF Settle
<1>14. ASSUME NEW p \in Procs, RestoreRaises(p) PROVE Core'
  BY <1>14 DEF RestoreRaises
<1>15. CASE TimerFires
  BY <1>0, <1>15 DEF TimerFires
<1>16. ASSUME NEW origin \in {"tailnet", "public"}, ConfirmCheck(origin)
       PROVE Core'
  BY <1>0, <1>16 DEF ConfirmCheck
<1>17. CASE ConfirmWrite
  BY <1>0, <1>17 DEF ConfirmWrite
<1>18. CASE Reboot
  BY <1>0, <1>18 DEF Reboot, TimerAfterBoot
<1>19. CASE UNCHANGED vars
  BY <1>0, <1>19 DEF vars
<1> QED
  BY <1>1, <1>2, <1>3, <1>4, <1>5, <1>6, <1>7, <1>8, <1>9, <1>10, <1>11, <1>12, <1>13, <1>14, <1>15, <1>16, <1>17, <1>18, <1>19
     DEF Next, InstallerApplies

(* The inductive step: the core holds until a fault, the types always. *)
LEMMA InvStep == IInv /\ [Next]_vars => IInv'
  BY TypeStep, FaultedStays, CoreStep DEF IInv

(***************************************************************************)
(* Until a disk error, a failing command or an overlap of the timer with   *)
(* apply(), the machine is never without its net: the timer was armed      *)
(* before anything changed, and it is disarmed only by a process that has  *)
(* put everything back or found the confirmation.                          *)
(***************************************************************************)
THEOREM SafetyNetHolds == Spec => []SafetyNet
<1>1. IInv => SafetyNet
  BY DEF IInv, Core, Net, SafetyNet, NetHolds, S
<1> QED
  BY InvInit, InvStep, <1>1, PTL DEF Spec

(* Until then - and a reload of sshd that failed unseen is such a failing  *)
(* command - a recorded undo did put everything back, in the running sshd  *)
(* too.                                                                    *)
THEOREM RevertRestores == Spec => []RevertedIsBefore
<1>1. IInv => RevertedIsBefore
  BY DEF IInv, Core, RevertedIsBefore
<1> QED
  BY InvInit, InvStep, <1>1, PTL DEF Spec

(* Until then, a failed apply() left nothing changed. *)
THEOREM FailedApplyRestores == Spec => []FailedApplyChangedNothing
<1>1. IInv => FailedApplyChangedNothing
  BY DEF IInv, Core, FailedApplyChangedNothing
<1> QED
  BY InvInit, InvStep, <1>1, PTL DEF Spec

-----------------------------------------------------------------------------
(***************************************************************************)
(* The inductive invariant behind KeptIsProved, which holds whatever goes  *)
(* wrong.                                                                  *)
(*                                                                         *)
(* confirm() writes down what it saw, and what it saw may be undone before *)
(* the confirmation counts, so "confirmed and closed" has to be proof that *)
(* it was closed when the owner confirmed.  It is, as the settings of an   *)
(* attempt that was ever ready to be confirmed only move away from closed: *)
(* whatever restores, it puts back a snapshot that is closed no more than  *)
(* they are.                                                               *)
(***************************************************************************)

(* The last attempt is confirmed, on record as kept, or about to be.       *)
Spoken ==
  \/ nonce \in logins \cup confirmed \/ applied = nonce
  \/ \E p \in Procs : pc[p] \in {"fz_disarm", "fz_apply"} /\ seen[p] = nonce

KeptInv ==
  /\ applied <= nonce
  /\ \A n \in logins \cup confirmed : n <= nonce
  /\ \A p \in Procs : seen[p] <= nonce
  /\ pc[I] \in {"enable", "dropin", "firewall", "reload", "mark"} =>
       ~Spoken /\ pending # "applied"
  /\ snap.dropin = "hard" => dropin = "hard"
  /\ pc[I] \in {"reload", "mark"} \/ pending = "applied" \/ Spoken =>
       (snap.fw = "closed" => fw = "closed")
  /\ pc[I] = "mark" \/ pending = "applied" \/ Spoken =>
       (dropin = "hard" => sshd = "hard" \/ missed)
  /\ nonce > 1 /\ Spoken /\ Closed => nonce \in proved \/ missed

(* Every step keeps it, one in which something goes wrong included.        *)
LEMMA KeptStep == TypeOK /\ KeptInv /\ [Next]_vars => KeptInv'
<1> SUFFICES ASSUME TypeOK, KeptInv, [Next]_vars PROVE KeptInv'
  OBVIOUS
<1>0. /\ pc \in [Procs -> Labels] /\ seen \in [Procs -> Nat]
      /\ caller \in [Procs -> {"wait", "revert", "abort"}]
      /\ nonce \in Nat /\ applied \in Nat
      /\ confirmed \subseteq Nat /\ logins \subseteq Nat
      /\ dropin \in ConfSettings /\ sshd \in ConfSettings
  BY DEF TypeOK
<1> USE <1>0 DEF KeptInv, Spoken, Closed, Procs, ConfSettings,
      Restoring, I, Goto, Move, Finish, files, access, faults, aux, Disarm
(* A process that returns forgets what it had read. *)
<1>f. ASSUME NEW p \in Procs, NEW r, Finish(p, r)
      PROVE  /\ \A q \in Procs : seen'[q] <= nonce
             /\ \A q \in Procs : pc'[q] \in {"fz_disarm", "fz_apply"} =>
                  /\ pc[q] \in {"fz_disarm", "fz_apply"} /\ seen'[q] = seen[q]
             /\ pc'[I] \in {pc[I], "idle"}
  BY <1>f
<1>1. CASE Start
  BY <1>1 DEF Start
<1>2. CASE Arm
  BY <1>2 DEF Arm, TakeSnapshot
<1>3. CASE EnableTimer
  BY <1>3 DEF EnableTimer
<1>4. CASE InstallDropin
  BY <1>4 DEF InstallDropin, Change, OnException
<1>5. CASE CloseFirewall
  BY <1>5 DEF CloseFirewall, Change, OnException
<1>6. CASE ReloadSshd
  BY <1>6 DEF ReloadSshd, Reload, SshdReloaded, Change, OnException
<1>7. CASE MarkApplied
  BY <1>7 DEF MarkApplied
<1>8. CASE AbortDisarm \/ Poll
  BY <1>8, ZenonT(40) DEF AbortDisarm, Poll
<1>9. CASE AbortRemove \/ Verify \/ Killed
  <2>1. /\ \A q \in Procs : seen'[q] <= nonce
        /\ \A q \in Procs : pc'[q] \in {"fz_disarm", "fz_apply"} =>
             /\ pc[q] \in {"fz_disarm", "fz_apply"} /\ seen'[q] = seen[q]
        /\ pc'[I] \in {pc[I], "idle"}
    BY <1>9, <1>f DEF AbortRemove, Verify, Killed
  <2>2. /\ UNCHANGED <<nonce, confirmed, applied, reverted, snap, access, timer, aux>>
        /\ pending' \in {pending, "none"}
    BY <1>9 DEF AbortRemove, Verify, Killed
  <2>3. Spoken' => Spoken
    BY <2>1, <2>2
  <2> QED
    BY <2>1, <2>2, <2>3
<1>10. ASSUME NEW p \in Procs, Settle(p) PROVE KeptInv'
  <2>1. CASE RevertRead(p)
    BY <2>1 DEF RevertRead
  <2>2. CASE RevertDecide(p)
    BY <2>2 DEF RevertDecide
  <2>3. CASE RevertRemove(p) \/ RevertRecord(p)
    BY <2>3, ZenonT(40) DEF RevertRemove, RevertRecord
  <2>12. CASE RevertDisarm(p)
    <3>1. /\ \A q \in Procs : seen'[q] <= nonce
          /\ \A q \in Procs : pc'[q] \in {"fz_disarm", "fz_apply"} =>
               /\ pc[q] \in {"fz_disarm", "fz_apply"} /\ seen'[q] = seen[q]
          /\ pc'[I] \in {pc[I], "idle"}
      BY <2>12, <1>f DEF RevertDisarm
    <3>2. UNCHANGED <<files, access, aux>>
      BY <2>12 DEF RevertDisarm
    <3>3. Spoken' => Spoken
      BY <3>1, <3>2
    <3> QED
      BY <3>1, <3>2, <3>3
  <2>4. CASE RestoreFiles(p)
    BY <2>4 DEF RestoreFiles
  <2>5. CASE RestoreFirewall(p)
    BY <2>5 DEF RestoreFirewall
  <2>6. CASE RestoreSshd(p)
    BY <2>6 DEF RestoreSshd, Reload, SshdReloaded
  <2>7. CASE FinalizeCheck(p)
    BY <2>7 DEF FinalizeCheck, FinalizeDue, Return
  <2>8. CASE FinalizeDisarm(p)
    BY <2>8 DEF FinalizeDisarm
  <2>9. CASE FinalizeApply(p)
    BY <2>9 DEF FinalizeApply
  <2>10. CASE FinalizeClear(p)
    BY <2>10 DEF FinalizeClear
  <2>11. CASE FinalizeUnmark(p)
    BY <2>11 DEF FinalizeUnmark, Return
  <2> QED
    BY <1>10, <2>1, <2>2, <2>3, <2>4, <2>5, <2>6, <2>7, <2>8, <2>9, <2>10, <2>11, <2>12
       DEF Settle
<1>11. ASSUME NEW p \in Procs, RestoreRaises(p) PROVE KeptInv'
  BY <1>11 DEF RestoreRaises
<1>12. CASE TimerFires
  BY <1>12 DEF TimerFires
<1>13. ASSUME NEW origin \in {"tailnet", "public"}, ConfirmCheck(origin)
       PROVE KeptInv'
  BY <1>13 DEF ConfirmCheck, ReadyToConfirm
<1>14. CASE ConfirmWrite
  BY <1>14 DEF ConfirmWrite
<1>15. CASE Reboot
  <2>1. /\ \A q \in Procs : pc'[q] = "idle" /\ seen'[q] = 0
        /\ UNCHANGED <<files, dropin, fw, before, proved, faults>>
        /\ sshd' = dropin /\ logins' = {}
    BY <1>15 DEF Reboot
  <2>2. Spoken' => Spoken
    BY <2>1
  <2>3. nonce' > 1 /\ Spoken' /\ Closed' => nonce' \in proved' \/ missed'
    BY <2>1, <2>2
  <2>4. pc'[I] = "idle" /\ 0 <= nonce
    BY <2>1
  <2>5. /\ applied' <= nonce' /\ \A n \in logins' \cup confirmed' : n <= nonce'
        /\ \A p \in Procs : seen'[p] <= nonce'
    BY <2>1, <2>4
  <2> QED
    BY <2>1, <2>2, <2>3, <2>4, <2>5
<1>16. CASE UNCHANGED vars
  BY <1>16 DEF vars
<1> QED
  BY <1>1, <1>2, <1>3, <1>4, <1>5, <1>6, <1>7, <1>8, <1>9, <1>10, <1>11, <1>12,
     <1>13, <1>14, <1>15, <1>16 DEF Next, InstallerApplies

(***************************************************************************)
(* A lockdown that is on record as kept and does close the machine was     *)
(* proved by a login from the tailnet while all of it was in place,        *)
(* whatever raised, failed or overlapped before - unless a reload of sshd  *)
(* failed unseen in that very attempt: then what was in place was less.    *)
(***************************************************************************)
THEOREM KeptWasProved == Spec => []KeptIsProved
<1>1. Init => KeptInv
  BY DEF Init, KeptInv, Spoken, Procs, I, ConfSettings
<1>2. KeptInv => KeptIsProved
  BY DEF KeptInv, KeptIsProved, Spoken
<1> QED
  BY <1>1, <1>2, KeptStep, TypeCorrect, PTL DEF Spec

-----------------------------------------------------------------------------
(***************************************************************************)
(* The safety half of ImplementsPromise, for every value of the constants: *)
(* the files, timers and processes begin as the promise does, and a step   *)
(* of theirs is a step of the promise or leaves its phase alone.  A trial  *)
(* is kept only by way of a confirmation, a confirmation is not forgotten, *)
(* and nothing is confirmed before it is tried.                            *)
(***************************************************************************)
THEOREM KeepsThePromise == Spec => Promise!Init /\ [][Promise!Next]_phaseBar
<1>1. Init => Promise!Init
  BY DEF Init, Promise!Init, phaseBar, AsBefore
<1>2. ASSUME IInv, KeptInv, [Next]_vars
      PROVE [Promise!Next]_phaseBar
  <2> USE DEF phaseBar, Promise!Next, Promise!Close, Promise!Confirm,
              Promise!Keep, Promise!Undo
  <2>1. CASE faulted'
    BY <2>1
  <2>2. CASE ~faulted'
    (* The settings are left alone once the attempt may be confirmed; what *)
    (* is kept or confirmed stays so until they are as before; and nothing *)
    (* but a confirmed attempt is recorded as kept.                        *)
    <3>1. /\ AsBefore /\ ~AsBefore' => ~KeptOrConfirmed'
          /\ ~AsBefore /\ ~AsBefore' =>
               /\ applied = nonce => applied' = nonce'
               /\ KeptOrConfirmed => KeptOrConfirmed'
               /\ applied' = nonce' => KeptOrConfirmed
      <4>0. /\ TypeOK /\ Core
            /\ pc \in [Procs -> Labels] /\ nonce \in Nat
        BY <1>2, <2>2, FaultedStays DEF IInv, TypeOK
      <4> USE <1>2, <2>2, <4>0 DEF Core, Fault, ApplyInv, RestoreInv, FinalizeInv,
            KeptInv, Spoken, AsBefore, KeptOrConfirmed, SnapOK, Procs, Applying,
            Restoring, Finalizing, I, S, Goto, Move, Finish, files, access, faults, aux, Disarm
      <4>1. CASE Start
        BY <4>1 DEF Start
      <4>2. CASE Arm \/ EnableTimer
        BY <4>2 DEF Arm, EnableTimer
      <4>3. CASE InstallDropin
        BY <4>3 DEF InstallDropin, Change
      <4>4. CASE CloseFirewall
        BY <4>4 DEF CloseFirewall, Change
      <4>5. CASE ReloadSshd \/ MarkApplied
        BY <4>5 DEF ReloadSshd, Change, Reload, SshdReloaded, MarkApplied
      <4>6. CASE AbortDisarm \/ AbortRemove \/ Poll \/ Verify \/ Killed
        BY <4>6 DEF AbortDisarm, AbortRemove, Poll, Verify, Killed
      <4>7. ASSUME NEW p \in Procs, Settle(p)
            PROVE  /\ AsBefore /\ ~AsBefore' => ~KeptOrConfirmed'
                   /\ ~AsBefore /\ ~AsBefore' =>
                        /\ applied = nonce => applied' = nonce'
                        /\ KeptOrConfirmed => KeptOrConfirmed'
                        /\ applied' = nonce' => KeptOrConfirmed
        <5>1. CASE RestoreFiles(p) \/ RestoreFirewall(p) \/ RestoreSshd(p)
          BY <5>1 DEF RestoreFiles, RestoreFirewall, RestoreSshd, Reload,
             SshdReloaded
        <5>2. CASE FinalizeApply(p) \/ FinalizeUnmark(p)
          BY <5>2 DEF FinalizeApply, FinalizeUnmark
        <5>3. CASE \/ RevertRead(p) \/ RevertDecide(p) \/ RevertRemove(p)
                   \/ RevertRecord(p) \/ RevertDisarm(p)
                   \/ FinalizeCheck(p) \/ FinalizeDisarm(p) \/ FinalizeClear(p)
          BY <5>3 DEF RevertRead, RevertDecide, RevertRemove, RevertRecord,
             RevertDisarm, FinalizeCheck, FinalizeDisarm, FinalizeClear
        <5> QED
          BY <4>7, <5>1, <5>2, <5>3 DEF Settle
      <4>8. ASSUME NEW p \in Procs, RestoreRaises(p) PROVE FALSE
        BY <4>8 DEF RestoreRaises
      <4>9. CASE TimerFires \/ ConfirmWrite \/ Reboot \/ UNCHANGED vars
        BY <4>9 DEF TimerFires, ConfirmWrite, Reboot, vars
      <4>10. ASSUME NEW origin \in {"tailnet", "public"}, ConfirmCheck(origin)
             PROVE  UNCHANGED <<before, access, applied, nonce, confirmed>>
        BY <4>10 DEF ConfirmCheck
      <4> QED
        BY <4>1, <4>2, <4>3, <4>4, <4>5, <4>6, <4>7, <4>8, <4>9, <4>10
           DEF Next, InstallerApplies
    <3>2. ~faulted
      BY <1>2, <2>2, FaultedStays DEF IInv
    <3> QED
      BY <2>2, <3>1, <3>2 DEF KeptOrConfirmed
  <2> QED
    BY <2>1, <2>2
<1>3. Spec => []IInv
  BY InvInit, InvStep, PTL DEF Spec
<1>4. Init => KeptInv
  BY DEF Init, KeptInv, Spoken, Procs, I, ConfSettings
<1>5. Spec => []KeptInv
  BY <1>4, KeptStep, TypeCorrect, PTL DEF Spec
<1> QED
  BY <1>1, <1>2, <1>3, <1>5, PTL DEF Spec

=============================================================================
