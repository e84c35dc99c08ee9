----------------------------- MODULE StepTable -----------------------------
(***************************************************************************)
(* What each step of the server's installer makes, in the order its        *)
(* apply() makes it, what its check() looks at, and what it needs of the   *)
(* steps before it (pskit/linux/steps_*.py, setup_alerts.py,               *)
(* setup_backup.py, common.py).                                            *)
(*                                                                         *)
(* A row:                                                                  *)
(*   id         the step                                                   *)
(*   parts      what apply() makes, one after the other                    *)
(*   sees       the parts check() looks at                                 *)
(*   needs      the parts of other steps that apply() works with           *)
(*   mends      the parts check() itself makes where it holds              *)
(*   slips      the parts that may come to nothing without apply() noticing *)
(*   outlives   the parts made for one answer that check() takes for those *)
(*              of another                                                 *)
(*   byWord     check() also needs the journal to say "done"               *)
(*   verified   verify() looks again                                       *)
(*   declines   apply() may return at once, with nothing to do here or     *)
(*              on the owner's word                                        *)
(***************************************************************************)
EXTENDS Sequences

Row(id, parts, sees, needs) ==
  [id |-> id, parts |-> parts, sees |-> sees, needs |-> needs, mends |-> {},
   slips |-> {}, outlives |-> {}, byWord |-> FALSE, verified |-> TRUE,
   declines |-> FALSE]

(* The foundation.                                                         *)

(* useradd, then passwd, which may fail three times.                       *)
OwnerAccount == Row("owner-account", <<"user", "password">>, {"user"}, {})

Packages == Row("packages", <<"packages">>, {"packages"}, {})

Timezone == Row("timezone", <<"zone">>, {"zone"}, {})

Identity == Row("identity", <<"groups", "brain_user", "memberships">>,
                {"groups", "brain_user", "memberships"}, {"user"})

(* A directory gets its owner before its mode, which is what check() sees. *)
Storage == Row("storage", <<"dir_owners", "dir_modes">>, {"dir_modes"},
               {"user", "groups", "brain_user"})

CodeParts == <<"release", "current_link", "shim">>
CodeSeen  == {"release", "current_link", "shim"}
Code      == Row("code", CodeParts, CodeSeen, {})

ConfigFiles == <<"host_config", "kit_config">>
Config      == Row("config", ConfigFiles, {"host_config", "kit_config"}, {"dir_modes"})

(* No space or a file system that will not do: apply() returns.            *)
Swap == [Row("swap", <<"swap_on", "fstab_line">>, {"swap_on"}, {})
         EXCEPT !.verified = FALSE, !.declines = TRUE]

MemoryBudget == Row("memory-budget", <<"slices", "slices_loaded", "budget_told">>,
                    {"slices"}, {"user"})

Tmpfiles == [Row("tmpfiles", <<"tmpfiles_conf", "heavy_lock">>,
                 {"tmpfiles_conf", "heavy_lock"}, {"groups", "user"})
             EXCEPT !.slips = {"heavy_lock"}]

Updates == Row("updates", <<"apt_conf", "upgrade_timer", "daily_timer">>,
               {"apt_conf", "upgrade_timer"}, {"packages"})

(* Access.  check() saves the address of a machine that is logged in.      *)
Tailscale == [Row("tailscale", <<"tailscale", "tailscaled", "logged_in", "address">>,
                  {"tailscale", "logged_in"}, {"dir_modes", "host_config"})
              EXCEPT !.mends = {"address"}, !.slips = {"logged_in"}]

Pairing == Row("pairing", <<"keep_rules", "device">>, {"device"},
               {"address", "user", "dir_modes"})

Lockdown == [Row("lockdown", <<"closed">>, {"closed"},
                 {"device", "keep_rules", "address", "packages"})
             EXCEPT !.slips = {"closed"}]

(* Operations.                                                             *)
AlertsParts == <<"notify_env", "channel">>
Alerts      == [Row("alerts", AlertsParts, {"notify_env"}, {"dir_modes", "host_config"})
                EXCEPT !.byWord = TRUE, !.verified = FALSE, !.declines = TRUE]

HeartbeatParts == <<"heartbeat_env", "heartbeat_on">>
Heartbeat      == [Row("heartbeat", HeartbeatParts, {}, {"dir_modes", "kit_config"})
                   EXCEPT !.byWord = TRUE, !.verified = FALSE, !.declines = TRUE]

BackupParts == <<"restic", "backup_env", "backup_password", "repository",
                 "backup_kind", "snapshot", "restore_proof">>
BackupSeen  == {"restic", "backup_env", "backup_password", "backup_kind",
                "snapshot", "restore_proof"}
Backup      == [Row("backup", BackupParts, BackupSeen, {"dir_modes"})
                EXCEPT !.declines = TRUE]

(* The unit of the proof by reboot is enabled last, and not looked at.     *)
UnitFiles == {"shim", "current_link", "host_config", "kit_config", "user", "brain_user"}
Wanted    == {"active", "inactive"}
Runtime   == [Row("runtime", <<"units", "units_loaded", "active", "inactive",
                               "proof_unit">>,
                  {"units"} \cup Wanted, UnitFiles)
              EXCEPT !.slips = Wanted]

CiModule == Row("module-ci", <<"ci_user", "slices", "slices_loaded", "budget_told">>,
                {"ci_user", "slices"}, {"user"})

SambaModule == Row("module-samba", <<"samba", "smb_conf", "smb_password", "smbd">>,
                   {"smb_conf", "smb_password"}, {"user", "dir_modes"})

(* Any record will do, of whichever manifest; the budget goes by the file. *)
BrainSlot == [Row("brain-slot", <<"manifest", "brain_units", "brain_record", "brain_budget">>,
                  {"manifest", "brain_record"},
                  {"brain_user", "groups", "dir_modes", "heavy_lock", "slices"})
              EXCEPT !.verified = FALSE, !.outlives = {"brain_record"}]

(* linux_steps(), without the last one, the proof.                         *)
LinuxSteps ==
  <<OwnerAccount, Packages, Timezone, Identity, Storage, Code, Config, Swap,
    MemoryBudget, Tmpfiles, Updates, Tailscale, Alerts, Heartbeat, Backup,
    Runtime, CiModule, SambaModule, Pairing, Lockdown, BrainSlot>>
=============================================================================
