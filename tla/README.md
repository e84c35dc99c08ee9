# A formal model of personal-server-kit

TLA+ modules of the kit's core logic, TLC configurations that check them on
small instances, and theorems about them checked by TLAPS. Paths below are
relative to the repository's package, `pskit/`, unless they begin with `docs/`.
`PROJECT.json` maps every definition to the lines it stands for, lists the runs,
the mutants (faulty variants of a definition that each property must detect),
the hazards, the findings and the theorems.

    tlc -config Lockdown_all.cfg MCLockdown      # one run
    tlapm Lockdown_proofs.tla                    # one module of proofs

Each module contains a few operators that nothing else uses (`AnyoneMayEnter`,
`SkipsOnItsWord`, `ReadOnce`...). They stand right before the definition they
distort and are the mutants: with the faulty one in place of the right one, TLC
finds the named property violated.

## 1. The system

The kit turns a fresh Linux server into a private one for coding agents: an
installer of verified steps, a lockdown of public SSH with confirm-or-revert,
laptops that pair and then push their agent sessions, and timers that watch the
machine and tell its owner. Processes share files; there is no daemon but the
pressure guard and, while a pairing lasts, the pairing server.

| Component | Code | State it keeps | Operations | What is hard |
|---|---|---|---|---|
| Installer engine | `steps.py`, `install.py`, `state.py` | `journal.json`, a copy of it in memory | run: check, apply, verify, mark each step; resume | killed or failing anywhere; steps that drift between runs; another process writing the journal |
| Proof by reboot | `prove.py`, `linux/steps_ops.py`, unit `pskit-prove-boot` | the pending file, the receipt | arm, after_boot (unit, installer, by hand) | a second reboot or a second prover in the middle; always report |
| Lockdown | `lockdown.py`, `linux/steps_net.py`, timer `pskit-lockdown-revert` | `pending.json`, `confirmed-<nonce>`, `applied.json`, `reverted.json`, snapshot; the sshd drop-in, the running sshd, ufw, the timer | apply, wait, verify, confirm, finalize, revert_if_due | three unlocked parties, kills, reboots, deadlines that coincide |
| Pairing and device keys | `server/pairing.py`, `server/keys.py`, `device/pair.py`, `forget-device` | `authorized_keys`, `devices.json`, the ledger; the laptop's staging and key folders | a session with a code, a request, add or remove a device | a lost answer, two files and a ledger changed one after the other, unlocked |
| Session bridge | `bridge.py`, `device/bridge_push.py` | the laptop's `bridge-<server>.json`, the server's inbox | plan, stream, receive, answer, update and save state | connections cut in a tail, files that change while they are pushed, two pushes at once |
| Alert delivery | `notify.py`, `runtime/digest.py` | spool, retry directory, cooldown files, digest file, `notify.lock` | enqueue, deliver, flush_digest | deliverers that die or compete, an outage, the digest meanwhile |
| Health and alert state | `runtime/health.py`, `alerts.py`, `checks.py` | `alerts.json`, `health.lock` | a run: probe, process, queue, save | a run killed between message and state, hovering values, two runs |
| Pressure guard | `runtime/pressure.py` | counters in memory, a marker per frozen slice, the kernel's freezer | cycle, freeze, thaw, release, stop | killed or told to stop in the middle, `systemctl` that misleads |
| Change ledger, uninstall | `state.py`, `uninstall.py` | `changes.json`, backups, the files themselves | install_file, record, uninstall | kills between file and entry, edits by the owner, repetition |
| Backup and restore test | `runtime/backup.py`, `setup_backup.py`, their timers and services | receipts, the heavy lock, restic's repository | backup, retry, restore test | units and batches waiting for one lock, runs that are late, fail, time out or vanish in a power cut |
| Brain slot | `brainslot.py`, `manifest.py` | the manifest, the record of installed units, systemd | validate, apply one manifest over another | half-way application, units that run an older text |
| Budget | `budget.py` | none | split memory among slices | rounding and bounds that must leave a margin |
| Reaper, cache maintenance | `runtime/reaper.py`, `runtime/cachemaint.py` | none | plan, terminate, kill | a pid that is another process's by then |
| Doctor, diagnostics, preflight | `doctor.py`, `diagnostics.py`, `preflight.py` | none | read-only reports | - |
| Laptop set-up | `device/agents.py`, `device/local.py`, `device/tailscale_setup.py` | configuration files, background jobs | write and load in a straight line | - |
| Installer steps | `linux/steps_*.py`, `linux/apt.py`, `common.py`, `setup_*.py` | the machine | check, apply, verify of each of 21 steps | parts that `check()` does not see, steps that work on others' parts |
| Command line, texts, rendering, host access, heartbeat | `__main__.py`, `ui.py`, `i18n.py`, `text.py`, `runtime/heartbeat.py` | none | parsing, wording, wrappers, one HTTP request | - |

How they interact:

- The installer runs the lockdown and the pairing as steps, waits in the
  foreground for both, and arms the proof as its last step. The proof's unit
  marks the journal the installer reads when it is run again.
- The lockdown's undo is shared by the installer and by a systemd service; the
  confirmation comes from an SSH session over the tailnet.
- Pairing writes `authorized_keys` lines whose forced command is the bridge's
  receiver, and finishes by starting the laptop's bridge job.
- Health, the guard, backup and the proof drop messages into the spool of the
  alert delivery; the spool's path unit and the health run deliver them.
- Whatever changes the machine records it in the ledger that uninstall reads
  backwards.
- Backups, restore tests and the brain's batches take one lock; a manifest's peak
  decides how memory is split, which the installer's step `memory-budget` and
  `pskit brain apply` both write.

## 2. Modules

| Module | Models | MC module | Proofs |
|---|---|---|---|
| `Lockdown`, `LockdownPromise` | the lockdown, and what it promises the owner | `MCLockdown` | `Lockdown_proofs` |
| `Notify` | alert delivery, cooldown, daily digest | `MCNotify` | `Notify_proofs` |
| `Bridge` | one session file from laptop to inbox | `MCBridge` | `Laptop_proofs` |
| `Pressure` | the pressure guard | `MCPressure` | `Slices_proofs` |
| `Alerts` | health runs and their alert state | `MCAlerts` | `Alerts_proofs` |
| `Ledger` | one managed file, and one other thing, from install to uninstall | `MCLedger` | `Ledger_proofs` |
| `Pairing` | pairing sessions, keys, forget-device | `MCPairing` | `Laptop_proofs` |
| `StepTable` | what each of the installer's steps makes, sees and needs | | |
| `Installer` | the engine over such a table, its journal, the proof by reboot | `MCInstaller` (with `StepTable`) | `Installer_proofs` |
| `Backup` | the night's backup, its retry, the restore test and batches over one lock | `MCBackup` | `Backup_proofs` |
| `Budget` | the split of memory, in exact integers | | |
| `BrainSlot` | one manifest applied over another, with `Budget` | `MCBrainSlot` | `Slices_proofs` |

Common conventions. A label in `pc` (or in a record's field `at`) is a point
where another process, a kill or a reboot may step in; code between two labels
touches one file or one setting. History variables (marked "history" at their
declaration) record what properties speak of and guard no action. Time is a
number of ticks, or an action that may occur at any moment from the time on at
which the code allows it.

**Lockdown.** Variables are the files under `/var/lib/pskit/lockdown`
(`pending`, `confirmed`, `applied`, `reverted`, `snap`), the three settings
(`dropin` on disk, `sshd` as it runs, `fw`), the timer, and a program counter per
process. `apply()` is `Start` and the labels `arm, enable, dropin, firewall,
reload, mark`; its exception handler is `Aborting` after `Restoring`;
`revert_if_due` is `Reverting`, `finalize` is `Finalizing`, and both processes run
the same actions (`Settle(p)`). `ConfirmCheck` and `ConfirmWrite` are the two
halves of `confirm()`, apart because its checks are made on a record that may be
gone when it writes. `Killed` ends the installer anywhere; `Reboot` ends
everything and restarts the timer's countdown as systemd does. `Faults` names the
adverse conditions a run admits: a restore that raises, a command that fails
without the code looking (ufw in a restore, the reload of sshd in either direction,
the restart of a timer that has elapsed), a timer service that overlaps `apply()`;
the history variable `faulted` says that one of them has come true, `missed` that
sshd missed a reload of the present attempt. That `systemctl disable --now` of the
timer fails is no fault: `Disarm` may always leave the timer as it is. What is in the
sshd drop-in and in the firewall's rules (`ssh_rule`, `decide_keep_rules`) is
abstracted to "prior" and "closed".

**LockdownPromise** is the abstract specification: a trial that is kept only by
way of a confirmation and otherwise ends by itself. `phaseBar` is the refinement
mapping.

**Notify.** `Enqueue` is any producer. `Acquire` takes the lock and the listing;
`Deliver(d)` is what one deliverer does with the first message of its list:
parse, cooldown, digest or send, keep for retry, unlink. `Crash(d)` is its death,
`FlushRead, FlushSend, FlushTruncate` the daily run. A slip is a death or a lost
answer of the channel.

**Bridge.** `Plan, Send, Update, Save` of the laptop, `Receive` of the server with
its labels, `Fail` for a cut or a kill of either side, `AppendBlock`, `Replace` and
`Rewrite` for the agent that writes the file: at its end, as a new file under the
name, or anew in place, under the inode it has. The history `gen` counts the last
two; `blind` says that the file was rewritten where the laptop is not bound to
notice - in the middle of a push, or with the bytes its hash covers unchanged - and
was not sent whole since. Contents are sequences of blocks, so that
"the inbox copy is the file" is equality; `TailHash` is the hash of the last
4096 bytes.

**Pressure.** One action per kind of cycle (`Release`, `BadCycle`, `GoodCycle`),
`Work` for the steps of freeze and thaw slice by slice, `Stop` for the signal
handler, which may come between any two of them, `Kill` and `StartGuard`.

**Alerts.** `Begin` is a run up to the end of `process`, with every combination of
values and levels its probes can report; `Queue`, `Note` and `Save` are the three
writes that follow; `Hours` lets time pass. `graded` is translated as an operator
over integers.

**Ledger.** `InstallFile`, `Install` with its labels `create, record, backup,
enter, replace` for the file and `note` for the other thing - a line of fstab, a
directory, a user, a group, a membership, the swap file, an enabled unit: all of
them are made if they are not there, then recorded, and undone by name.
`Uninstall`, `Undo` with `undo, purge, forget`; `OwnerLeaves` and `OwnerTurns` are
whatever the owner does. Installs of two versions and uninstalls come in any
order. Things are independent of each other, so one of each kind stands for all.
An undo may fail: `PassOver` is the handler that warns and goes on, `UndoOtherFails` a
command whose status nobody looks at; `skipped` and `other.failed` remember it, since
the ledger that `Forget` then removes does not.

**Pairing.** The laptop's `run` (ask, wait at most 20 seconds, replace its old
keys, move the staged ones in), the server's one thread (accept, read the body,
check the code, write `authorized_keys`, give it back to its owner, the ledger,
`devices.json`, answer), the forget-device command, which gives the file back to
whoever owned it before, and kills of each; `torn` says that one fell between the
writing of the file and the giving back. A laptop that is killed closes its
connection; one that vanishes, its power or its network gone, leaves it open and
silent. The three keys of a laptop are one number.

**StepTable.** One row per step of `linux_steps()`: the parts its `apply()` makes
in their order, those its `check()` looks at, those of other steps it works
with; parts that may come to nothing unnoticed (`slips`), that `check()` itself
makes (`mends`), that it takes for those of another answer (`outlives`: any
manifest's record of units will do for `brain-slot`); whether `verify()` looks again, whether `apply()` may decline,
whether the journal's word is part of `check()`.

**Installer.** `Start` loads the journal; `Pass, Skip, Begin, Apply, ApplyReturns,
ApplyDeclines, Verified` are the engine's loop over `Rows`; `Fails` is a problem, an
exception or Ctrl-C. `apply()` goes part by part and may be cut short between any
two. The last step, the proof, has its three answers (`ApplySkipped, ApplyNow,
ApplyReboot`), and `after_boot` is `Read, Check, WriteReceipt, RemovePending, Tell`,
run by the unit (`"boot"`) and by hand or from the installer (`"hand"`), possibly
at once, each killed anywhere. Of a prover the model remembers whether it `knows` of
the proof that was armed last; `armed` is the boot that was armed in, until its
report, and `lost` says that nobody is left who knows of it. `Drift` takes a part out
at any time; `Renew` is the next run's other answer - another manifest - which
leaves of a step only the parts that outlive it. A machine begins with nothing
installed, or with everything.

**Backup.** Eight watches of three hours make a day; within a watch what is
possible comes in any order, and `Pass` goes to the next one when everything due
in this one has happened. `Fire` is a timer's service starting - at once, or
at boot, all three being `Persistent` - and `Take, GiveUp, Snapshot, ResticFails,
Forget, WriteSuccess, Ends, TimesOut` what a job does with the lock and the
repository; the receipt is written after the lock has gone, as in the code. A
batch of the brain takes the lock through `flock(1)`, without a limit of its own
on waiting. Ages are counted in watches up to `Old`.

**BrainSlot.** `Begin` to `Returns` is `pskit brain apply` in the code's order: units
that go, units that are installed, daemon-reload, enable and restart, the
record, then the budget slice by slice (`WriteSlice`: of the five files those whose
text depends on the peak) and its own daemon-reload. `RemoveUnit` and `Start` may do
less than they are told, `disable --now` and `restart` being commands whose status
nobody looks at; such units are `unseen` until a reboot, or a later command that
works. `CutShort` ends an apply at any point - `short` says: after the brain's
ceiling was raised and before the owner's was lowered - `Reboot` starts what is
enabled and loads what is written; `RunInstaller` is the installer's own recomputation of the budget. A unit
is known by the manifest its text was rendered from, on disk (`text`), in systemd
(`loaded`) and as a process (`running`).

**Budget.** `Compute` is `compute()` with fractions counted in parts of a MiB, so
that nothing is rounded but by `_round_down`.

## 3. Runs

### Runs that pass

| Run | Instance | Shows |
|---|---|---|
| `Lockdown_all` | 2 nonces (one lockdown before this attempt), 2 reboots, all three faults | until a fault comes true `SafetyNet`, `RevertedIsBefore`, `FailedApplyChangedNothing`, `Resolves` and that `Lockdown` implements `LockdownPromise`; whatever comes true, but an unseen failure of sshd's reload in that attempt, `KeptIsProved`: what is kept was proved by a login (484 000 states) |
| `Notify_all` | 2 messages of any severity, one key or none, 2 deliverers, outages, the digest, 1 slip | `NothingUrgentLost`, `OrderPreserved`, `RepeatsOnlyBySlip`, `OncePerCooldown`, `Drained` (15 000) |
| `Bridge_all` | files of up to 3 blocks of 2 values, 2 changes, 2 cuts, one connection at a time | `DeliveredMeansSame`, `InboxIsBeginning`, `Arrives` (1 058 000) |
| `Pressure_all` | two slices, the guard's own 6, 2, 60 and 60 cycles, 2 slips | `NeverFrozenForLong`, `HoldsOff`, `FrozenCanBeThawed`, `ThawsOnRecovery` (530 000) |
| `Alerts_all` | one measured key over values 0..9 with thresholds 4 and 7, a unit, a device, two runners, 1 kill | `OwnerKnows`, `NotRepeated`, `HoveringIsQuiet`, `SavedWasSaid` (123 000) |
| `Ledger_all` | two owner's and two kit contents, another thing, 3 acts of the owner, 4 installs, 2 kills or undos that fail | `Reversed`, `OriginalKept`, `NothingOfTheKitLeft`, `UninstallKeepsEdits` (1 867 000) |
| `Pairing_all` | two laptops, two sessions, 2 wrong codes, 2 key sets each, 1 kill of either machine | `NoOrphanKeys`, `PairedCanLogin`, `ListMatchesKeys`, `SessionEnds` (605 000) |
| `Installer_all` | the first step, the runtime and the proof, 2 runs, 2 boots, 1 proof by hand, kills anywhere | `AlwaysReports` (267 000) |
| `Installer_steps` | all 21 steps of `StepTable`, 2 runs cut short at any part, 1 part that goes again or 1 manifest that changes | `InOrder`, `PassedIsWhole`, `Supplied` (945 000) |
| `Backup_all` | 3 timers and a batch, any number of days, 2 power cuts | `OneAtATime`, `GapIsTold`, `ReceiptIsHonest` (1 002 000) |
| `BrainSlot_all` | 2 services, 4 manifests, 3 applies, 3750 and 32768 MiB with CI, 1 command that fails unseen | `InForce`, `NoStrays`, `BudgetHolds` (4 168 000) |

`TypeOK` (`GuardTypeOK`, `PairTypeOK`) documents each module's variables; it is proved for `Lockdown`,
`Notify`, `Pressure` and `Pairing`, and is a part of the invariants proved of
`Alerts` and `Bridge`.

### The run that finds a disagreement

| Run | Property | The code against its own words |
|---|---|---|
| `Notify_cooldown_loss` | `SuppressedWasTold` | `notify.py:10-12`: suppressed "while an identical key was sent within its cooldown", "an outage of the channel loses nothing". The key is recorded before the send (`notify.py:172`); if the send fails the retried message meets its own cooldown, is dropped, and nobody was told. |

### Bounds, and why they are enough

- *Nonces and reboots (Lockdown).* The code compares nonces for equality with the
  last one only, so one earlier lockdown and one attempt show every relation
  between records; two reboots let one fall into the undo the other started.
  The four safety invariants are also proved without bounds.
- *Two messages, two deliverers (Notify).* Ordering, repeats and cooldowns are
  relations between two messages; the lock is between two holders. The four
  invariants are proved for any numbers.
- *Three blocks (Bridge).* An old length, a tail cut in the middle, a rest. With
  `TailBlocks = 2` there are files that the hash covers, as it does those below
  4 KiB, and files with a beginning before it. The two invariants are proved for
  files and tails of any length.
- *Pressure* runs the real constants. Two slices are the code's own list.
- *Values 0..9 (Alerts)* have room for the margin of 2 on both sides of both
  thresholds; `Repeat = 2` and `DigestGap = 1` keep the two clocks apart.
- *Ledger.* Two contents on each side tell "the same as before" from "another
  version"; four installs let an upgrade follow a reinstallation. Kills, which share
  their bound with the undos that fail, are where
  the ledger and the machine agree, or where the history variables note that they
  do not; section 6 has the rest.
- *Pairing.* Two attempts instead of five, since only reaching the limit matters;
  two key sets since a laptop stages at most one while it holds another. The three
  invariants are proved without bounds.
- *Installer.* All steps are there where steps matter. In `Installer_steps` one
  step may decline (`alerts`), no proof is made and no reboot comes: an engine that
  starts over after a reboot is an engine that starts over. In `Installer_all` the
  steps are an account and the one that enables the proof's unit; two boots since
  the proof compares with the last one. The three invariants are proved for any
  table; that the kit's own is `WellMade` and `WellOrdered`, as two of the proofs
  suppose, `MCInstaller` asserts and TLC evaluates in both runs.
- *Backup.* No bound on days: ages stop at 19 watches, one more than `GapIsTold`
  compares with (two days of eight watches, and a run of six hours). Two power
  cuts, since the property excuses a second one after the same snapshot; a batch's
  own timeout is two watches, longer than anybody waits for the lock.
- *BrainSlot.* The code sees only the record and the manifest at hand, so three
  applies - one on record, one cut short, one that returns - show every
  relation between them. The manifests change a service between all three kinds,
  and one declares a peak that does not fit. Units are taken in an order that is
  always the same, as in the code. One unseen failure at a time: the properties speak
  of single units. CI only takes a fixed share away; the theorems have machines with
  and without it.

Where a bound might hide something, the proofs help: every invariant a run
checks is a theorem without the bounds (section 4).

`CHECK_DEADLOCK FALSE` stands where the system really may stop: an attempt at
the last nonce, a queue that is empty and a file that rests once the bounds are
used up, a session nobody opens, an installer that has finished, a last manifest.
The guard, the health timer and the backup's timers never stop, and their runs
check for deadlock.

### Fairness, and what justifies it

| Module | Fairness | Because |
|---|---|---|
| Lockdown | the timer elapses; the service it starts, and an installer inside `apply()` or an undo, run on | systemd starts them, and their commands have timeouts. Nobody has to confirm, to log in, to rerun the installer or to leave it alive. |
| Notify | each deliverer starts and goes on (weak), a send offered again and again succeeds (strong) | the path unit, the five-minute timer and the 15-second timeout of a send; a channel that is not down for ever |
| Bridge | a push is planned, goes on, its receiver goes on (weak) | the job runs every 15 minutes; changes and cuts are bounded by the model, so `Arrives` speaks of a file that comes to rest |
| Pressure | a cycle or a restart (weak) | the unit has `Restart=` and the loop no exit |
| Pairing | the server's thread, its deadline, forget-device, and a connected laptop that is there and sends or gives up (weak) | the laptop's 20-second timeout, the server's clock. Nothing is assumed of a laptop that vanished: `SessionEnds` excepts the session it holds (`Stuck`) |
| Installer | `after_boot`, run by the unit or by hand, goes on unless it is killed (weak) | its checks end by a deadline, and it waits for nobody |

`Alerts`, `Ledger`, `Backup` and `BrainSlot` state no liveness and no fairness:
`Backup` bounds its gaps in time instead.

## 4. What is proved

All theorems are about the specification of their component without its fairness
(`Spec`, `GuardSpec`, `PairSpec`), for every value of the constants that the modules'
named assumptions admit. Those only say that bounds are natural numbers, that
"no key" is not a key, that the proof is not among the steps before it, and so on.

Two modules of proofs extend two components each: `Slices_proofs` is about how
memory is shared out among the slices (`BrainSlot`) and what freezes them
(`Pressure`), `Laptop_proofs` about how a laptop gets its keys (`Pairing`) and what it
does with them (`Bridge`). That is why the definitions of `Pressure` and `Pairing` have
names of their own (`GuardSpec`, `PairSpec`, ...). The components of a pair share no
variable, and no theorem is about their steps together.

| Theorem | States | Further assumption |
|---|---|---|
| `Lockdown_proofs!TypeCorrect` | `[]TypeOK` | none: with all faults |
| `Lockdown_proofs!SafetyNetHolds` | `[]SafetyNet` | none: it speaks of the time until a fault |
| `Lockdown_proofs!RevertRestores` | `[]RevertedIsBefore` | none, likewise |
| `Lockdown_proofs!FailedApplyRestores` | `[]FailedApplyChangedNothing` | none, likewise |
| `Lockdown_proofs!KeptWasProved` | `[]KeptIsProved` | none: with all faults, an sshd that missed its reload excepted by `missed` |
| `Lockdown_proofs!KeepsThePromise` | initial states and steps are `LockdownPromise`'s | none |
| `Notify_proofs!TypeCorrect` | `[]TypeOK` | none |
| `Notify_proofs!CooldownHolds` | `[]OncePerCooldown` | none |
| `Notify_proofs!NoUrgentLoss` | `[]NothingUrgentLost` | none: with the digest, deaths and outages |
| `Notify_proofs!NoLoss` | `[]NothingLost` | `~Flushing`: no digest runs |
| `Notify_proofs!OrderHolds` | `[]OrderPreserved` | none |
| `Notify_proofs!RepeatsArePaidFor` | `[]RepeatsOnlyBySlip` | none |
| `Alerts_proofs!HoveringSettles` | `[]HoveringIsQuiet` | none |
| `Alerts_proofs!OnRecordWasSaid` | `[]SavedWasSaid` | none |
| `Alerts_proofs!OwnerIsUpToDate`, `AtMostOnceADay` | `[]OwnerKnows`, `[]NotRepeated` | `InfoApart` |
| `Slices_proofs!TypeCorrect` | `[]GuardTypeOK` | none |
| `Slices_proofs!FreezesAreShort` | `[]NeverFrozenForLong` | none |
| `Slices_proofs!SlicesRest` | `[]HoldsOff` | none |
| `Slices_proofs!FrozenIsFound` | `[]FrozenCanBeThawed` | none |
| `Ledger_proofs!OriginalSurvives` | `[]OriginalKept` | `EndsWhole` |
| `Ledger_proofs!UninstallReverses`, `KitIsGone` | `[]Reversed`, `[]NothingOfTheKitLeft` | `EndsWhole` |
| `Ledger_proofs!EditsAreKept` | `UninstallKeepsEdits`, of every step | `EndsWhole` |
| `Installer_proofs!NothingPassedOver` | `[]InOrder` | none: for any table of steps |
| `Installer_proofs!RepairsButTheUnseen` | `[]PassedIsWhole` | `WellMade` |
| `Installer_proofs!FindsWhatItNeeds` | `[]Supplied` | `WellMade`, `WellOrdered` |
| `Backup_proofs!NeverPeakTogether` | `[]OneAtATime` | none |
| `Backup_proofs!ReceiptsTell` | `[]ReceiptIsHonest` | none |
| `Backup_proofs!NoSilentGap` | `[]GapIsTold` | none: for any number of days |
| `Slices_proofs!BudgetNeverExceedsRam` | `[]BudgetHolds` | none: for any machine that takes the reference split |
| `Slices_proofs!ReturnedIsInForce` | `[]InForce` | none |
| `Slices_proofs!NothingStrays` | `[]NoStrays` | none |
| `Laptop_proofs!DeliveredIsThere` | `[]DeliveredMeansSame` | `~Overlap` |
| `Laptop_proofs!CopyIsBeginning` | `[]InboxIsBeginning` | `~Overlap` |
| `Laptop_proofs!TypeCorrect` | `[]PairTypeOK` | `~ForgetOverlaps` |
| `Laptop_proofs!KeysAreHeld` | `[]NoOrphanKeys` | `~ForgetOverlaps` |
| `Laptop_proofs!PairedLogsIn` | `[]PairedCanLogin` | `~ForgetOverlaps` |
| `Laptop_proofs!ListAndKeysAgree` | `[]ListMatchesKeys` | `~ForgetOverlaps` |

The assumptions say where the code keeps its word:

- `~Flushing`: a digest that runs may lose a line (section 6). So may "until a
  fault", inside the lockdown's properties: with any one of the three faults TLC
  finds each promise broken afterwards.
- `InfoApart`: no probe of a plain key reports an info at one time and a problem
  at another, since a problem that turns into an info is not reported as cleared
  (section 6). Of the probes only that of `updates:reboot` (`checks.py:186`) does;
  of every other key the theorems hold.
- `~Overlap`: a push and its receiver are over before the next push starts. From
  the second push on the job's schedule sees to that, unless a dead connection's
  receiver still waits; the two pushes that pairing starts may overlap, and then
  `DeliveredMeansSame` fails (section 6).
- `~ForgetOverlaps`: the owner types no forget-device while a request is being
  handled, and no right code is taken up while the command runs. Nothing in the
  code prevents it but that both are short; section 6 tells what happens.
- `EndsWhole`: no kill falls between the removal of `host.json` and that of the
  ledger; section 6 tells what happens then.
- `WellMade` and `WellOrdered`, defined in `Installer`, are what a table of steps
  has to keep. A part of a step that no check of it sees ("hidden") needs an
  anchor: a part the check does see and that nothing but this step makes first, so
  that its presence tells that `apply()` was begun; and each part a step needs is
  made before, where the earlier step's check cannot miss it. The kit's 21 steps
  keep both, which TLC evaluates. Of a table that does not, the properties are false:
  the engine would pass over a step that never ran.

**The safety net.** `SafetyNet` is not inductive: the steps that disarm the timer
or remove the pending record are safe only because of what their process has
done before. `IInv` adds, label by label, what that is: `ApplyInv` (nobody else
works during `apply()`, and the timer counts before the first setting changes),
`RestoreInv` (the snapshot is the state before, and how far a restore has come),
`FinalizeInv` (whoever finalizes holds the last nonce, and it is confirmed), and
`Net`, which unlike `SafetyNet` survives a reboot, since it asks for an enabled
timer. TLC was given `IInv` as an invariant before it was proved, and so were the
invariants of the other proofs.

**Kept means proved.** `KeptStep` follows the confirmation the other way: whoever
confirms has logged in, whoever finalizes has read that confirmation, and no
fault writes one. A reload of sshd that failed unseen is the one thing that makes
such a login prove less than it should, so the invariant carries `missed` along.
The refinement is then a case analysis: each action maps to
the one step of `LockdownPromise` that changes `phaseBar`, or to none, and the
step that keeps the lockdown is allowed because of `KeptIsProved`.

**Nothing urgent is lost.** `LossInv` says that every message that counts is in
one of the two directories or settled (sent, in the digest, suppressed), and, of
the message a deliverer is at, that it is settled or kept for retry before it is
unlinked. It rests on `TypeInv`, whose `Shape` says that a deliverer at work has a
message, and on lemmas about the least element of a listing. A deliverer that
loses its claim to the message would break it; so `Shape` has to be carried along.

**One message per cooldown.** `CooldownInv` relates an admitted message to its
key: the key's cooldown runs and nobody has been told yet. It needs mutual
exclusion, or else two deliverers could both be admitted.

**Order.** `OrderPreserved` speaks of the past and says nothing of what is queued.
`QueueInv` ties a deliverer's listing, made when it took the lock, to the
directories as they are now: all of the retry directory, and of the spool all but
what came later; and nothing in the spool is older than what waits for a retry.
So the file at hand is the oldest queued (`CurrentIsOldest`), although the two
directories are worked through one after the other. `OrderInv` adds that what is
queued and was never sent is newer than everything sent; then each message sent
repeats one or is the newest (`NewestOrRepeat`), which is inductive, and the first
send of a message (`LeastIsFirst`) is no repeat.

**Repeats.** `RepeatInv` is an account: messages sent, and copies waiting in either
directory, against the different messages among them and the slips. A copy the
deliverer has dealt with and not yet unlinked does not count; a death at that
moment makes it count, and pays for it. `Account` says what each movement does to
the two sides, with the library's theorems on cardinalities.

**Alerts.** `AlertInv` says that a run holds the lock from its beginning to its end
(`Holder`), that what it is about to say was computed from what is still saved
(`Processed`), and that what it is about to save the owner has heard (`Heard`).
`Processing` is the table of what a finding leaves and says. For `OwnerKnows`
`Known` adds what the owner was last told; that a cleared problem was told as
such is where `InfoApart` comes in.

**Hovering.** Two readings that differ by no more than the margin settle the
level from any previous one: a case analysis over the two thresholds.

**The guard.** The properties are about what the kernel keeps frozen, the code goes
by markers and two clocks. `Place` says where freeze() and thaw() are in the list of
slices, `Clock` that the guard counts at least the time that really passed while
something was frozen, `Rest` that its hold lasts as long as the rest.

**The ledger.** The first entry says how the path came to be the kit's, later ones
only date it (`Shape`); `Original` says by that entry where the owner's content is -
in place, in the store, put aside - and `Where` what each label of an install or an
uninstall has behind it; `Agree` ties the disk to the entry written last unless a
kill, or an entry that was passed over and forgotten, tore them apart; `skipped`
carries the latter from the entry to the end of its uninstall. An uninstall reads the entries backwards, `Backwards` is the
lemma on the sequence.

**Nothing passed over.** `IInv` adds to `InOrder` where the installer may stand
(`Place`) and that a receipt that says ok comes from a proof that held
(`Honest`). The lemma `GoOn` is the core: going on to the next step keeps
`InOrder` if the present one stands, which `Skips`, `Verified` and `Pass` each
guarantee. Every other action keeps the place (`MovesTo`, `Stays`) or ends the
run (`GoesOff`).

**Whole steps.** What a check sees says nothing of a hidden part by itself. `PartsInv`
has it follow from the order in which `apply()` makes the parts: an anchor that
stands tells that `apply()` was begun (`Anchored`), the journal's "done" that it came
to its end (`Word`), a visible part that the hidden ones before it are there
(`Sequel`). So a step that was passed has all that its check sees, and lacks a
hidden part only if it was cut short behind the last visible one
(`PassedLacksTheUnseen`). A part that outlives another answer tells nothing once the
answer has changed (`Telling`), which is why such a step must share its parts with
nobody. What a later step needs is not among those by
`WellOrdered`.

**Backups.** Whoever works holds the lock (`Running`); a receipt is written by a run
that has made a snapshot (`Receipts`). `Gap` bounds the age of the newest snapshot
by the watch of the day - with nothing missed, and with one run missed - and
`Late` says which runs can have begun at another watch than their timer's.

**The brain's units.** `UnitsInv` follows an apply through its stages: which units
the record and the running apply account for (`Accounted`), and which are
removed, rendered, loaded and started by now (`Applying`, `Applied`). A unit that is
gone, or started, is so up to a command that failed unseen (`Clean`, `Started`), and
the invariant is one that a later command that works, or a reboot, restores in full.

**Delivered is there.** The properties speak of the saved state, the inbox and the
file as they are now, while a push works from what it read earlier. `Alone` has one
push at a time, so what it loaded is the state on disk and what it plans to append
to is the inbox as the last push left it (`UnderWay`); the others rest (`OthersRest`)
and need no second look. `StillThere` follows the bytes: as long as the planned file
has the name it only grew, so the bytes on the wire are still its bytes from the
offset on, and "ok" means that the inbox ends where the plan did. Once the file is
replaced or rewritten nothing at all is claimed of the inbox until it is saved as
delivered. `Beginning` therefore speaks of a file that was only ever appended to,
which is `InboxIsBeginning`, and of one that is saved, which `DeliveredMeansSame`
needs. A rewriting in place between two pushes either changes the bytes the saved hash
is of, so that the next plan sends the file whole, or leaves what was delivered a
beginning of it, the hash being of all that was; every other one is `blind`.
`SelectBytes`, `IsPrefix` and `Min` are characterised once
(`BytesSelected`, `PrefixElements`, `PrefixExtended`, `LesserOfTwo`), and
`ReceivedIsBeginning` has the case of a stream cut anywhere.

**Keys are held, and revoked.** The server writes two files and the ledger one after the other, the
laptop two folders, and either may be killed or stop waiting between any two. What
ties them together is the key set that a request asks for. As long as the session
has no result, it is the one its laptop has staged, and that laptop is not replacing
anything (`Requests`): so whatever the server writes, the laptop can still find
(`NoOrphanKeys`). A laptop that replaces its keys was answered, hence the staged set
is the accepted one (`Replacing`), and dropping the old keys before the new ones are in
place is safe for the same reason. `Reading` follows
the owner of the file, too, through the two steps of each rewriting: forget-device may only
give back what it found, so the file can be root's for good only after a kill
(`torn`), and until a device is paired, since pairing gives it to the owner whoever
had it. `Written` says that the lines are there before the
device is listed, `Listed` what is left of a device that was forgotten, and `Reading`
that what the server or forget-device has read is still what the file holds - which is
just what `~ForgetOverlaps` is for.

**The budget.** `Shares` shows that the brain's share, the margin and CI's leave the
rest to the user, `RoundsDown` that rounding only takes away; `CeilingsBelowRam`
adds them up - also where the brain's file is for a smaller peak than the owner's, as
between two of the writes - and `PeakFits` has the brain's part of it, whose minimum
and maximum the code applies before it rounds. `IInv` says of every file, on disk and
as loaded, that it is a `Compute` of some peak that fits, and that the brain's is for
more than the owner's only between the two writes (`Stretch`) or after a cut there.

**Only model-checked.** Liveness (`Resolves`, `Drained`, `Arrives`,
`ThawsOnRecovery`, `SessionEnds`, `AlwaysReports`) and the half of the refinement of
`LockdownPromise` that is about fairness: fairness means ENABLED, which the
prover cannot handle. That the kit's own table is `WellMade` and `WellOrdered` is a fact about that table
and is computed.

## 5. What is not modelled

- The reaper (a filter over the processes of one moment, two signals) and the
  cache sweep: no state. Three seconds lie between SIGTERM and SIGKILL
  (`runtime/reaper.py:182`), in which a pid could be given to another process
  only if the kernel handed out all of them.
- The planning of a push over many files (`bridge.py:146`): one file is modelled. A
  file that is refused or unreadable every time stays the oldest of every plan.
- Of uninstall: purging the owner's data, undoing the lockdown on request, the
  laptop's side. Of the ledger: entries that are never undone (packages, the owner's
  account and directories).
- Of the backup: a run by hand, what belongs to the set, what a restore test
  finds. Of the brain slot: the validation of a manifest's fields, done before
  anything is written, `wait_healthy`, and two applies at once.
- Read-only reports, set-up in a straight line, texts, parsing and host access:
  no state of their own, or no order of steps that could go wrong. What they
  measure or change appears as a nondeterministic value (a check is good or bad,
  an apply works or not).
- The bodies of messages, of the sshd drop-in, of firewall rules and of
  `authorized_keys` lines: opaque.
- Threads: there are none but those of the standard library's HTTP server, which
  is single-threaded here.

## 6. Disagreements met on the way

Found while translating, reproduced in the model by relaxing a constant, or read
off the code where a model would only restate it. The one of section 3 has a run.

Lockdown
- A restore that raises inside `apply()`'s handler is followed by disarming the
  timer all the same (`lockdown.py:193`): changed, and without its net.
- The ufw command of a restore may fail unnoticed; the undo is recorded as done
  (`lockdown.py:161`). So may the reload of sshd (167-169, no reload at all if
  `is-active` fails): on the way back the undo is on record while the hardened sshd
  runs on; on the way in the laptop's login proves the firewall and the old sshd, the
  lockdown is kept, and the next reload or reboot closes what nobody logged in
  through, against `docs/SECURITY.md:8`. Without `missed` in it, TLC finds
  `KeptIsProved` violated.
- That restarting the timer worked is not looked at (249); of a timer that elapsed in
  an earlier attempt the next one then has none. Nor is `disable --now` (254): a timer
  left on fires into a settled attempt, which does no harm.
- If `apply()` outlasts the ten minutes, or the service started by an older timer
  is late, the undo runs in its middle; `apply()` then closes the machine without a
  timer (`lockdown.py:202, 297`, against 176-179).
- `linux/steps_net.py:201` tells the owner "restored" even if `revert_if_due` found
  the confirmation and finalized. A confirmation written after `revert_if_due` has
  looked is undone (`lockdown.py:292`).

Alert delivery
- `notify.py:8`: an info message is "one line in the daily digest". `flush_digest`
  reads, sends, then truncates (`notify.py:322`): a line appended in between is
  gone. With `NothingLost` as an invariant `Notify_all` finds it.

Bridge
- `docs/HOST-BRAIN-CONTRACT.md:59`: "every agent session arrives". Pairing loads the
  job, which pushes at once, and pushes itself (`device/pair.py:264`): of two
  versions of a growing file the shorter may be stored last while the longer is on
  record as delivered. With two pushes and `Overlap = TRUE`, TLC finds
  `DeliveredMeansSame` violated.
- The receiver of a connection whose laptop is gone may append its bytes after
  the next one's (`bridge.py:329`).
- A file rewritten in place with a longer one, equal in the 4096 bytes before its
  old end, counts as grown (`bridge.py:154`).
- A file rewritten in place while it is being sent: `update_state` hashes the new
  bytes (`bridge.py:355`) although the old ones were sent. If it grows, every later
  push appends its tail to the old copy, and the two never meet again. Without `blind`
  in them TLC finds `DeliveredMeansSame` and `Arrives` violated.

Pressure
- A guard killed with slices frozen leaves the next one without `frozen_at`: the
  30-minute limit starts no more (`pressure.py:74`). A signal between a freeze and
  its marker (109), or a thaw that fails (119), leaves a frozen slice unknown.

Alerts
- A run killed after queueing and before saving is repeated by the next, or its
  "cleared" is never said (`health.py:55-60`). A problem that turns into an info is
  not reported as cleared (`alerts.py:102`).

Ledger
- Kills between a file's write and its entry, or between entry and write
  (`state.py:123, 131, 152, 172`; `linux/steps_base.py:33, 91-101`; `linux/apt.py:35`),
  leave the two in disagreement: a user, group or line made and not recorded
  stays after an uninstall, against `docs/INSTALLER.md:16`.
- An uninstall killed after `host.json` is gone leaves a ledger that makes a later
  install overwrite the owner's file without a backup (`uninstall.py:133`,
  `state.py:111`). `host.json` goes before the users, groups and directories that
  were made before it; a kill there leaves them, and uninstall refuses to run again
  (`uninstall.py:39`).
- What the owner makes again of a thing the kit had made and recorded, an uninstall
  takes for the kit's.
- An entry whose undo raises is warned about and passed over (`uninstall.py:124`), and
  the commands among the undos (`disable`, `swapoff`, `gpasswd`, `userdel`, `groupdel`,
  106-115) are not looked at: a user with a process of his own stays. The ledger is
  removed all the same (138), so no later uninstall makes up for it.

Pairing
- forget-device and a request in hand read, change and write the same files
  without a lock (`server/keys.py:73, 87`): the lines of a forgotten device come back
  with another laptop's request that had read them before, against
  `docs/SECURITY.md:9`: "revokes all three at once". With `ForgetOverlaps = TRUE`, TLC
  finds `ListMatchesKeys` violated.
- The server reads a request without a timeout: a laptop that connects and then
  vanishes keeps the session open beyond its 15 minutes (`server/pairing.py:141`,
  against `docs/SECURITY.md:11`). `SessionEnds` excepts just that (`Stuck`); without it
  TLC finds the session open for ever.
- `authorized_keys` is replaced by a file of root's and then given to its owner
  (`server/keys.py:80` by way of `system.py:234-242`, and 91-94). A kill in between
  shuts every paired laptop out until one is paired anew. forget-device does not repair
  it: it gives the file back to whoever it finds as the owner.

Installer
- `check()` looks at less than `apply()` makes: an `apply()` cut short behind the last
  part it sees is taken for done by the next run, against `docs/INSTALLER.md:10-15`.
  An owner's account whose password was never set (`linux/steps_base.py:33`), a swap
  file missing in fstab (208). `PassedIsWhole` says exactly which.
- If `tailscale` does not answer at that moment, an empty address is saved
  (`linux/steps_net.py:68`) and the step is done.
- If it is the step `runtime`, the proof's unit is not enabled
  (`linux/steps_ops.py:116`): the proof is armed, the machine reboots, nothing
  reports.

Backup
- The retry looks at the receipt before it waits for the lock
  (`runtime/backup.py:146`). After an outage both timers elapse at boot; the retry
  then repeats a backup that has just succeeded (`docs/STRUCTURE.md:102`).
- A run that makes up for an outage may still be going at 01:15; the timer starts
  nothing then, and that night has no backup of its own. `GapIsTold` allows for it:
  two days and a run, not one.
- A power cut in the middle of a run leaves neither a receipt nor a message; the
  retry makes up for one.
- The restore test reports a failure that is none if a file changes between its
  `stat` and its hash (`runtime/backup.py:244-262`), or the lock stays busy.
- A resident service with `heavy_lock` holds the lock for as long as it runs.

Brain slot
- An apply cut short before the record is written leaves units that the next
  manifest does not remove (`brainslot.py:92`), against
  `docs/HOST-BRAIN-CONTRACT.md:104`. `NoStrays` leaves out just those.
- The installer's step takes the manifest's text and any record for proof
  (`linux/steps_ops.py:138`), an earlier manifest's too: an apply of a changed manifest
  that was cut short after its text was written (`brainslot.py:72`) is passed over by
  the next run, its units not applied. `PassedIsWhole` allows for it by `outlives`.
- `systemctl disable --now` of a dropped service is not looked at (`brainslot.py:76`);
  its file goes and the record forgets it, and it runs until a reboot, against
  `docs/HOST-BRAIN-CONTRACT.md:104`. Nor is `systemctl restart` (86): the apply returns
  and the older command runs on, or none. `NoStrays` and `InForce` except both by
  `unseen`.
- `memory-budget` writes one slice after the other (`linux/steps_base.py:264-268`).
  Where it raises the brain's ceiling and is cut before it lowers the owner's, a reboot,
  or any daemon-reload, loads ceilings that together exceed RAM, until it is run again.
  `BudgetHolds` excepts that by `short`; without it TLC finds the reboot.
- A service that was resident and is now scheduled keeps its `.service` enabled and
  running (`brainslot.py:75`: the unit is still listed).
- `docs/HOST-BRAIN-CONTRACT.md:48` has `pskit with-lock`; the code uses
  `/usr/bin/flock` (`brainslot.py:37`).
- With 3.5 to 3.7 GiB and CI, preflight accepts a machine for which `compute()`
  raises.

Proof
- A kill or a power cut between the removal of the pending file and the message loses
  the report (`prove.py:122`, against "always reports" of 94-96).
- Resuming the installer while prove-boot checks arms anew; prove-boot then
  removes that pending file, and that proof is never reported. `AlwaysReports` excepts
  both, and the unit that was never enabled, by `lost`; without it TLC finds each.
- A receipt written by `pskit prove --no-reboot` satisfies the installer's proof.

## 7. Plan

Done: the modules of section 2, in the order of what an error would cost - losing
access (`Lockdown`), losing alerts (`Notify`, `Alerts`), losing sessions (`Bridge`),
frozen work (`Pressure`), the owner's files (`Ledger`), keys (`Pairing`), the engine
and its steps (`Installer`, `StepTable`), backups (`Backup`), the brain and its memory
(`BrainSlot`, `Budget`).

Proved since: every invariant and action property that a run checks, and the
safety half of the refinement of `LockdownPromise`.

Next: the plan of a push over many files, with its limits of size and its oldest
file; what remains true of `Bridge` when pushes overlap; `Pairing` without
`~ForgetOverlaps`, should the code lock the two files.
