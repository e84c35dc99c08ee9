------------------------------- MODULE Backup -------------------------------
(***************************************************************************)
(* The nightly backup, its retry in the evening and the weekly restore     *)
(* test (run_backup, restore_test and HeavyLock of                         *)
(* pskit/runtime/backup.py, their timers and services), with the brain's   *)
(* batches, which take the same lock through flock(1).                     *)
(*                                                                         *)
(* The day has eight watches of three hours; what is done within a watch   *)
(* has any order.  An age in watches may be two hours and more off: where  *)
(* it is compared with a limit, both answers are taken near the limit.     *)
(* What is backed up, and what the restore test finds in it, is left out.  *)
(*                                                                         *)
(* An operator nothing else uses is a fault a property must detect in the  *)
(* definition after it.                                                    *)
(***************************************************************************)
EXTENDS Naturals, FiniteSets, FiniteSetsExt

CONSTANTS
  Old,        \* bound: no age is counted beyond it
  BatchLimit, \* a batch's timeout, in watches
  MaxCuts     \* bound: power cuts

ASSUME BackupAssumption == {Old, BatchLimit, MaxCuts} \subseteq Nat /\ Old > 8

VARIABLES
  watch,    \* of the day
  up,       \* the machine is on
  due,      \* the timers that have elapsed and not started their service
  at, since,\* each job: where it is, and in how many watches it has been
  lock,     \* who holds heavy.lock
  snapshot, \* the age of what the newest snapshot holds
  success,  \* the age of the success receipt
  told,     \* history: a failure was told since the run began that made the
            \* newest snapshot, or may make the next one
  missed,   \* history: since that snapshot, power cuts and watches spent off,
            \* two being many
  cuts

jobs == <<at, since, lock>>
kept == <<snapshot, success, told, missed>>
vars == <<watch, up, due, jobs, kept, cuts>>

(* The timers' watches: 01:15, 19:30 and 04:30 on Sundays.  All are        *)
(* Persistent: one that elapses while the machine is off starts its        *)
(* service at boot.                                                        *)
TimerWatch == [night |-> 0, retry |-> 6, test |-> 1]
Timers     == DOMAIN TimerWatch
Backups    == {"night", "retry"}
Jobs       == Timers \cup {"batch"}

(* TimeoutStartSec: six hours, four for the test.                          *)
UnitLimit  == [j \in Jobs |-> IF j = "batch" THEN BatchLimit ELSE 2]
StaleLimit == 6

Older(age) == IF age < Old THEN age + 1 ELSE Old
Miss       == IF missed < 2 THEN missed + 1 ELSE 2
Holding    == {"restic", "forget", "test", "batch"}

Init ==
  /\ watch = 4 /\ up = TRUE /\ due = {}
  /\ at = [j \in Jobs |-> "off"] /\ since = [j \in Jobs |-> 0]
  /\ lock = "free"
  /\ snapshot = 0 /\ success = 0    \* setup_backup made the first one
  /\ told = {} /\ missed = 0 /\ cuts = 0

----------------------------------------------------------------------------
Moves(j, to) == at' = [at EXCEPT ![j] = to]
Stops(j)     == Moves(j, "off") /\ since' = [since EXCEPT ![j] = 0]
Starts(j)    == Moves(j, "wait") /\ since' = [since EXCEPT ![j] = 0]

UnlocksAnyway(j) == lock' = "free"
Frees(j)         == lock' = IF lock = j THEN "free" ELSE lock

(* A retry looks at the receipt before it waits for the lock.              *)
AlwaysRecent == {TRUE}
Recent         == {b \in BOOLEAN : IF b THEN success <= StaleLimit ELSE success >= StaleLimit}

(* A timer whose service still runs starts nothing.                        *)
Fire(j) ==
  /\ up /\ j \in due
  /\ due' = due \ {j}
  /\ \E recent \in IF j = "retry" THEN Recent ELSE {FALSE} :
       IF at[j] = "off" /\ ~recent THEN Starts(j) ELSE UNCHANGED <<at, since>>
  /\ UNCHANGED <<watch, up, lock, kept, cuts>>

Batch ==
  /\ up /\ at["batch"] = "off"
  /\ Starts("batch")
  /\ UNCHANGED <<watch, up, due, lock, kept, cuts>>

(* flock, tried every ten seconds.                                         *)
Take(j) ==
  /\ at[j] = "wait" /\ lock = "free"
  /\ at' = [at EXCEPT ![j] = IF j \in Backups THEN "restic" ELSE j]
  /\ lock' = j
  /\ told' = IF j \in Backups THEN told \ {"next"} ELSE told
  /\ UNCHANGED <<watch, up, due, since, snapshot, success, missed, cuts>>

TellsNobody(j) == told' = told

(* BackupError: a failure receipt and a message for the owner.             *)
Tells(j) == told' = IF j \in Backups THEN {"newest", "next"} ELSE told

(* An hour's wait, an hour and a half's for the test; flock(1) waits on.   *)
GiveUp(j) ==
  /\ at[j] = "wait" /\ lock # "free" /\ j # "batch"
  /\ Stops(j) /\ Tells(j)
  /\ UNCHANGED <<watch, up, due, lock, snapshot, success, missed, cuts>>

(* restic backup: 0, or 3 with some files unread, made a snapshot of what  *)
(* was there when it began, or a little later if it had to wait.           *)
Snapshot(j) ==
  /\ at[j] = "restic"
  /\ Moves(j, "forget")
  /\ snapshot' = since[j] /\ missed' = 0
  /\ told' = IF "next" \in told THEN {"newest"} ELSE {}
  /\ UNCHANGED <<watch, up, due, since, lock, success, cuts>>

ResticIgnored(j) ==
  /\ at[j] = "restic"
  /\ Moves(j, "forget")
  /\ UNCHANGED <<watch, up, due, since, lock, kept, cuts>>

(* It fails or takes longer than the kit lets it.                          *)
ResticFails(j) ==
  /\ at[j] = "restic"
  /\ Stops(j) /\ Frees(j) /\ Tells(j)
  /\ UNCHANGED <<watch, up, due, snapshot, success, missed, cuts>>

(* restic forget, whose failure is only noted; then the lock goes.         *)
Forget(j) ==
  /\ at[j] = "forget"
  /\ Moves(j, "receipt") /\ Frees(j)
  /\ UNCHANGED <<watch, up, due, since, kept, cuts>>

WriteSuccess(j) ==
  /\ at[j] = "receipt"
  /\ Stops(j) /\ success' = 0
  /\ UNCHANGED <<watch, up, due, lock, snapshot, told, missed, cuts>>

(* The restore test, whatever it finds, or the batch is over.              *)
Ends(j) ==
  /\ at[j] \in {"test", "batch"}
  /\ Stops(j) /\ Frees(j)
  /\ UNCHANGED <<watch, up, due, kept, cuts>>

(* systemd's timeout kills the unit's processes, restic among them; the    *)
(* unit has failed, which the health check tells.                          *)
TimesOut(j) ==
  /\ at[j] # "off" /\ since[j] >= UnitLimit[j]
  /\ Stops(j) /\ Frees(j) /\ Tells(j)
  /\ UNCHANGED <<watch, up, due, snapshot, success, missed, cuts>>

Job(j) ==
  \/ Take(j) \/ GiveUp(j) \/ Snapshot(j) \/ ResticFails(j) \/ Forget(j)
  \/ WriteSuccess(j) \/ Ends(j) \/ TimesOut(j)

(* Everything stops and leaves no trace; a timer that has elapsed and was  *)
(* served does not elapse again at boot.                                   *)
PowerCut ==
  /\ up /\ cuts < MaxCuts
  /\ up' = FALSE
  /\ at' = [j \in Jobs |-> "off"] /\ since' = [j \in Jobs |-> 0]
  /\ lock' = "free"
  /\ cuts' = cuts + 1 /\ missed' = Miss
  /\ UNCHANGED <<watch, due, snapshot, success, told>>

Boot ==
  /\ ~up /\ up' = TRUE
  /\ UNCHANGED <<watch, due, jobs, kept, cuts>>

(* Within the watch a timer elapses in, its service starts; who waits      *)
(* takes a free lock, or gives up in the next watch; limits take effect.   *)
Settled ==
  /\ due = {}
  /\ \A j \in Jobs :
       /\ at[j] = "wait" => lock # "free" /\ (j \in Timers => since[j] = 0)
       /\ at[j] # "off" => since[j] < UnitLimit[j]
       /\ at[j] # "receipt"

Pass(sunday) ==
  /\ up => Settled
  /\ watch' = (watch + 1) % 8
  /\ due' = due \cup {j \in Timers : TimerWatch[j] = watch' /\ (j = "test" => sunday)}
  /\ since' = [j \in Jobs |-> IF at[j] = "off" THEN 0 ELSE since[j] + 1]
  /\ snapshot' = Older(snapshot) /\ success' = Older(success)
  /\ missed' = IF up THEN missed ELSE Miss
  /\ UNCHANGED <<up, at, lock, told, cuts>>

Next ==
  \/ \E j \in Timers : Fire(j)
  \/ Batch
  \/ \E j \in Jobs : Job(j)
  \/ PowerCut \/ Boot
  \/ \E sunday \in BOOLEAN : Pass(sunday)

Spec == Init /\ [][Next]_vars

----------------------------------------------------------------------------
TypeOK ==
  /\ watch \in 0..7 /\ up \in BOOLEAN /\ due \subseteq Timers
  /\ at \in [Jobs -> {"off", "wait", "receipt"} \cup Holding]
  /\ since \in [Jobs -> 0..Max({2, BatchLimit})]
  /\ lock \in Jobs \cup {"free"}
  /\ {snapshot, success} \subseteq 0..Old
  /\ told \subseteq {"newest", "next"} /\ cuts \in 0..MaxCuts /\ missed \in 0..2

(* "A brain batch and a backup never peak together": of backups, restore   *)
(* tests and batches one at most is at work, whichever gives up, is        *)
(* killed, times out or is cut off while the others wait.                  *)
OneAtATime == Cardinality({j \in Jobs : at[j] \in Holding}) <= 1

(* "One missed night does not become a gap": the newest snapshot is never  *)
(* older than two days and a run unless the owner was told of a failure    *)
(* meanwhile, though a run may wait, run late, keep the next night's from  *)
(* starting or be ended by a power cut without a trace: the retry makes up *)
(* for one.  Two power cuts since that snapshot, or one that lasts beyond  *)
(* the watch, are out of what it promises.                                 *)
GapIsTold == "newest" \in told \/ missed > 1 \/ snapshot <= 18

(* The success receipt, by which the health check and the retry judge,     *)
(* never promises more than there is: there is a snapshot of what was      *)
(* there when that run began, or of later.                                 *)
ReceiptIsHonest == success < Old => snapshot <= success + 2

=============================================================================
