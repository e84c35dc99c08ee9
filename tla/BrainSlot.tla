----------------------------- MODULE BrainSlot -----------------------------
(***************************************************************************)
(* The brain's place on the host: `pskit brain apply` and the installer's  *)
(* step brain-slot turn a manifest into units and recompute the memory     *)
(* budget (pskit/brainslot.py, pskit/manifest.py, _brain of                *)
(* pskit/__main__.py, BrainSlot and MemoryBudget of pskit/linux).          *)
(*                                                                         *)
(* A manifest is what it declares: each service's kind and the peak of     *)
(* memory.  A unit's text, and what systemd runs of it, is the manifest it *)
(* was rendered from; a slice's file is the peak it was computed for.      *)
(* Anything may be cut short: a command that fails, a full disk, Ctrl-C, a *)
(* power cut.  Of two commands it is not even looked whether they fail.    *)
(*                                                                         *)
(* An operator nothing else uses is a fault a property must detect in the  *)
(* definition after it.                                                    *)
(***************************************************************************)
EXTENDS Naturals, Budget

CONSTANTS
  Services,
  Manifests,  \* what the brain ships: [id, kind : [Services -> ...], peak in MiB]
  None,       \* no manifest
  Rams, Ci,   \* the machines: MiB of RAM; whether the CI module is installed
  MaxApplies, \* bound: manifests applied
  MaxFails    \* bound: commands that fail unseen

Kinds == {"absent", "resident", "scheduled"}

ASSUME BrainAssumption ==
  /\ None \notin Manifests /\ {MaxApplies, MaxFails} \subseteq Nat
  /\ Manifests \subseteq [id : STRING, kind : [Services -> Kinds], peak : Nat]
  /\ Rams \subseteq Nat /\ Ci \subseteq BOOLEAN
  /\ \A ram \in Rams, ci \in Ci : Fits(ram, 0, ci)   \* preflight's limit

VARIABLES
  ram, ci,  \* the machine
  file,     \* brain-manifest.json
  record,   \* brain-units.json: the manifest whose units it lists
  text,     \* each unit's file: the manifest it is from
  loaded,   \* what systemd has loaded of it
  enabled,  \* the units started at boot
  running,  \* what each unit runs, or None
  written,  \* the slices' files: the peak each was computed for
  slices,   \* the limits in force, likewise
  job,      \* the apply: where it is, of which manifest, the units to go
  applies, fails,
  whole,    \* history: the last apply returned
  torn,     \* history: units an apply that was cut short left unrecorded
  unseen,   \* history: units that a command failed to stop or to restart
  short     \* history: cut short after the brain's ceiling was raised and
            \* before the owner's was lowered

machine == <<ram, ci>>
units   == <<text, loaded, enabled, running>>
budget  == <<written, slices, short>>
vars    == <<machine, file, record, units, budget, job, applies, fails, whole,
             torn, unseen>>

Units == Services \X {"service", "timer"}

Peak(m)     == IF m = None THEN 0 ELSE m.peak
Listed(m)   == IF m = None THEN {} ELSE {s \in Services : m.kind[s] # "absent"}
Resident(m) == {s \in Listed(m) : m.kind[s] = "resident"}

(* A service's unit, and its timer if it is scheduled.                     *)
UnitsOf(m) == (Listed(m) \X {"service"}) \cup ((Listed(m) \ Resident(m)) \X {"timer"})

(* expect_active: what the record has the health check look for.           *)
Expected(m) == (Resident(m) \X {"service"}) \cup ((Listed(m) \ Resident(m)) \X {"timer"})

(* Of the files of the step memory-budget, in order, those that depend on  *)
(* the peak: the slice above the brain's and CI's, and their ceilings.     *)
SliceFiles == {"parent", "brain", "user"}
OwnerFirst == [parent |-> "user", user |-> "brain", brain |-> "limits"]
Following  == [parent |-> "brain", brain |-> "user", user |-> "limits"]

Agree(files, peak) == \A f \in SliceFiles : files[f] = peak

(* The ceilings the files give, each computed for its own peak.            *)
CeilingsOf(files) ==
  Compute(ram, files["user"], ci).user + Compute(ram, files["brain"], ci).brain
    + Compute(ram, 0, ci).ci

Idle == [at |-> "off", man |-> None, todo |-> {}]

Init ==
  /\ ram \in Rams /\ ci \in Ci
  /\ file = None /\ record = None
  /\ text = [u \in Units |-> None] /\ loaded = text
  /\ enabled = {} /\ running = [u \in Units |-> None]
  /\ written = [f \in SliceFiles |-> 0] /\ slices = written   \* by memory-budget
  /\ job = Idle /\ applies = 0 /\ fails = 0
  /\ whole = TRUE /\ torn = {} /\ unseen = {} /\ short = FALSE

----------------------------------------------------------------------------
GoneIfWatched(m) == Expected(record) \ UnitsOf(m)

(* The units of the record that the new manifest has not.                  *)
Gone(m) == UnitsOf(record) \ UnitsOf(m)

(* load, which refuses a manifest before anything is written; the record   *)
(* is read before it changes.                                              *)
Begin(m) ==
  /\ job.at = "off" /\ applies < MaxApplies
  /\ applies' = applies + 1
  /\ file' = m
  /\ job' = [at |-> "remove", man |-> m, todo |-> Gone(m)]
  /\ whole' = FALSE
  /\ UNCHANGED <<machine, record, units, budget, fails, torn, unseen>>

Goes(at, todo) == job' = [job EXCEPT !.at = at, !.todo = todo]

(* The units one after the other, in an order that is always the same.     *)
First   == CHOOSE u \in job.todo : TRUE
Done(u) ==
  /\ job.todo # {} /\ u = First
  /\ job' = [job EXCEPT !.todo = @ \ {u}]

Turn(at, next, todo) == job.at = at /\ job.todo = {} /\ Goes(next, todo)

(* A command nobody looks whether it worked.                               *)
Unlooked(u, works) ==
  /\ works \/ fails < MaxFails
  /\ fails' = IF works THEN fails ELSE fails + 1
  /\ unseen' = IF works THEN unseen \ {u} ELSE unseen \cup {u}

(* disable --now, which may do neither or only the first; the file goes.   *)
RemoveUnit(u, disabled, stopped) ==
  /\ job.at = "remove" /\ Done(u)
  /\ (stopped => disabled) /\ Unlooked(u, stopped)
  /\ text' = [text EXCEPT ![u] = None]
  /\ enabled' = IF disabled THEN enabled \ {u} ELSE enabled
  /\ running' = [running EXCEPT ![u] = IF stopped THEN None ELSE @]
  /\ UNCHANGED <<machine, file, record, loaded, budget, applies, whole, torn>>

Install ==
  /\ Turn("remove", "install", UnitsOf(job.man))
  /\ UNCHANGED <<machine, file, record, units, budget, applies, fails, whole, torn,
                 unseen>>

InstallUnit(u) ==
  /\ job.at = "install" /\ Done(u)
  /\ text' = [text EXCEPT ![u] = job.man]
  /\ UNCHANGED <<machine, file, record, loaded, enabled, running, budget, applies,
                 fails, whole, torn, unseen>>

(* systemd loads every file anew, the slices' too.                         *)
Loads ==
  /\ loaded' = text /\ slices' = written
  /\ short' = (short /\ written["brain"] # written["user"])

DaemonReload ==
  /\ Turn("install", "start", Expected(job.man))
  /\ Loads
  /\ UNCHANGED <<machine, file, record, text, enabled, running, written, applies,
                 fails, whole, torn, unseen>>

AtStart(u) == job.at = "start" /\ Done(u)

(* What runs after enable --now.                                           *)
Enabled(u) == IF running[u] = None THEN loaded[u] ELSE running[u]

EnableOnly(u, now) ==
  /\ AtStart(u)
  /\ enabled' = enabled \cup {u}
  /\ running' = [running EXCEPT ![u] = Enabled(u)]
  /\ UNCHANGED <<machine, file, record, text, loaded, budget, applies, fails, whole,
                 torn, unseen>>

(* enable --now, which is looked at; a resident service is then restarted, *)
(* which is not: what runs already may run on, or nothing.  A timer        *)
(* follows what is loaded.                                                 *)
Start(u, now) ==
  /\ AtStart(u)
  /\ now \in {loaded[u]} \cup IF u[2] = "service" THEN {Enabled(u), None} ELSE {}
  /\ Unlooked(u, now = loaded[u])
  /\ enabled' = enabled \cup {u}
  /\ running' = [running EXCEPT ![u] = now]
  /\ UNCHANGED <<machine, file, record, text, loaded, budget, applies, whole, torn>>

WriteRecord ==
  /\ Turn("start", "budget", {})
  /\ record' = job.man
  /\ torn' = torn \ UnitsOf(job.man)
  /\ UNCHANGED <<machine, file, units, budget, applies, fails, whole, unseen>>

(* memory-budget, by the manifest's file: check(), which looks at the      *)
(* files; compute, which may raise; one file after the other; and          *)
(* daemon-reload.                                                          *)
CanFit == Fits(ram, Peak(file), ci)

Rebudget ==
  /\ ~Agree(written, Peak(file)) /\ Turn("budget", "parent", {}) /\ CanFit
  /\ UNCHANGED <<machine, file, record, units, budget, applies, fails, whole, torn,
                 unseen>>

WriteSlice ==
  /\ job.at \in SliceFiles
  /\ written' = [written EXCEPT ![job.at] = Peak(file)]
  /\ Goes(Following[job.at], {})
  /\ UNCHANGED <<machine, file, record, units, slices, short, applies, fails, whole,
                 torn, unseen>>

(* Then wait_healthy, which changes nothing; a run of the step alone has   *)
(* no manifest to apply.                                                   *)
Finish == job' = Idle /\ whole' = (whole \/ job.man # None)

LoadSlices ==
  /\ job.at = "limits" /\ Finish
  /\ Loads
  /\ UNCHANGED <<machine, file, record, text, enabled, running, written, applies,
                 fails, torn, unseen>>

Returns ==
  /\ job.at = "budget" /\ Agree(written, Peak(file)) /\ CanFit /\ Finish
  /\ UNCHANGED <<machine, file, record, units, budget, applies, fails, torn, unseen>>

(* Cut short, by compute's ValueError too.                                 *)
CutShort ==
  /\ job.at # "off"
  /\ job' = Idle
  /\ torn' = IF job.at \notin {"remove", "install", "start"} THEN torn
             ELSE torn \cup (UnitsOf(job.man) \ UnitsOf(record))
  /\ short' = (short \/ (job.at = "user" /\ BrainMax(ram, written["brain"])
                                              > BrainMax(ram, written["user"])))
  /\ UNCHANGED <<machine, file, record, units, written, slices, applies, fails, whole,
                 unseen>>

(* The installer is run again: memory-budget comes before brain-slot.      *)
RunInstaller ==
  /\ job.at = "off" /\ ~Agree(written, Peak(file))
  /\ job' = [Idle EXCEPT !.at = "budget"]
  /\ UNCHANGED <<machine, file, record, units, budget, applies, fails, whole, torn,
                 unseen>>

(* Everything stops, and what is enabled and has a file starts.            *)
Reboot ==
  /\ job.at = "off"
  /\ Loads
  /\ running' = [u \in Units |-> IF u \in enabled THEN text[u] ELSE None]
  /\ unseen' = {u \in unseen : u \in enabled /\ text[u] = None}
  /\ UNCHANGED <<machine, file, record, text, enabled, written, job, applies, fails,
                 whole, torn>>

Next ==
  \/ \E m \in Manifests : Begin(m)
  \/ \E u \in Units :
       \/ \E disabled, stopped \in BOOLEAN : RemoveUnit(u, disabled, stopped)
       \/ InstallUnit(u)
       \/ \E now \in Manifests \cup {None} : Start(u, now)
  \/ Install \/ DaemonReload \/ WriteRecord
  \/ Rebudget \/ WriteSlice \/ LoadSlices \/ Returns
  \/ CutShort \/ RunInstaller \/ Reboot

Spec == Init /\ [][Next]_vars

----------------------------------------------------------------------------
TypeOK ==
  /\ ram \in Rams /\ ci \in Ci
  /\ {file, record} \subseteq Manifests \cup {None}
  /\ {text, loaded, running} \subseteq [Units -> Manifests \cup {None}]
  /\ {enabled, torn, unseen} \subseteq SUBSET Units
  /\ {written, slices} \subseteq [SliceFiles -> Nat]
  /\ job.at \in {"off", "remove", "install", "start", "budget", "limits"} \cup SliceFiles
  /\ job.man \in Manifests \cup {None} /\ job.todo \subseteq Units
  /\ applies \in 0..MaxApplies /\ fails \in 0..MaxFails
  /\ {whole, short} \subseteq BOOLEAN

(* What an apply that returned says is in force: the manifest's own        *)
(* services are what the health check looks for and come back after a      *)
(* reboot, the memory is split by the manifest's peak, and each service    *)
(* runs, from its own text and not from an older one - but one whose       *)
(* restart failed unseen, until a reboot; whatever was cut short before.   *)
InForce ==
  whole => /\ record = file /\ Agree(slices, Peak(file))
           /\ \A u \in Expected(file) :
                u \in enabled /\ text[u] = file /\ (running[u] = file \/ u \in unseen)

(* "Applying a new manifest stops and removes the units of services that   *)
(* are no longer listed": of no other service does a unit remain, or run,  *)
(* or is one enabled.  A unit that systemd failed to stop or to disable,   *)
(* unseen, may run on, but not beyond a reboot; and nothing is said of the *)
(* units an apply that was cut short had installed and not yet recorded.   *)
NoStrays ==
  whole => \A u \in Units \ (UnitsOf(file) \cup torn) :
             text[u] = None /\ (u \in unseen \/ (running[u] = None /\ u \notin enabled))

(* "The sum of the ceilings always stays below physical RAM", with the     *)
(* margin beside it, at every moment of an apply and after a reboot in the *)
(* middle of one - unless the step was cut between raising the brain's     *)
(* ceiling and lowering the owner's, until systemd next loads slices that  *)
(* agree; and the brain's own ceiling is not below the peak it declared,   *)
(* but where that is more than a third of RAM.                             *)
BudgetHolds ==
  /\ short \/ Scale * CeilingsOf(slices) + Margin(ram) <= Scale * ram
  /\ whole /\ file # None =>
       Compute(ram, slices["brain"], ci).brain
         >= Lower(file.peak, RoundDown(10000 * ram))

=============================================================================
