----------------------------- MODULE Installer -----------------------------
(***************************************************************************)
(* The installer's engine of verified, resumable steps (pskit/steps.py,    *)
(* run_server of pskit/install.py, the journal of pskit/state.py) and its  *)
(* last step, the proof by reboot (Proof of pskit/linux/steps_ops.py, arm  *)
(* and after_boot of pskit/prove.py, the commands prove and prove-boot and *)
(* the unit pskit-prove-boot).                                             *)
(*                                                                         *)
(* A step is a row of StepTable: the parts its apply() makes, and those    *)
(* its check() looks at.  apply() is cut short anywhere: a part that       *)
(* fails, Ctrl-C, a kill, a power cut.  What takes a part out again - the  *)
(* lockdown's own revert, the owner, a package that goes - is a drift; an  *)
(* answer that changes takes out what a step had made of the last one.     *)
(*                                                                         *)
(* An operator nothing else uses is a fault a property must detect in the  *)
(* definition after it.                                                    *)
(***************************************************************************)
EXTENDS Naturals, Sequences, SequencesExt

CONSTANTS
  Rows,       \* linux_steps(), in order, without the last one, the proof
  Optional,   \* the steps an answer may skip, or that find nothing to do
  Modes,      \* the answers to "prove": "reboot", "no-reboot", "skip"
  None,       \* no file
  MaxRuns,    \* bound: runs of the installer
  MaxBoots,   \* bound: reboots, wanted or not
  MaxDrifts,  \* bound: parts taken out again, and answers changed
  MaxHand     \* bound: runs of `pskit prove`

Parts == UNION {ToSet(Rows[m].parts) : m \in DOMAIN Rows}
Steps == [m \in DOMAIN Rows |-> Rows[m].id]

ASSUME InstallerAssumption ==
  /\ Rows \in Seq([id : STRING, parts : Seq(STRING), sees : SUBSET STRING,
                   needs : SUBSET STRING, mends : SUBSET STRING,
                   slips : SUBSET STRING, outlives : SUBSET STRING,
                   byWord : BOOLEAN, verified : BOOLEAN, declines : BOOLEAN])
  /\ "proof" \notin ToSet(Steps)
  /\ \A l, m \in DOMAIN Rows : Rows[l].id = Rows[m].id => l = m
  /\ \A m \in DOMAIN Rows : Rows[m].sees \cup Rows[m].mends \subseteq Parts
  /\ Modes \subseteq {"reboot", "no-reboot", "skip"}
  /\ {MaxRuns, MaxBoots, MaxDrifts, MaxHand} \subseteq Nat
  /\ None \notin Nat

VARIABLES
  made,     \* the parts that stand on the machine
  declined, \* the steps whose last apply() had nothing to do
  drifted,  \* history: the steps that lost a part they look at in this run
  applied,  \* history: the steps whose apply() returned in this run
  cut,      \* history: the steps whose apply() was begun, or whose answer
            \* changed, and not ended since
  renewed,  \* history: those of them whose answer changed
  drifts,
  journal,  \* journal.json: the steps marked done
  inst,     \* the installer: where it is, at which step and part, the answers
  memory,   \* the journal the installer holds
  runs,
  boot,     \* the boot's id
  pending,  \* the boot id in the proof's pending file, or None
  receipt,  \* what the last proof's receipt says, or "none"
  proved,   \* history: a receipt said ok
  prover,   \* after_boot, as run by prove-boot and by hand
  hands,
  armed,    \* history: the boot the last proof was armed in, until its report
  lost      \* history: nobody is left who knows of that proof

machine == <<made, declined, drifted, applied, cut, renewed, drifts>>
engine  == <<journal, inst, memory, runs>>
proof   == <<pending, receipt, proved, prover, hands, armed, lost>>
vars == <<machine, engine, boot, proof>>

Provers  == {"boot", "hand"}
Off      == [at |-> "off", n |-> 1, k |-> 1, active |-> {}, mode |-> "skip"]
Resting  == [at |-> "off", was |-> None, ok |-> FALSE, knows |-> FALSE]

(* Nothing was installed yet, or all of it.                                *)
Init ==
  /\ \/ made = {} /\ journal = {}
     \/ made = Parts /\ journal = ToSet(Steps)
  /\ declined = {} /\ drifted = {} /\ applied = {} /\ cut = {} /\ renewed = {}
  /\ drifts = 0
  /\ inst = Off /\ memory = {} /\ runs = 0
  /\ boot = 0
  /\ pending = None /\ receipt = "none" /\ proved = FALSE
  /\ prover = [p \in Provers |-> Resting]
  /\ hands = 0 /\ armed = None /\ lost = FALSE

----------------------------------------------------------------------------
(* The engine.                                                             *)

(* mark: the journal in memory changes and is written whole.  All it does  *)
(* for the engine is to say "done" or something else: running, failed,     *)
(* interrupted, skipped or waiting-reboot.                                 *)
Mark(s, done) ==
  /\ memory' = IF done THEN memory \cup {s} ELSE memory \ {s}
  /\ journal' = memory'

(* run_server loads the journal; the engine marks what does not apply.     *)
Start(active, mode) ==
  LET loaded == journal \cap (active \cup {"proof"}) IN
  /\ inst.at = "off" /\ runs < MaxRuns
  /\ runs' = runs + 1
  /\ memory' = loaded /\ journal' = loaded
  /\ inst' = [at |-> "check", n |-> 1, k |-> 1, active |-> active, mode |-> mode]
  /\ drifted' = {} /\ applied' = {}
  /\ UNCHANGED <<made, declined, cut, renewed, drifts, boot, proof>>

AtProof == inst.n = Len(Rows) + 1
R       == Rows[inst.n]
Current == IF AtProof THEN "proof" ELSE R.id
Proven  == receipt = "ok"

Stands(r) == r.sees \subseteq made \/ (r.byWord /\ r.id \in declined)
Checks    == IF AtProof THEN Proven
             ELSE Stands(R) /\ (R.byWord => R.id \in memory)

GoesOn == inst' = [inst EXCEPT !.at = IF AtProof THEN "finished" ELSE "check",
                               !.n = @ + 1, !.k = 1]

(* A step that does not apply is not in the engine's list.                 *)
Pass ==
  /\ inst.at = "check" /\ ~AtProof /\ Current \notin inst.active
  /\ GoesOn
  /\ UNCHANGED <<machine, journal, memory, runs, boot, proof>>

Applies == inst.at = "check" /\ (AtProof \/ Current \in inst.active)

SkipsOnItsWord == Current \in memory \/ Checks

(* Already done, with nothing to write, or already in the wanted state.    *)
Skips == Checks

Skip ==
  /\ Applies /\ Skips
  /\ IF Current \in memory THEN UNCHANGED <<journal, memory>> ELSE Mark(Current, TRUE)
  /\ made' = IF AtProof THEN made ELSE made \cup R.mends
  /\ GoesOn
  /\ UNCHANGED <<declined, drifted, applied, cut, renewed, drifts, runs, boot, proof>>

Begin ==
  /\ Applies /\ ~Skips
  /\ Mark(Current, FALSE)
  /\ inst' = [inst EXCEPT !.at = "apply"]
  /\ cut' = IF AtProof THEN cut ELSE cut \cup {Current}
  /\ UNCHANGED <<made, declined, drifted, applied, renewed, drifts, runs, boot, proof>>

AppliesStep == inst.at = "apply" /\ ~AtProof

(* One part more; some come to nothing without apply() noticing.           *)
Apply(works) ==
  /\ AppliesStep /\ inst.k <= Len(R.parts)
  /\ works \/ R.parts[inst.k] \in R.slips
  /\ made' = IF works THEN made \cup {R.parts[inst.k]} ELSE made
  /\ inst' = [inst EXCEPT !.k = @ + 1]
  /\ UNCHANGED <<declined, drifted, applied, cut, renewed, drifts, journal, memory, runs,
                 boot, proof>>

Leaves == inst' = [inst EXCEPT !.at = "verify"]

ApplyReturns ==
  /\ AppliesStep /\ inst.k > Len(R.parts)
  /\ Leaves
  /\ applied' = applied \cup {Current}
  /\ cut' = cut \ {Current} /\ renewed' = renewed \ {Current}
  /\ declined' = declined \ {Current}
  /\ UNCHANGED <<made, drifted, drifts, journal, memory, runs, boot, proof>>

ApplyDeclines ==
  /\ AppliesStep /\ inst.k = 1 /\ R.declines
  /\ Leaves
  /\ applied' = applied \cup {Current}
  /\ cut' = cut \ {Current} /\ renewed' = renewed \ {Current}
  /\ declined' = declined \cup {Current}
  /\ UNCHANGED <<made, drifted, drifts, journal, memory, runs, boot, proof>>

NeverLooked == ~AtProof

(* verify(): of most steps, check() again; of the rest, and of a backup    *)
(* put off or a proof skipped, nothing.                                    *)
NotLooked == IF AtProof THEN inst.mode = "skip"
             ELSE ~R.verified \/ Current \in declined

Verified ==
  /\ inst.at = "verify"
  /\ Checks \/ NotLooked
  /\ Mark(Current, TRUE)
  /\ GoesOn
  /\ UNCHANGED <<machine, runs, boot, proof>>

(* A problem found by verify(), a part that fails, or Ctrl-C: the run ends *)
(* with its reason in the journal.                                         *)
Fails ==
  /\ inst.at \in {"check", "apply", "verify"}
  /\ Mark(Current, FALSE)
  /\ inst' = Off
  /\ UNCHANGED <<machine, runs, boot, proof>>

Ends ==
  /\ inst.at = "finished"
  /\ inst' = Off
  /\ UNCHANGED <<machine, journal, memory, runs, boot, proof>>

KillInstaller ==
  /\ inst.at \notin {"off", "proving", "finished"}
  /\ inst' = Off
  /\ UNCHANGED <<machine, journal, memory, runs, boot, proof>>

SeenBy == [part \in Parts |-> {Rows[m].id : m \in {l \in DOMAIN Rows : part \in Rows[l].sees}}]

Drift(part) ==
  /\ drifts < MaxDrifts /\ part \in made /\ SeenBy[part] # {}
  /\ made' = made \ {part}
  /\ drifted' = drifted \cup SeenBy[part]
  /\ drifts' = drifts + 1
  /\ UNCHANGED <<declined, applied, cut, renewed, engine, boot, proof>>

(* The next run is given another answer: of what the step had made, only   *)
(* what its check() takes as it finds it still counts.                     *)
Renew(m) ==
  /\ inst.at = "off" /\ drifts < MaxDrifts /\ Rows[m].outlives # {}
  /\ made' = made \ (ToSet(Rows[m].parts) \ Rows[m].outlives)
  /\ cut' = cut \cup {Rows[m].id} /\ renewed' = renewed \cup {Rows[m].id}
  /\ drifts' = drifts + 1
  /\ UNCHANGED <<declined, drifted, applied, engine, boot, proof>>

----------------------------------------------------------------------------
(* The proof.  Proof.apply and `pskit prove` make the checks first, which  *)
(* look at the units too; the owner may say no to the reboot, which is a   *)
(* failure.                                                                *)
UnitsRun == {"active"} \cap Parts \subseteq made

ApplySkipped ==
  /\ inst.at = "apply" /\ AtProof /\ inst.mode = "skip" /\ UnitsRun
  /\ inst' = [inst EXCEPT !.at = "verify"]
  /\ UNCHANGED <<machine, journal, memory, runs, boot, proof>>

(* prove="no-reboot" calls after_boot itself.                              *)
ApplyNow ==
  /\ inst.at = "apply" /\ AtProof /\ inst.mode = "no-reboot" /\ UnitsRun
  /\ prover["hand"].at = "off"
  /\ prover' = [prover EXCEPT !["hand"].at = "read"]
  /\ inst' = [inst EXCEPT !.at = "proving"]
  /\ UNCHANGED <<machine, journal, memory, runs, boot, pending, receipt, proved,
                 hands, armed, lost>>

NowProved ==
  /\ inst.at = "proving" /\ prover["hand"].at = "off"
  /\ inst' = [inst EXCEPT !.at = "verify"]
  /\ UNCHANGED <<machine, journal, memory, runs, boot, proof>>

(* arm writes over what is pending; whoever has read that knows nothing of *)
(* the new proof.                                                          *)
Arm ==
  /\ pending' = boot /\ armed' = boot /\ lost' = FALSE
  /\ prover' = [p \in Provers |-> [prover[p] EXCEPT !.knows = FALSE]]

(* arm, mark, systemctl reboot, and the installer is gone.                 *)
ApplyReboot ==
  /\ inst.at = "apply" /\ AtProof /\ inst.mode = "reboot" /\ UnitsRun
  /\ Arm
  /\ inst' = [inst EXCEPT !.at = "armed"]
  /\ UNCHANGED <<machine, journal, memory, runs, boot, receipt, proved, hands>>

Waits ==
  /\ inst.at = "armed"
  /\ Mark("proof", FALSE)
  /\ inst' = Off
  /\ UNCHANGED <<machine, runs, boot, proof>>

(* pskit prove, after its own checks.                                      *)
ProveByReboot ==
  /\ hands < MaxHand /\ UnitsRun
  /\ hands' = hands + 1
  /\ Arm
  /\ UNCHANGED <<machine, engine, boot, receipt, proved>>

ProveNow ==
  /\ hands < MaxHand /\ UnitsRun /\ prover["hand"].at = "off"
  /\ hands' = hands + 1
  /\ prover' = [prover EXCEPT !["hand"].at = "read"]
  /\ UNCHANGED <<machine, engine, boot, pending, receipt, proved, armed, lost>>

(* A prover that has removed the pending file and not told anyone yet is   *)
(* the last that knows of the proof.                                       *)
DiesKnowing(p) == prover[p].at = "tell" /\ prover[p].knows

(* The machine goes down, as asked or not, and comes back.  The unit, once *)
(* enabled, starts prove-boot where there is a pending file.               *)
Reboot ==
  /\ boot < MaxBoots
  /\ boot' = boot + 1
  /\ inst' = Off
  /\ prover' = [p \in Provers |->
                  IF p = "boot" /\ pending # None /\ "proof_unit" \in made
                  THEN [Resting EXCEPT !.at = "read"] ELSE Resting]
  /\ lost' = IF pending = None THEN lost \/ \E p \in Provers : DiesKnowing(p)
             ELSE "runtime" \in cut
  /\ UNCHANGED <<machine, journal, memory, runs, pending, receipt, proved, hands, armed>>

ReadOnce(p) ==
  /\ prover[p].at = "read"
  /\ pending' = None
  /\ prover' = [prover EXCEPT ![p].at = "check", ![p].was = pending,
                              ![p].knows = pending # None]
  /\ UNCHANGED <<machine, engine, boot, receipt, proved, hands, armed, lost>>

Read(p) ==
  /\ prover[p].at = "read"
  /\ prover' = [prover EXCEPT ![p].at = "check", ![p].was = pending,
                              ![p].knows = pending # None]
  /\ UNCHANGED <<machine, engine, boot, pending, receipt, proved, hands, armed, lost>>

(* The checks are repeated until they hold or time is over.                *)
Check(p, good) ==
  /\ prover[p].at = "check" /\ (good => UnitsRun)
  /\ prover' = [prover EXCEPT ![p].at = "receipt",
                  ![p].ok = good /\ (prover[p].was # None => prover[p].was # boot)]
  /\ UNCHANGED <<machine, engine, boot, pending, receipt, proved, hands, armed, lost>>

WriteReceipt(p) ==
  /\ prover[p].at = "receipt"
  /\ receipt' = IF prover[p].ok THEN "ok" ELSE "failed"
  /\ proved' = IF prover[p].ok THEN TRUE ELSE proved
  /\ prover' = [prover EXCEPT ![p].at = "remove"]
  /\ UNCHANGED <<machine, engine, boot, pending, hands, armed, lost>>

(* Whatever is pending by then.                                            *)
RemovePending(p) ==
  /\ prover[p].at = "remove"
  /\ pending' = None
  /\ prover' = [prover EXCEPT ![p].at = "tell"]
  /\ lost' = (lost \/ (pending # None /\ ~prover[p].knows))
  /\ UNCHANGED <<machine, engine, boot, receipt, proved, hands, armed>>

(* Sent, or queued for the owner if that fails.                            *)
Tell(p) ==
  /\ prover[p].at = "tell"
  /\ armed' = IF prover[p].knows THEN None ELSE armed
  /\ prover' = [prover EXCEPT ![p] =
                  IF p = "boot" /\ @.ok THEN [@ EXCEPT !.at = "mark"] ELSE Resting]
  /\ UNCHANGED <<machine, engine, boot, pending, receipt, proved, hands, lost>>

(* prove-boot marks the journal that is on disk: the installer, if one     *)
(* runs, does not see it, and writes its own over it.                      *)
MarkProof ==
  /\ prover["boot"].at = "mark"
  /\ journal' = journal \cup {"proof"}
  /\ prover' = [prover EXCEPT !["boot"] = Resting]
  /\ UNCHANGED <<machine, inst, memory, runs, boot, pending, receipt, proved,
                 hands, armed, lost>>

(* Ctrl-C of the command, or of the installer that waits for its proof.    *)
KillHand ==
  /\ prover["hand"].at # "off"
  /\ prover' = [prover EXCEPT !["hand"] = Resting]
  /\ inst' = IF inst.at = "proving" THEN Off ELSE inst
  /\ lost' = (lost \/ DiesKnowing("hand"))
  /\ UNCHANGED <<machine, journal, memory, runs, boot, pending, receipt, proved,
                 hands, armed>>

----------------------------------------------------------------------------
Engine ==
  \/ Pass \/ Skip \/ Begin
  \/ \E works \in BOOLEAN : Apply(works)
  \/ ApplyReturns \/ ApplyDeclines
  \/ Verified \/ Ends
  \/ ApplySkipped \/ ApplyNow \/ NowProved \/ ApplyReboot \/ Waits

Prover(p) ==
  \/ Read(p)
  \/ \E good \in BOOLEAN : Check(p, good)
  \/ WriteReceipt(p) \/ RemovePending(p) \/ Tell(p)

Next ==
  \/ \E skipped \in SUBSET Optional, mode \in Modes :
       Start(ToSet(Steps) \ skipped, mode)
  \/ Engine \/ Fails \/ KillInstaller
  \/ \E part \in Parts : Drift(part)
  \/ \E m \in DOMAIN Rows : Renew(m)
  \/ ProveByReboot \/ ProveNow \/ Reboot
  \/ \E p \in Provers : Prover(p)
  \/ MarkProof \/ KillHand

Spec == Init /\ [][Next]_vars

(* after_boot, which bounds its own waiting, goes on unless it is killed.   *)
FairSpec == Spec /\ \A p \in Provers : WF_vars(Prover(p))

----------------------------------------------------------------------------
TypeOK ==
  /\ made \subseteq Parts
  /\ {declined, drifted, applied, cut, renewed} \subseteq SUBSET ToSet(Steps)
  /\ drifts \in 0..MaxDrifts
  /\ journal \subseteq ToSet(Steps) \cup {"proof"}
  /\ memory \subseteq ToSet(Steps) \cup {"proof"}
  /\ inst \in [at : {"off", "check", "apply", "verify", "proving", "armed",
                     "finished"},
               n : 1..Len(Rows) + 2, k : Nat \ {0},
               active : SUBSET ToSet(Steps), mode : Modes \cup {"skip"}]
  /\ runs \in 0..MaxRuns /\ boot \in 0..MaxBoots
  /\ {pending, armed} \subseteq 0..MaxBoots \cup {None} /\ receipt \in {"none", "ok", "failed"}
  /\ {proved, lost} \subseteq BOOLEAN
  /\ prover \in [Provers ->
       [at : {"off", "read", "check", "receipt", "remove", "tell", "mark"},
        was : 0..MaxBoots \cup {None}, ok : BOOLEAN, knows : BOOLEAN]]
  /\ hands \in 0..MaxHand

(* The steps the installer has left behind in this run.                    *)
Passed == {m \in 1..Len(Rows) : inst.at # "off" /\ m < inst.n
                               /\ Rows[m].id \in inst.active}

(* A step is in its state, but for what was taken out of it during this    *)
(* very run; or it had nothing to do; or verify() does not look at it, and *)
(* its apply() returned in this run.                                       *)
Behind(r) ==
  \/ r.sees \subseteq made
  \/ r.id \in drifted \cup declined
  \/ ~r.verified /\ r.id \in applied

(* The engine never goes past a step on the journal's word: while it is at *)
(* a step, and when it says it is finished, every step before it that      *)
(* applies can be left behind, and a finished run was proved unless the    *)
(* owner skipped the proof.  So the lockdown is never tried before the     *)
(* laptop is paired, nor the proof before everything stands.               *)
InOrder ==
  /\ \A m \in Passed : Behind(Rows[m])
  /\ inst.at # "off" /\ inst.n > Len(Rows) + 1 => proved \/ inst.mode = "skip"

(* What a step that was passed may lack although check() held: the parts   *)
(* apply() makes after the last one that check() looks at, and of a step   *)
(* that goes by the journal's word nothing.  With another answer, what     *)
(* check() still finds of the last one tells nothing.                      *)
Telling(r, other) == r.sees \ (r.mends \cup IF other THEN r.outlives ELSE {})

Unseen(r, other) ==
  IF r.byWord THEN {}
  ELSE {r.parts[k] : k \in {l \in DOMAIN r.parts :
          \A j \in l..Len(r.parts) : r.parts[j] \notin Telling(r, other)}} \ r.mends

(* Running the installer again repairs what an earlier run left undone, or *)
(* what another answer asks for: a step that was passed is whole, unless   *)
(* its apply() was cut short and never ended since, and even then only the *)
(* parts that come after all that its check() sees are missing - sees, and *)
(* would find missing, had they been made for the last answer.             *)
PassedIsWhole ==
  \A m \in Passed :
    LET r == Rows[m]  lacks == ToSet(r.parts) \ made IN
    lacks # {} /\ r.id \notin drifted \cup declined =>
      r.id \in cut /\ lacks \subseteq Unseen(r, r.id \in renewed)

(* Every step works on what the steps before it have made, however often   *)
(* the installation was cut short: what it needs is there, but for what a  *)
(* step of this run lost, had no reason to make, or was told to leave out. *)
Supplied ==
  AppliesStep =>
    \A part \in R.needs \cap Parts :
      part \in made \/ \E m \in DOMAIN Rows :
        /\ part \in ToSet(Rows[m].parts)
        /\ Rows[m].id \in drifted \cup declined \/ Rows[m].id \notin inst.active

(***************************************************************************)
(* What the table must keep for the two properties above.  Hidden parts    *)
(* are those that no check of the step sees or mends; an anchor is a part  *)
(* it sees that nothing makes unless the step has been passed before.      *)
(*                                                                         *)
(* A part comes once in a step; one that may come to nothing is looked at, *)
(* and by verify(); one that somebody looks at is looked at by every step  *)
(* that makes it; a step that hides a part has an anchor, or goes by the   *)
(* journal's word; a part it sees after a hidden one is its own; and so    *)
(* is all that another answer takes out.                                   *)
(***************************************************************************)
Hidden(r) == ToSet(r.parts) \ (r.sees \cup r.mends)
Makes(r)  == ToSet(r.parts) \cup r.mends

Anchors(m) ==
  {part \in Rows[m].sees : \A l \in DOMAIN Rows \ {m} :
     part \in Makes(Rows[l]) => m < l /\ Rows[m].id \notin Optional}

WellMade ==
  \A m \in DOMAIN Rows : LET r == Rows[m] IN
    /\ IsInjective(r.parts)
    /\ r.slips \subseteq r.sees /\ (r.slips # {} => r.verified)
    /\ \A l \in DOMAIN Rows : ToSet(r.parts) \cap Rows[l].sees \subseteq r.sees
    /\ r.byWord \/ Hidden(r) = {} \/ Anchors(m) # {}
    /\ \A i, j \in DOMAIN r.parts :
         j < i /\ r.parts[j] \in Hidden(r) /\ r.parts[i] \in r.sees \ r.mends =>
           \A l \in DOMAIN Rows \ {m} : r.parts[i] \notin Makes(Rows[l])
    /\ r.outlives # {} =>
         /\ ~r.byWord /\ ~r.declines
         /\ \A l \in DOMAIN Rows \ {m} : ToSet(r.parts) \cap ToSet(Rows[l].parts) = {}

(* What a step needs is made by one before it, and not left unseen there.  *)
WellOrdered ==
  \A m \in DOMAIN Rows : \A part \in Rows[m].needs \cap Parts :
    \E l \in 1..m - 1 : part \in ToSet(Rows[l].parts) \ Unseen(Rows[l], TRUE)

(* after_boot "always reports": once its reboot has come, a proof is       *)
(* reported, or armed anew, whatever runs beside it and however often the  *)
(* machine goes down - unless nobody is left who knows of it.  That is so  *)
(* where another prover, which had read before it was armed, removed its   *)
(* pending file; where the one that did is killed before it tells; and     *)
(* where the machine went down before the step that enables the unit had   *)
(* come to its end.                                                        *)
Due == armed # None /\ armed # boot

AlwaysReports == Due ~> ~Due \/ lost

=============================================================================
