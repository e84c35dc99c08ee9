---------------------------- MODULE Slices_proofs ---------------------------
(***************************************************************************)
(* Proofs about the memory slices: BrainSlot, for every machine, every     *)
(* manifest, every way an apply is cut short and every command of it that  *)
(* fails unseen, and Pressure, for any slices, any thresholds and any      *)
(* number of slips (guards told to stop or killed anywhere, a systemctl    *)
(* that says it failed and did not, or the other way round).  The memory   *)
(* budget stays below physical RAM, an apply that returns has its manifest *)
(* in force and no other's units, and what the guard freezes is found      *)
(* again and thawed in time.  The two have nothing in common but the       *)
(* slices, and are not composed.                                           *)
(***************************************************************************)
EXTENDS BrainSlot, Pressure, TLAPS

(* Rounding down by whole steps never gives more than there was, and loses *)
(* less than a step.                                                       *)
LEMMA RoundsDown ==
  ASSUME NEW parts \in Nat
  PROVE  /\ RoundDown(parts) \in Nat
         /\ Scale * RoundDown(parts) <= parts
         /\ parts < Scale * (RoundDown(parts) + Step)
BY SMT DEF RoundDown, Step, Scale

(* The parts a machine's memory is split into.                             *)
LEMMA Shares ==
  ASSUME NEW r \in Nat, NEW p \in Nat, NEW c \in BOOLEAN
  PROVE  /\ Margin(r) \in Nat /\ BrainMax(r, p) \in Nat /\ CiMax(r, c) \in Nat
         /\ BrainMax(r, p) <= 10000 * r
BY SMT DEF Margin, BrainMax, CiMax, Higher, Lower, GiB, Scale

LEMMA BrainShare == ASSUME NEW r \in Nat, NEW p \in Nat PROVE BrainMax(r, p) \in Nat
BY SMT DEF BrainMax, Higher, Lower, GiB, Scale

(* What is left to the owner's sessions and the margin are taken from the  *)
(* same memory: the ceilings and the margin never exceed it, nor when the  *)
(* brain's is one for less than the owner's leaves it.                     *)
LEMMA CeilingsBelowRam ==
  ASSUME NEW r \in Nat, NEW u \in Nat, NEW b \in Nat, NEW c \in BOOLEAN,
         Fits(r, u, c), BrainMax(r, b) <= BrainMax(r, u)
  PROVE  Scale * (Compute(r, u, c).user + Compute(r, b, c).brain + Compute(r, 0, c).ci)
           + Margin(r) <= Scale * r
<1>1. /\ Margin(r) \in Nat /\ BrainMax(r, u) \in Nat /\ BrainMax(r, b) \in Nat
      /\ CiMax(r, c) \in Nat
  BY Shares
<1>2. UserMax(r, u, c) \in Nat
  BY <1>1, SMT DEF UserMax, Fits, Spent, Scale, GiB
<1>3. /\ Scale * RoundDown(UserMax(r, u, c)) <= UserMax(r, u, c)
      /\ RoundDown(UserMax(r, u, c)) \in Nat
  BY <1>2, RoundsDown
<1>4. /\ Scale * RoundDown(BrainMax(r, b)) <= BrainMax(r, b)
      /\ RoundDown(BrainMax(r, b)) \in Nat
  BY <1>1, RoundsDown
<1>5. /\ Scale * RoundDown(CiMax(r, c)) <= CiMax(r, c)
      /\ RoundDown(CiMax(r, c)) \in Nat
  BY <1>1, RoundsDown
<1>6. /\ Compute(r, u, c).user = RoundDown(UserMax(r, u, c))
      /\ Compute(r, b, c).brain = RoundDown(BrainMax(r, b))
      /\ Compute(r, 0, c).ci = RoundDown(CiMax(r, c))
  BY DEF Compute
<1>7. UserMax(r, u, c) + Margin(r) + BrainMax(r, u) + CiMax(r, c) = Scale * r
  BY <1>1, SMT DEF UserMax, Spent, Scale
<1> QED BY <1>1, <1>2, <1>3, <1>4, <1>5, <1>6, <1>7, SMT DEF Scale

(* A ceiling made for a declared peak is not below that peak, though it is *)
(* rounded down: the quarter of headroom and the GiB at least are more     *)
(* than what the rounding takes - but where a third of RAM is less.        *)
LEMMA PeakFits ==
  ASSUME NEW r \in Nat, NEW p \in Nat, NEW c \in BOOLEAN
  PROVE  Compute(r, p, c).brain >= Lower(p, RoundDown(10000 * r))
<1>1. Compute(r, p, c).brain = RoundDown(BrainMax(r, p))
  BY DEF Compute
<1>2. CASE p = 0
  <2>1. Lower(p, RoundDown(10000 * r)) = 0
    BY <1>2, RoundsDown, SMT DEF Lower
  <2> QED BY <1>1, <2>1, Shares, RoundsDown, SMT
<1>3. CASE p > 0 /\ BrainMax(r, p) = 10000 * r
  BY <1>1, <1>3, RoundsDown, SMT DEF Lower
<1>4. CASE p > 0 /\ BrainMax(r, p) # 10000 * r
  <2>1. BrainMax(r, p) = Higher(37500 * p, GiB * Scale)
    BY <1>4 DEF BrainMax, Lower
  <2>. DEFINE b == BrainMax(r, p)
              q == b \div 7680000
  <2>3. /\ b \in Nat /\ b >= 37500 * p /\ b >= 30720000
        /\ RoundDown(b) = 256 * q
    BY <2>1, Shares, SMT DEF RoundDown, Higher, GiB, Scale, Step
  <2>4. q \in Nat /\ b < 7680000 * (q + 1)
    BY <2>3, SMT
  <2>5. q >= 4 /\ 37500 * p < 7680000 * (q + 1)
    BY <2>3, <2>4, SMT
  <2>. HIDE DEF b, q
  <2>2. RoundDown(BrainMax(r, p)) >= p
    <3>1. CASE p <= 1024
      BY <3>1, <2>3, <2>4, <2>5, SMT DEF b
    <3>2. CASE p > 1024
      BY <3>2, <2>3, <2>4, <2>5, SMT DEF b
    <3> QED BY <3>1, <3>2
  <2>6. RoundDown(10000 * r) \in Nat
    BY RoundsDown, 10000 * r \in Nat, SMT
  <2>7. RoundDown(b) \in Nat /\ RoundDown(b) >= p
    BY <2>2, <2>3, <2>4, SMT DEF b
  <2>8. Compute(r, p, c).brain = RoundDown(b)
    BY <1>1 DEF b
  <2> HIDE DEF b
  <2> QED BY <2>6, <2>7, <2>8, SMT DEF Lower
<1> QED BY <1>2, <1>3, <1>4

----------------------------------------------------------------------------
(* The brain's ceiling is for more than the owner's leaves it.             *)
Over(files) == BrainMax(ram, files["brain"]) > BrainMax(ram, files["user"])

(* How far the step memory-budget has come with the files.                 *)
Stretch ==
  /\ job.at \in {"parent", "brain", "user", "limits"} => CanFit
  /\ job.at \in {"brain", "user"} => written["parent"] = Peak(file)
  /\ job.at = "user" => written["brain"] = Peak(file)
  /\ job.at = "limits" => Agree(written, Peak(file))
  /\ job.at \in {"start", "budget"} /\ job.man # None => slices = written
  /\ job.at # "off" => ~whole
  /\ job.at \in {"remove", "install", "start"} => job.man # None

(***************************************************************************)
(* The inductive invariant of the budget: every file, and what is in force *)
(* of it, was computed for a peak that fitted; the brain's is over the     *)
(* owner's only between the two writes, and after a cut there; and once an *)
(* apply has returned all of them are for the manifest's own peak.         *)
(***************************************************************************)
IInv ==
  /\ ram \in Rams /\ ci \in Ci
  /\ file \in Manifests \cup {None}
  /\ written \in [SliceFiles -> Nat] /\ slices \in [SliceFiles -> Nat]
  /\ \A f \in SliceFiles : Fits(ram, written[f], ci) /\ Fits(ram, slices[f], ci)
  /\ Over(slices) => short
  /\ Over(written) => short \/ job.at = "user"
  /\ whole => Agree(written, Peak(file)) /\ Agree(slices, Peak(file))
  /\ job \in [at : {"off", "remove", "install", "start", "budget", "parent", "brain",
                    "user", "limits"},
              man : Manifests \cup {None}, todo : SUBSET Units]
  /\ Stretch

(* The worst case of a brain, and of none, is a number. *)
LEMMA PeakIsNat == file \in Manifests \cup {None} => Peak(file) \in Nat
BY BrainAssumption DEF Peak

(* The brain's share of a peak is a number.                                *)
LEMMA ShareIsNat ==
  ASSUME IInv, NEW f \in SliceFiles
  PROVE  BrainMax(ram, written[f]) \in Nat /\ BrainMax(ram, slices[f]) \in Nat
<1>1. ram \in Nat /\ ci \in BOOLEAN
  BY BrainAssumption DEF IInv
<1>2. written[f] \in Nat /\ slices[f] \in Nat
  BY DEF IInv
<1> QED BY <1>1, <1>2, BrainShare

(* The machine starts with the budget of one without a brain. *)
LEMMA Initially == Init => IInv
<1> SUFFICES ASSUME Init PROVE IInv
  OBVIOUS
<1>1. Peak(file) = 0
  BY DEF Init, Peak
<1>2. Fits(ram, 0, ci) /\ ram \in Nat
  BY BrainAssumption DEF Init
<1>3. BrainMax(ram, 0) \in Nat
  BY <1>2, BrainShare
<1> QED BY <1>1, <1>2, <1>3 DEF Init, IInv, Stretch, Over, Idle, Agree, SliceFiles

(* Every load of what is written keeps it.                                 *)
LEMMA LoadsKeep ==
  ASSUME IInv, Loads, job.at # "user", UNCHANGED <<machine, file, written>>,
         whole' => Agree(written, Peak(file)),
         job' \in [at : {"off", "remove", "install", "start", "budget", "parent", "brain",
                         "user", "limits"},
                   man : Manifests \cup {None}, todo : SUBSET Units],
         Stretch'
  PROVE  IInv'
<1>1. BrainMax(ram, written["brain"]) \in Nat
  BY ShareIsNat DEF SliceFiles
<1>2. slices' = written /\ written' = written
      /\ short' = (short /\ written["brain"] # written["user"])
  BY DEF Loads
<1>3. ram' = ram /\ ci' = ci /\ file' = file /\ Peak(file)' = Peak(file)
  BY DEF machine, Peak
<1>4. Over(written) => short'
  <2>1. Over(written) => short
    BY DEF IInv
  <2>2. written["brain"] = written["user"] => ~Over(written)
    BY <1>1 DEF Over
  <2> QED BY <1>2, <2>1, <2>2
<1>5. Over(written)' = Over(written) /\ Over(slices)' = Over(written)
  BY <1>2, <1>3 DEF Over
<1> QED BY <1>2, <1>3, <1>4, <1>5 DEF IInv, Agree

(* Steps that leave the budget's files and what is in force alone.         *)
LEMMA BudgetRests ==
  ASSUME IInv, UNCHANGED <<machine, file, written, slices>>,
         short' \/ (short' = short /\ (job.at = "user" => job'.at = "user")),
         whole' => Agree(written, Peak(file)) /\ Agree(slices, Peak(file)),
         job' \in [at : {"off", "remove", "install", "start", "budget", "parent", "brain",
                         "user", "limits"},
                   man : Manifests \cup {None}, todo : SUBSET Units],
         Stretch'
  PROVE  IInv'
<1>1. ram' = ram /\ ci' = ci /\ file' = file /\ Peak(file)' = Peak(file)
      /\ written' = written /\ slices' = slices
  BY DEF machine, Peak
<1>2. Over(written)' = Over(written) /\ Over(slices)' = Over(slices)
  BY <1>1 DEF Over
<1> QED BY <1>1, <1>2 DEF IInv, Agree

(* What the manifest lists are units.                                      *)
LEMMA ExpectedIsInstalled ==
  \A m : /\ Expected(m) \subseteq UnitsOf(m) /\ UnitsOf(m) \subseteq Units
         /\ m = None => UnitsOf(m) = {}
  BY DEF Expected, UnitsOf, Resident, Listed, Units

(* The next unit is one of those to do.                                    *)
LEMMA FirstIsToDo == ASSUME NEW u, Done(u) PROVE u \in job.todo
  BY DEF Done, First

(* No step of a change of brain breaks it. *)
LEMMA Preserved == IInv /\ [Next]_vars => IInv'
<1> SUFFICES ASSUME IInv, [Next]_vars PROVE IInv'
  OBVIOUS
<1> USE DEF machine, budget
<1>1. ASSUME NEW m \in Manifests, Begin(m) PROVE IInv'
  <2>1. /\ job' = [at |-> "remove", man |-> m, todo |-> Gone(m)] /\ file' = m
        /\ job.at = "off" /\ whole' = FALSE
        /\ UNCHANGED <<ram, ci, written, slices, short>>
    BY <1>1 DEF Begin
  <2>2. Gone(m) \subseteq Units /\ m # None
    BY ExpectedIsInstalled, BrainAssumption DEF Gone
  <2> QED BY <2>1, <2>2 DEF IInv, Stretch, Over, Agree
<1>2. ASSUME UNCHANGED <<ram, ci, file, budget, whole>>,
             job.at \in {"remove", "install", "start"},
             job'.at = job.at \/ job'.at = "install", job'.man = job.man,
             job' \in [at : {"off", "remove", "install", "start", "budget", "parent",
                             "brain", "user", "limits"},
                       man : Manifests \cup {None}, todo : SUBSET Units]
      PROVE  IInv'
  <2>1. Stretch'
    BY <1>2 DEF IInv, Stretch
  <2> QED BY <1>2, <2>1, BudgetRests DEF IInv
<1>3. ASSUME NEW u \in Units,
             \/ \E disabled, stopped \in BOOLEAN : RemoveUnit(u, disabled, stopped)
             \/ InstallUnit(u)
             \/ \E now \in Manifests \cup {None} : Start(u, now)
      PROVE  IInv'
  <2>1. /\ UNCHANGED <<ram, ci, file, budget, whole>> /\ job.at \in {"remove", "install", "start"}
        /\ job' = [job EXCEPT !.todo = job.todo \ {u}]
    BY <1>3 DEF RemoveUnit, InstallUnit, Start, AtStart, Done
  <2> QED BY <2>1, <1>2 DEF IInv
<1>4. CASE Install
  <2>1. /\ UNCHANGED <<ram, ci, file, budget, whole>> /\ job.at = "remove"
        /\ job' = [job EXCEPT !.at = "install", !.todo = UnitsOf(job.man)]
    BY <1>4 DEF Install, Turn, Goes
  <2> QED BY <2>1, <1>2, ExpectedIsInstalled DEF IInv
<1>5. CASE DaemonReload
  <2>1. /\ UNCHANGED <<ram, ci, file, written, whole>> /\ Loads /\ job.at = "install"
        /\ job' = [job EXCEPT !.at = "start", !.todo = Expected(job.man)]
    BY <1>5 DEF DaemonReload, Turn, Goes
  <2>2. Expected(job.man) \subseteq Units
    BY ExpectedIsInstalled
  <2>3. /\ job'.at = "start" /\ job'.man = job.man
        /\ job' \in [at : {"off", "remove", "install", "start", "budget", "parent",
                           "brain", "user", "limits"},
                     man : Manifests \cup {None}, todo : SUBSET Units]
    BY <2>1, <2>2 DEF IInv
  <2>4. Stretch'
    BY <2>1, <2>3 DEF IInv, Stretch, Loads
  <2> QED BY <2>1, <2>3, <2>4, LoadsKeep DEF IInv
<1>6. CASE WriteRecord
  <2>1. /\ UNCHANGED <<ram, ci, file, budget, whole>> /\ job.at = "start"
        /\ job' = [job EXCEPT !.at = "budget", !.todo = {}]
    BY <1>6 DEF WriteRecord, Turn, Goes
  <2>2. Stretch'
    BY <2>1 DEF IInv, Stretch
  <2> QED BY <2>1, <2>2, BudgetRests DEF IInv, Stretch
<1>7. CASE Rebudget
  <2>1. /\ UNCHANGED <<ram, ci, file, budget, whole>> /\ job.at = "budget" /\ CanFit
        /\ job' = [job EXCEPT !.at = "parent", !.todo = {}]
    BY <1>7 DEF Rebudget, Turn, Goes
  <2>2. Stretch'
    BY <2>1 DEF IInv, Stretch, CanFit, Peak
  <2> QED BY <2>1, <2>2, BudgetRests DEF IInv, Stretch
<1>8. CASE WriteSlice
  <2>1. /\ UNCHANGED <<ram, ci, file, slices, short, whole>> /\ job.at \in SliceFiles
        /\ written' = [written EXCEPT ![job.at] = Peak(file)]
        /\ job' = [job EXCEPT !.at = Following[job.at], !.todo = {}]
    BY <1>8 DEF WriteSlice, Goes
  <2>2. Peak(file) \in Nat /\ Peak(file)' = Peak(file) /\ CanFit /\ ~whole
    BY <2>1, PeakIsNat DEF IInv, Stretch, SliceFiles, Peak
  <2>3. /\ written' \in [SliceFiles -> Nat]
        /\ \A f \in SliceFiles : Fits(ram, written'[f], ci)
    BY <2>1, <2>2 DEF IInv, CanFit
  <2>4. CanFit'
    BY <2>1, <2>2 DEF CanFit
  <2>5. /\ job.at = "parent" => written'["parent"] = Peak(file) /\ job'.at = "brain"
        /\ job.at = "brain" => /\ written'["brain"] = Peak(file) /\ job'.at = "user"
                               /\ written'["parent"] = written["parent"]
        /\ job.at = "user" => /\ written'["user"] = Peak(file) /\ job'.at = "limits"
                              /\ written'["parent"] = written["parent"]
                              /\ written'["brain"] = written["brain"]
    BY <2>1 DEF IInv, SliceFiles, Following
  <2>6. Stretch' /\ job' \in [at : {"off", "remove", "install", "start", "budget", "parent",
                                 "brain", "user", "limits"},
                           man : Manifests \cup {None}, todo : SUBSET Units]
    BY <2>1, <2>2, <2>4, <2>5 DEF IInv, Stretch, SliceFiles, Agree
  <2>7. Over(slices)' = Over(slices)
    BY <2>1 DEF Over
  <2>8. Over(written)' => short \/ job'.at = "user"
    <3>1. CASE job.at = "parent"
      BY <2>1, <3>1 DEF IInv, Over, SliceFiles
    <3>2. CASE job.at = "brain"
      BY <2>5, <3>2
    <3>3. CASE job.at = "user"
      <4>1. BrainMax(ram, written["brain"]) \in Nat
        BY ShareIsNat DEF SliceFiles
      <4>2. written'["brain"] = written'["user"] /\ written'["brain"] = written["brain"]
        BY <2>5, <3>3 DEF IInv, Stretch
      <4> QED BY <2>1, <4>1, <4>2 DEF Over
    <3> QED BY <2>1, <3>1, <3>2, <3>3 DEF SliceFiles
  <2> QED BY <2>1, <2>2, <2>3, <2>6, <2>7, <2>8 DEF IInv
<1>9. CASE LoadSlices
  <2>1. /\ UNCHANGED <<ram, ci, file, written>> /\ Loads /\ job.at = "limits" /\ job' = Idle
    BY <1>9 DEF LoadSlices, Finish
  <2>2. Stretch' /\ job' \in [at : {"off", "remove", "install", "start", "budget", "parent",
                                 "brain", "user", "limits"},
                           man : Manifests \cup {None}, todo : SUBSET Units]
    BY <2>1 DEF Stretch, Idle
  <2> QED BY <2>1, <2>2, LoadsKeep DEF IInv, Stretch
<1>10. CASE Returns
  <2>1. /\ UNCHANGED <<ram, ci, file, written, slices, short>> /\ job.at = "budget" /\ job' = Idle
        /\ Agree(written, Peak(file)) /\ whole' = (whole \/ job.man # None)
    BY <1>10 DEF Returns, Finish
  <2>2. Stretch' /\ job' \in [at : {"off", "remove", "install", "start", "budget", "parent",
                                 "brain", "user", "limits"},
                           man : Manifests \cup {None}, todo : SUBSET Units]
    BY <2>1 DEF Stretch, Idle
  <2>3. whole' => slices = written
    BY <2>1 DEF IInv, Stretch
  <2> QED BY <2>1, <2>2, <2>3, BudgetRests
<1>11. CASE CutShort
  <2>1. /\ UNCHANGED <<ram, ci, file, written, slices, whole>> /\ job' = Idle
        /\ short' = (short \/ (job.at = "user" /\ Over(written)))
    BY <1>11 DEF CutShort, Over
  <2>2. Stretch' /\ job' \in [at : {"off", "remove", "install", "start", "budget", "parent",
                                 "brain", "user", "limits"},
                           man : Manifests \cup {None}, todo : SUBSET Units]
    BY <2>1 DEF Stretch, Idle
  <2>3. Over(written)' = Over(written) /\ Over(slices)' = Over(slices)
    BY <2>1 DEF Over
  <2>4. Peak(file)' = Peak(file)
    BY <2>1 DEF Peak
  <2> QED BY <2>1, <2>2, <2>3, <2>4 DEF IInv, Agree
<1>12. CASE RunInstaller
  <2>1. /\ UNCHANGED <<ram, ci, file, budget, whole>> /\ job.at = "off"
        /\ job' = [Idle EXCEPT !.at = "budget"] /\ ~Agree(written, Peak(file))
    BY <1>12 DEF RunInstaller
  <2>2. Stretch' /\ job' \in [at : {"off", "remove", "install", "start", "budget", "parent",
                                 "brain", "user", "limits"},
                           man : Manifests \cup {None}, todo : SUBSET Units]
    BY <2>1 DEF IInv, Stretch, Idle
  <2> QED BY <2>1, <2>2, BudgetRests DEF IInv
<1>13. CASE Reboot
  <2>1. /\ UNCHANGED <<ram, ci, file, written, job, whole>> /\ Loads /\ job.at = "off"
    BY <1>13 DEF Reboot
  <2>2. Stretch'
    BY <2>1 DEF IInv, Stretch
  <2> QED BY <2>1, <2>2, LoadsKeep DEF IInv
<1>14. CASE UNCHANGED vars
  <2>1. Stretch'
    BY <1>14 DEF vars, IInv, Stretch, CanFit, Agree, Peak
  <2> QED BY <1>14, <2>1, BudgetRests DEF vars, IInv
<1> QED
  BY <1>1, <1>3, <1>4, <1>5, <1>6, <1>7, <1>8, <1>9, <1>10, <1>11, <1>12, <1>13, <1>14
     DEF Next

(* And then what can run at once fits. *)
LEMMA Implies == IInv => BudgetHolds
<1> SUFFICES ASSUME IInv PROVE BudgetHolds
  OBVIOUS
<1>1. ram \in Nat /\ ci \in BOOLEAN /\ slices["user"] \in Nat /\ slices["brain"] \in Nat
  BY BrainAssumption DEF IInv, SliceFiles
<1>2. ASSUME ~short PROVE Scale * CeilingsOf(slices) + Margin(ram) <= Scale * ram
  <2>1. BrainMax(ram, slices["brain"]) \in Nat /\ BrainMax(ram, slices["user"]) \in Nat
    BY ShareIsNat DEF SliceFiles
  <2>2. BrainMax(ram, slices["brain"]) <= BrainMax(ram, slices["user"])
    BY <1>2, <2>1 DEF IInv, Over
  <2>3. Fits(ram, slices["user"], ci)
    BY DEF IInv, SliceFiles
  <2> QED BY <1>1, <2>2, <2>3, CeilingsBelowRam DEF CeilingsOf
<1>3. ASSUME whole, file # None
      PROVE  Compute(ram, slices["brain"], ci).brain
               >= Lower(file.peak, RoundDown(10000 * ram))
  <2>1. file.peak = Peak(file) /\ Peak(file) \in Nat /\ slices["brain"] = Peak(file)
    BY <1>3, PeakIsNat DEF Peak, IInv, Agree, SliceFiles
  <2> QED BY <1>1, <2>1, PeakFits
<1> QED BY <1>2, <1>3 DEF BudgetHolds

(* For every machine whose memory takes the reference split, and whatever  *)
(* manifests are applied, cut short or refused for want of memory: at      *)
(* every moment, and after a reboot at any, the ceilings and the margin    *)
(* together never exceed physical RAM, unless memory-budget was cut        *)
(* between raising the brain's and lowering the owner's; and the brain's   *)
(* own ceiling is not below its declared peak unless that is more than a   *)
(* third of RAM.                                                           *)
THEOREM BudgetNeverExceedsRam == Spec => []BudgetHolds
<1>1. IInv /\ [Next]_vars => IInv'
  BY Preserved
<1> QED BY Initially, Implies, <1>1, PTL DEF Spec

----------------------------------------------------------------------------
(* Nothing is left of a unit on the host, but what systemd failed to stop. *)
Clean(u) == text[u] = None /\ (u \in unseen \/ (running[u] = None /\ u \notin enabled))

Types ==
  /\ {file, record} \subseteq Manifests \cup {None}
  /\ text \in [Units -> Manifests \cup {None}]
  /\ loaded \in [Units -> Manifests \cup {None}]
  /\ running \in [Units -> Manifests \cup {None}]
  /\ enabled \subseteq Units /\ torn \subseteq Units /\ unseen \subseteq Units
  /\ job \in [at : {"off", "remove", "install", "start", "budget", "parent", "brain",
                    "user", "limits"},
              man : Manifests \cup {None}, todo : SUBSET Units]

(***************************************************************************)
(* The inductive invariant of the units.  What there is of a unit is       *)
(* accounted for: it is in the record, the apply under way installs it, or *)
(* one that was cut short had.                                             *)
(***************************************************************************)
Accounted ==
  \A u \in Units : \/ Clean(u)
                   \/ u \in UnitsOf(record) \cup torn
                   \/ job.at \in {"install", "start"} /\ u \in UnitsOf(job.man)

(* A unit the health check looks for, as an apply leaves it.               *)
Started(u, m) == u \in enabled /\ (running[u] = m \/ u \in unseen)

(* How far the apply has come; the record it replaces is the last to go,   *)
(* when nothing is left of the units that only it lists.                   *)
Applying ==
  /\ file = job.man
  /\ job.at = "remove" =>
       job.todo \subseteq Gone(job.man) /\ \A u \in Gone(job.man) \ job.todo : Clean(u)
  /\ job.at \in {"install", "start"} => \A u \in Gone(job.man) : Clean(u)
  /\ job.at = "install" => /\ job.todo \subseteq UnitsOf(job.man)
                           /\ \A u \in UnitsOf(job.man) \ job.todo : text[u] = job.man
  /\ job.at \notin {"remove", "install"} =>
       /\ job.todo \subseteq Expected(job.man)
       /\ \A u \in UnitsOf(job.man) : text[u] = job.man /\ loaded[u] = job.man
       /\ \A u \in Expected(job.man) \ job.todo : Started(u, job.man)
  /\ job.at \notin {"remove", "install", "start"} => record = job.man /\ job.todo = {}

Progress ==
  /\ job.at # "off" => ~whole
  /\ job.at \in {"remove", "install", "start"} => job.man # None
  /\ job.at # "off" /\ job.man # None => Applying

(* What an apply that returned leaves, and a reboot brings back.           *)
Applied ==
  whole => /\ record = file
           /\ \A u \in UnitsOf(file) : text[u] = file
           /\ \A u \in Expected(file) : Started(u, file)

UnitsInv == Types /\ Accounted /\ Progress /\ Applied

(* Every step keeps the invariant.                                         *)
LEMMA UnitsStep == IInv /\ UnitsInv /\ [Next]_vars => UnitsInv'
<1> SUFFICES ASSUME IInv, UnitsInv, [Next]_vars PROVE UnitsInv'
  OBVIOUS
<1> USE ExpectedIsInstalled, BrainAssumption
    DEF UnitsInv, Types, Accounted, Progress, Applying, Started, Applied, Clean, Gone
<1>1. ASSUME NEW m \in Manifests, Begin(m) PROVE UnitsInv'
  <2> USE <1>1 DEF Begin, units, machine
  <2>1. Types'
    OBVIOUS
  <2>2. Accounted'
    OBVIOUS
  <2>3. Progress'
    OBVIOUS
  <2>4. Applied'
    OBVIOUS
  <2> QED
    BY <2>1, <2>2, <2>3, <2>4
<1>2. ASSUME NEW u \in Units, NEW disabled \in BOOLEAN, NEW stopped \in BOOLEAN,
             RemoveUnit(u, disabled, stopped)
      PROVE  UnitsInv'
  <2> USE <1>2 DEF RemoveUnit, Done, Unlooked
  <2>1. Types'
    OBVIOUS
  <2>2. Accounted'
    OBVIOUS
  <2>3. Progress'
    OBVIOUS
  <2>4. Applied'
    OBVIOUS
  <2> QED
    BY <2>1, <2>2, <2>3, <2>4
<1>3. ASSUME NEW u \in Units, InstallUnit(u) PROVE UnitsInv'
  <2>0. u \in job.todo /\ job' = [job EXCEPT !.todo = job.todo \ {u}]
    BY <1>3, FirstIsToDo DEF InstallUnit, Done
  <2> USE <1>3, <2>0 DEF InstallUnit
  <2>1. Types'
    OBVIOUS
  <2>2. Accounted'
    OBVIOUS
  <2>3. Progress'
    OBVIOUS
  <2>4. Applied'
    OBVIOUS
  <2> QED
    BY <2>1, <2>2, <2>3, <2>4
<1>4. ASSUME NEW u \in Units, NEW now \in Manifests \cup {None}, Start(u, now)
      PROVE  UnitsInv'
  <2>0. u \in job.todo /\ job' = [job EXCEPT !.todo = job.todo \ {u}]
    BY <1>4, FirstIsToDo DEF Start, AtStart, Done
  <2> USE <1>4, <2>0 DEF Start, AtStart, Enabled, Unlooked
  <2>1. Types'
    OBVIOUS
  <2>2. Accounted'
    OBVIOUS
  <2>3. Progress'
    OBVIOUS
  <2>4. Applied'
    OBVIOUS
  <2> QED
    BY <2>1, <2>2, <2>3, <2>4
<1>5. CASE Install
  <2> USE <1>5 DEF Install, Turn, Goes, units
  <2>1. Types'
    OBVIOUS
  <2>2. Accounted'
    OBVIOUS
  <2>3. Progress'
    OBVIOUS
  <2>4. Applied'
    OBVIOUS
  <2> QED
    BY <2>1, <2>2, <2>3, <2>4
<1>6. CASE DaemonReload
  <2> USE <1>6 DEF DaemonReload, Loads, Turn, Goes
  <2>1. Types'
    OBVIOUS
  <2>2. Accounted'
    OBVIOUS
  <2>3. Progress'
    OBVIOUS
  <2>4. Applied'
    OBVIOUS
  <2> QED
    BY <2>1, <2>2, <2>3, <2>4
<1>7. CASE WriteRecord
  <2> USE <1>7 DEF WriteRecord, Turn, Goes, units
  <2>1. Types'
    BY ZenonT(40)
  <2>2. Accounted'
    OBVIOUS
  <2>3. Progress'
    OBVIOUS
  <2>4. Applied'
    OBVIOUS
  <2> QED
    BY <2>1, <2>2, <2>3, <2>4
<1>8. CASE Rebudget
  <2> USE <1>8 DEF Rebudget, Turn, Goes, units
  <2>1. Types'
    OBVIOUS
  <2>2. Accounted'
    OBVIOUS
  <2>3. Progress'
    OBVIOUS
  <2>4. Applied'
    OBVIOUS
  <2> QED
    BY <2>1, <2>2, <2>3, <2>4
<1>9. CASE WriteSlice
  <2>0. /\ job.at \in {"parent", "brain", "user"}
        /\ Following[job.at] \in {"brain", "user", "limits"}
    BY <1>9 DEF WriteSlice, SliceFiles, Following
  <2> USE <1>9, <2>0 DEF WriteSlice, Goes, units
  <2>1. Types'
    OBVIOUS
  <2>2. Accounted'
    OBVIOUS
  <2>3. Progress'
    OBVIOUS
  <2>4. Applied'
    OBVIOUS
  <2> QED
    BY <2>1, <2>2, <2>3, <2>4
<1>10. CASE LoadSlices
  <2> USE <1>10 DEF LoadSlices, Loads, Finish, Idle
  <2>1. Types'
    OBVIOUS
  <2>2. Accounted'
    OBVIOUS
  <2>3. Progress'
    OBVIOUS
  <2>4. Applied'
    OBVIOUS
  <2> QED
    BY <2>1, <2>2, <2>3, <2>4
<1>11. CASE Returns
  <2> USE <1>11 DEF Returns, Finish, Idle, units
  <2>1. Types'
    OBVIOUS
  <2>2. Accounted'
    OBVIOUS
  <2>3. Progress'
    OBVIOUS
  <2>4. Applied'
    OBVIOUS
  <2> QED
    BY <2>1, <2>2, <2>3, <2>4
<1>12. CASE CutShort
  <2> USE <1>12 DEF CutShort, Idle, units
  <2>1. Types'
    OBVIOUS
  <2>2. Accounted'
    OBVIOUS
  <2>3. Progress'
    OBVIOUS
  <2>4. Applied'
    OBVIOUS
  <2> QED
    BY <2>1, <2>2, <2>3, <2>4
<1>13. CASE RunInstaller
  <2>0. ~whole
    BY <1>13 DEF RunInstaller, IInv
  <2> USE <1>13, <2>0 DEF RunInstaller, Idle, units
  <2>1. Types'
    OBVIOUS
  <2>2. Accounted'
    OBVIOUS
  <2>3. Progress'
    OBVIOUS
  <2>4. Applied'
    OBVIOUS
  <2> QED
    BY <2>1, <2>2, <2>3, <2>4
<1>14. CASE Reboot
  <2> USE <1>14 DEF Reboot, Loads
  <2>1. Types'
    OBVIOUS
  <2>2. Accounted'
    OBVIOUS
  <2>3. Progress'
    OBVIOUS
  <2>4. Applied'
    OBVIOUS
  <2> QED
    BY <2>1, <2>2, <2>3, <2>4
<1>15. CASE UNCHANGED vars
  <2> USE <1>15 DEF vars, units
  <2>1. Types'
    OBVIOUS
  <2>2. Accounted'
    OBVIOUS
  <2>3. Progress'
    OBVIOUS
  <2>4. Applied'
    OBVIOUS
  <2> QED
    BY <2>1, <2>2, <2>3, <2>4
<1> QED
  BY <1>1, <1>2, <1>3, <1>4, <1>5, <1>6, <1>7, <1>8,
     <1>9, <1>10, <1>11, <1>12, <1>13, <1>14, <1>15, ZenonT(40) DEF Next

(* The invariant holds in every reachable state.                           *)
LEMMA UnitsAlways == Spec => [](IInv /\ UnitsInv)
<1>1. Init => UnitsInv
  <2> SUFFICES ASSUME Init PROVE UnitsInv
    OBVIOUS
  <2> USE ExpectedIsInstalled DEF Init, Idle
  <2>1. Types
    BY DEF Types
  <2>2. Accounted /\ Progress /\ Applied
    BY DEF Accounted, Progress, Applied, Clean
  <2> QED
    BY <2>1, <2>2 DEF UnitsInv
<1>2. IInv /\ [Next]_vars => IInv'
  BY Preserved
<1> QED
  BY <1>1, <1>2, Initially, UnitsStep, PTL DEF Spec

(* What an apply that returned says is in force is in force: the manifest  *)
(* is the recorded one, each of its services comes back after a reboot and *)
(* runs from its own text, unless its restart failed unseen, and the       *)
(* memory is split by its peak, whatever applies were cut short before and *)
(* at whatever unit or file.                                               *)
THEOREM ReturnedIsInForce == Spec => []InForce
<1>1. IInv /\ UnitsInv => InForce
  BY ExpectedIsInstalled DEF IInv, UnitsInv, Applied, Started, InForce
<1> QED
  BY UnitsAlways, <1>1, PTL

(* Nothing remains, runs or comes back of a service the manifest does not  *)
(* list, but of a unit systemd failed to stop unseen, until a reboot, and  *)
(* of those an apply that was cut short had installed and not yet          *)
(* recorded.                                                               *)
THEOREM NothingStrays == Spec => []NoStrays
<1>1. UnitsInv => NoStrays
  BY DEF UnitsInv, Accounted, Progress, Applied, Clean, NoStrays
<1> QED
  BY <1>1, UnitsAlways, PTL

-----------------------------------------------------------------------------
(***************************************************************************)
(* The guard's inductive invariant.  The three properties are about what   *)
(* the kernel keeps frozen, while the guard goes by markers and by two     *)
(* clocks of its own: Place ties where freeze() and thaw() are to the      *)
(* markers, Clock ties the guard's frozen_at, and Rest its hold_until, to  *)
(* the time that really passed.                                            *)
(***************************************************************************)

(* thaw() has dealt with the slices before the one it is at.               *)
Place ==
  /\ pc \in {"mark", "unmark"} => at <= Len(Slices)
  /\ pc = "mark" => Slices[at] \in frozen
  /\ pc = "unmark" => Slices[at] \notin Known
  /\ pc \in {"thaw", "unmark"} =>
       \A i \in 1 .. Len(Slices) : i < at => Slices[i] \notin Known

(* A guard that knows of a freeze has counted at least as long as it has   *)
(* lasted; one that is freezing found nothing frozen when it began.        *)
Clock ==
  /\ pc = "sleep" => age = Never \/ age < MaxFreeze
  /\ ~forgot /\ Known # {} =>
       /\ pc # "down"
       /\ pc = "sleep" => age # Never /\ since <= age
       /\ pc \in {"thaw", "unmark"} => since <= MaxFreeze
  /\ ~forgot /\ pc \in {"freeze", "mark"} => since = 0

(* The hold lasts until the slices have had their rest.                    *)
Rest ==
  /\ hold + rest >= HoldAfter
  /\ rest < HoldAfter => Known = {} /\ pc \notin {"freeze", "mark"}

GuardInv == GuardTypeOK /\ Place /\ Clock /\ Rest /\ FrozenCanBeThawed

(* Every slice has its place in the list; it is at most the place after    *)
(* the last one that freeze() and thaw() get to.                           *)
LEMMA SlicesListed ==
  /\ Len(Slices) \in Nat
  /\ \A i \in 1 .. Len(Slices) : Slices[i] \in SliceSet
  /\ \A s \in SliceSet : \E i \in 1 .. Len(Slices) : Slices[i] = s
  BY ConstantsAssumption DEF SliceSet

(* Every step keeps the invariant.                                         *)
LEMMA GuardStep == GuardInv /\ [GuardNext]_guardVars => GuardInv'
<1> SUFFICES ASSUME GuardInv, [GuardNext]_guardVars PROVE GuardInv'
  OBVIOUS
<1> USE ConstantsAssumption, SlicesListed
    DEF GuardInv, GuardTypeOK, Place, Clock, Rest, FrozenCanBeThawed, Known, memory
<1>0. forgot' \in BOOLEAN
  BY Zenon DEF GuardNext, Work, Release, BadCycle, GoodCycle, Time, FreezeSlice, Mark,
     Froze, ThawSlice, Unmark, Thawed, Stop, Kill, StartGuard, guardVars
<1>1. CASE Release
  BY <1>0, <1>1 DEF Release, FrozenTooLong, Time, Call, Older, Left
<1>2. CASE BadCycle
  <2> USE <1>0, <1>2 DEF BadCycle, FrozenTooLong, Time, Call, Older, Left, Enough,
     MayFreeze
  <2>1. GuardTypeOK'
    OBVIOUS
  <2>2. Place'
    OBVIOUS
  <2>3. Clock'
    BY SMTT(20)
  <2>4. Rest'
    OBVIOUS
  <2>5. FrozenCanBeThawed'
    OBVIOUS
  <2> QED
    BY <2>1, <2>2, <2>3, <2>4, <2>5
<1>3. CASE GoodCycle
  <2>1. GuardTypeOK'
    BY <1>0, <1>3 DEF GoodCycle, FrozenTooLong, Time, Call, Older, Left
  <2>2. Place' /\ Rest' /\ FrozenCanBeThawed'
    BY <1>3 DEF GoodCycle, FrozenTooLong, Time, Call, Older, Left
  <2>3. Clock'
    BY <1>3, SMTT(20) DEF GoodCycle, FrozenTooLong, Time, Call, Older, Left
  <2> QED
    BY <2>1, <2>2, <2>3
<1>4. CASE FreezeSlice
  BY <1>0, <1>4 DEF FreezeSlice, Slip
<1>5. CASE Mark
  BY <1>0, <1>5 DEF Mark, Marked
<1>6. CASE Froze
  BY <1>0, <1>6 DEF Froze, Call
<1>7. CASE ThawSlice
  <2> USE <1>0, <1>7 DEF ThawSlice, Slip
  <2>1. GuardTypeOK'
    OBVIOUS
  <2>2. Place'
    OBVIOUS
  <2>3. Clock'
    OBVIOUS
  <2>4. Rest'
    OBVIOUS
  <2>5. FrozenCanBeThawed'
    OBVIOUS
  <2> QED
    BY <2>1, <2>2, <2>3, <2>4, <2>5
<1>8. CASE Unmark
  BY <1>0, <1>8 DEF Unmark
<1>9. CASE Thawed
  <2>1. Known = {}
    <3> SUFFICES ASSUME NEW slice \in Known PROVE FALSE
      OBVIOUS
    <3>1. PICK i \in 1 .. Len(Slices) : Slices[i] = slice
      OBVIOUS
    <3>2. i < at
      BY <1>9 DEF Thawed
    <3> QED
      BY <1>9, <3>1, <3>2 DEF Thawed
  <2>2. frozen' = frozen /\ strays' = strays /\ Known' = {}
    BY <1>9, <2>1 DEF Thawed
  <2>3. pc' \in {"down", "sleep"} /\ at' = 1 /\ since' = 0
    BY <1>9, <2>1 DEF Thawed, Call
  <2>4. CASE goal = "release"
    <3>1. /\ age' = Never /\ bad' = 0 /\ good' = 0 /\ hold' = HoldAfter
          /\ rest' = 0 /\ goal' = goal /\ markers' = markers /\ slips' = slips
          /\ pc' = "sleep" /\ forgot' = forgot
      BY <1>9, <2>4 DEF Thawed, Call, FullHold
    <3> QED
      BY <1>0, <2>2, <2>3, <3>1
  <2>5. CASE goal = "recovered"
    <3>1. /\ age' = Never /\ bad' = bad /\ good' = 0 /\ hold' = hold
          /\ rest' = rest /\ goal' = goal /\ markers' = markers /\ slips' = slips
          /\ pc' = "sleep" /\ forgot' = forgot
      BY <1>9, <2>5 DEF Thawed, Call
    <3> QED
      BY <1>0, <2>2, <2>3, <3>1
  <2>6. CASE goal = "exit"
    <3>1. /\ age' = age /\ bad' = bad /\ good' = good /\ hold' = hold
          /\ rest' = rest /\ goal' = goal /\ markers' = markers /\ slips' = slips
          /\ pc' = "down" /\ forgot' = forgot
      BY <1>9, <2>6 DEF Thawed, Call
    <3> QED
      BY <1>0, <2>2, <2>3, <3>1
  <2> QED
    BY <2>4, <2>5, <2>6
<1>10. CASE Stop
  BY <1>0, <1>10 DEF Stop, EndsByThaw, Slip, Interrupted, Call
<1>11. CASE Kill
  <2>1. GuardTypeOK'
    BY <1>0, <1>11 DEF Kill, Slip, Interrupted, Call
  <2>2. Place' /\ Rest' /\ FrozenCanBeThawed'
    BY <1>11 DEF Kill, Slip, Interrupted, Call
  <2>3. Clock'
    BY <1>11 DEF Kill, Slip, Interrupted, Call
  <2> QED
    BY <2>1, <2>2, <2>3
<1>12. CASE StartGuard
  BY <1>0, <1>12 DEF StartGuard, Call
<1>13. CASE UNCHANGED guardVars
  BY <1>13 DEF guardVars
<1> QED
  BY <1>1, <1>2, <1>3, <1>4, <1>5, <1>6, <1>7, <1>8, <1>9, <1>10, <1>11, <1>12,
     <1>13 DEF GuardNext, Work

(* The invariant holds in every reachable state.                          *)
LEMMA GuardAlways == GuardSpec => []GuardInv
<1>1. ASSUME GuardInit PROVE GuardInv
  <2> USE ConstantsAssumption, SlicesListed, <1>1
      DEF GuardInit, GuardTypeOK, Place, Clock, Rest, FrozenCanBeThawed, Known
  <2>0. forgot \in BOOLEAN
    BY Zenon
  <2>1. GuardTypeOK
    BY <2>0
  <2>2. Place /\ Clock /\ Rest /\ FrozenCanBeThawed
    OBVIOUS
  <2> QED
    BY <2>1, <2>2 DEF GuardInv
<1> QED
  BY <1>1, GuardStep, PTL DEF GuardSpec

-----------------------------------------------------------------------------
(***************************************************************************)
(* No slice that the guard knows to be frozen stays so beyond the limit,   *)
(* however often guards are told to stop and whatever systemctl answers.   *)
(***************************************************************************)
THEOREM FreezesAreShort == GuardSpec => []NeverFrozenForLong
<1>1. GuardInv => NeverFrozenForLong
  <2> SUFFICES ASSUME GuardInv, Known # {}, ~forgot PROVE since <= MaxFreeze
    BY DEF NeverFrozenForLong
  <2>1. CASE pc \in {"freeze", "mark"}
    BY <2>1, ConstantsAssumption DEF GuardInv, Clock
  <2>2. CASE pc = "sleep"
    BY <2>2, ConstantsAssumption DEF GuardInv, GuardTypeOK, Clock
  <2>3. CASE pc \in {"thaw", "unmark"}
    BY <2>3 DEF GuardInv, Clock
  <2> QED
    BY <2>1, <2>2, <2>3 DEF GuardInv, GuardTypeOK, Clock
<1> QED
  BY <1>1, GuardAlways, PTL

(***************************************************************************)
(* Released slices have their half hour: until it is over nothing is       *)
(* frozen that the guard knows of.                                         *)
(***************************************************************************)
THEOREM SlicesRest == GuardSpec => []HoldsOff
<1>1. GuardInv => HoldsOff
  BY DEF GuardInv, Rest, HoldsOff
<1> QED
  BY <1>1, GuardAlways, PTL

(***************************************************************************)
(* What is frozen has its marker, so that any later guard can thaw it, and *)
(* a guard that is told to stop thaws what it has frozen.                  *)
(***************************************************************************)
THEOREM FrozenIsFound == GuardSpec => []FrozenCanBeThawed
<1>1. GuardInv => FrozenCanBeThawed
  BY DEF GuardInv
<1> QED
  BY <1>1, GuardAlways, PTL

(* The state variables keep their types and the counters their bounds.     *)
THEOREM TypeCorrect == GuardSpec => []GuardTypeOK
<1>1. GuardInv => GuardTypeOK
  BY DEF GuardInv
<1> QED
  BY <1>1, GuardAlways, PTL

=============================================================================
