-------------------------- MODULE Installer_proofs --------------------------
(***************************************************************************)
(* For any list of steps, whatever their parts, any answers, and any       *)
(* number of runs, reboots, drifts, changed answers and proofs by hand:    *)
(* the engine never goes past a step on the journal's word (InOrder).  And *)
(* for any table that is WellMade a second run repairs what the first left *)
(* undone, but for what no check sees (PassedIsWhole); WellOrdered, every  *)
(* step finds what it works on (Supplied).                                 *)
(***************************************************************************)
EXTENDS Installer, TLAPS

(* The rows are a sequence, visited by their numbers. *)
LEMMA Listed == Len(Rows) \in Nat /\ DOMAIN Rows = 1..Len(Rows)
  BY InstallerAssumption

(* The installer's own record of where it is.                              *)
Places == {"off", "check", "apply", "verify", "proving", "armed", "finished"}
InstOK == inst \in [at : Places, n : Nat \ {0}, k : Nat \ {0},
                    active : SUBSET ToSet(Steps),
                    mode : {"reboot", "no-reboot", "skip"}]

(* It stands at a step of the list while it works, and at one that applies *)
(* while it applies or verifies; only the proof has it wait; and it        *)
(* verifies only what apply() returned from.                               *)
Place ==
  /\ inst.at \notin {"off", "finished"} => inst.n <= Len(Rows) + 1
  /\ inst.at = "finished" => inst.n = Len(Rows) + 2
  /\ inst.at \in {"apply", "verify"} => AtProof \/ Current \in inst.active
  /\ inst.at \in {"proving", "armed"} => AtProof
  /\ inst.at = "verify" => AtProof \/ Current \in applied

(* A receipt that says ok was written by a proof that held.                *)
Honest == Proven => proved

IInv == InstOK /\ Place /\ InOrder /\ Honest

(* No run has begun, and nothing is behind one. *)
LEMMA InvInit == Init => IInv
<1> SUFFICES ASSUME Init PROVE IInv
  OBVIOUS
<1>1. InstOK
  BY DEF Init, InstOK, Off, Places
<1> QED
  BY <1>1 DEF Init, IInv, Place, InOrder, Passed, Honest, Proven, Off

(* What the step at hand must be before the installer leaves it behind.    *)
Standing == IF AtProof THEN proved \/ inst.mode = "skip"
            ELSE Current \in inst.active => Behind(R)

(* What no step of the installer's run undoes for the steps behind it.     *)
Kept == /\ made \subseteq made' /\ drifted \subseteq drifted'
        /\ declined \subseteq declined' /\ applied \subseteq applied'

(* Going on to the next step, past one that stands.                        *)
LEMMA GoOn ==
  ASSUME IInv, inst.at \notin {"off", "finished"}, Standing, GoesOn, Kept,
         UNCHANGED <<receipt, proved>>
  PROVE  IInv'
<1>1. inst.n \in 1..Len(Rows) + 1
  BY Listed DEF IInv, InstOK, Place
<1>2. AtProof <=> inst.n = Len(Rows) + 1
  BY DEF AtProof
<1>3. /\ inst' = [inst EXCEPT !.at = IF AtProof THEN "finished" ELSE "check",
                              !.n = inst.n + 1, !.k = 1]
      /\ InstOK
  BY DEF GoesOn, IInv
<1>4. InstOK'
  <2>1. inst.n + 1 \in Nat \ {0} /\ 1 \in Nat \ {0}
    BY <1>1, Listed
  <2>2. (IF AtProof THEN "finished" ELSE "check") \in Places
    BY DEF Places
  <2>3. inst' \in [at : Places, n : Nat \ {0}, k : Nat \ {0},
                   active : SUBSET ToSet(Steps),
                   mode : {"reboot", "no-reboot", "skip"}]
    BY <1>3, <2>1, <2>2, Zenon DEF InstOK
  <2> QED
    BY <2>3 DEF InstOK
<1>5. /\ inst'.n = inst.n + 1 /\ inst'.active = inst.active /\ inst'.mode = inst.mode
      /\ inst'.at = IF AtProof THEN "finished" ELSE "check"
  BY <1>3 DEF InstOK
<1>6. Place'
  BY <1>1, <1>2, <1>5, Listed DEF Place
<1>7. InOrder'
  <2>1. ASSUME NEW m \in Passed'
        PROVE  Behind(Rows[m])'
    <3>1. m \in 1..Len(Rows) /\ m < inst.n + 1 /\ Rows[m].id \in inst.active
      BY <1>5 DEF Passed
    <3>2. Behind(Rows[m])
      <4>1. CASE m = inst.n
        BY <4>1, <3>1, <1>2, Listed DEF Standing, Current, R
      <4>2. CASE m # inst.n
        <5>1. m \in Passed
          BY <4>2, <3>1, <1>1, Listed DEF Passed
        <5> QED
          BY <5>1 DEF IInv, InOrder
      <4> QED
        BY <4>1, <4>2
    <3> QED
      BY <3>2 DEF Behind, Kept
  <2>2. inst'.n > Len(Rows) + 1 => proved \/ inst.mode = "skip"
    BY <1>1, <1>2, <1>5, Listed DEF Standing
  <2> QED
    BY <2>1, <2>2, <1>5 DEF InOrder
<1>8. Honest'
  BY DEF IInv, Honest, Proven
<1> QED
  BY <1>4, <1>6, <1>7, <1>8 DEF IInv

(* Steps that leave the installer at its step of the list.                 *)
LEMMA Remains ==
  ASSUME IInv, InstOK', Place', Honest', proved => proved',
         inst'.at = "off" \/ inst.at # "off",
         inst'.n = inst.n, inst'.active = inst.active, inst'.mode = inst.mode,
         \A m \in Passed : Behind(Rows[m])'
  PROVE  IInv'
<1>1. \A m \in Passed' : m \in Passed
  BY DEF Passed
<1>2. InOrder'
  BY <1>1 DEF IInv, InOrder
<1> QED
  BY <1>2 DEF IInv

(* Changing where it is at the same step, in a way Place allows.           *)
LEMMA MovesTo ==
  ASSUME IInv, inst.at # "off", NEW where \in Places,
         inst' = [inst EXCEPT !.at = where],
         Kept, UNCHANGED <<receipt, proved>>,
         where \notin {"off", "finished"}, inst.at # "finished",
         where \in {"apply", "verify"} => AtProof \/ Current \in inst.active,
         where \in {"proving", "armed"} => AtProof,
         where = "verify" => AtProof \/ Current \in applied'
  PROVE  IInv'
<1>1. InstOK' /\ inst'.n = inst.n /\ inst'.active = inst.active
      /\ inst'.mode = inst.mode /\ inst'.at = where
  BY DEF IInv, InstOK, Places
<1>2. Place'
  BY <1>1 DEF IInv, Place, AtProof, Current, R
<1>3. \A m \in Passed : Behind(Rows[m])'
  BY DEF IInv, InOrder, Behind, Kept
<1>4. Honest'
  BY DEF IInv, Honest, Proven
<1> QED
  BY <1>1, <1>2, <1>3, <1>4, Remains

(* A run that ends leaves nothing to show.                                 *)
LEMMA GoesOff ==
  ASSUME IInv, inst' = Off, UNCHANGED <<receipt, proved>>
  PROVE  IInv'
<1>1. InstOK' /\ inst'.at = "off"
  BY DEF InstOK, Off, Places
<1> QED
  BY <1>1 DEF IInv, Place, InOrder, Passed, Honest, Proven

(* Steps that leave the installer where it is.                             *)
LEMMA Stays ==
  ASSUME IInv, inst' = inst, applied' = applied, Honest', proved => proved',
         \A m \in Passed : Behind(Rows[m])'
  PROVE  IInv'
<1>1. InstOK' /\ Place'
  BY DEF IInv, InstOK, Place, AtProof, Current, R
<1> QED
  BY <1>1, Remains DEF IInv

(* No step of a run, cut or not, breaks it. *)
LEMMA InvStep == IInv /\ [Next]_vars => IInv'
<1> SUFFICES ASSUME IInv, [Next]_vars PROVE IInv'
  OBVIOUS
<1> USE DEF machine, proof
<1>1. ASSUME NEW skipped \in SUBSET Optional, NEW mode \in Modes,
             Start(ToSet(Steps) \ skipped, mode)
      PROVE  IInv'
  <2>1. /\ inst' = [at |-> "check", n |-> 1, k |-> 1,
                    active |-> ToSet(Steps) \ skipped, mode |-> mode]
        /\ UNCHANGED <<receipt, proved>>
    BY <1>1 DEF Start
  <2>2. mode \in {"reboot", "no-reboot", "skip"}
    BY InstallerAssumption
  <2>3. InstOK'
    BY <2>1, <2>2 DEF InstOK, Places
  <2>4. Passed' = {}
    BY <2>1 DEF Passed
  <2> QED
    BY <2>1, <2>3, <2>4, Listed DEF IInv, Place, InOrder, Honest, Proven
<1>2. CASE Pass
  <2>1. Standing /\ Kept
    BY <1>2 DEF Pass, Standing, Kept
  <2> QED
    BY <1>2, <2>1, GoOn DEF Pass
<1>3. CASE Skip
  <2>1. Standing
    BY <1>3 DEF Skip, Skips, Checks, Stands, Standing, Behind, IInv, Honest
  <2>2. Kept
    BY <1>3 DEF Skip, Kept
  <2> QED
    BY <1>3, <2>1, <2>2, GoOn DEF Skip, Applies
<1>4. CASE Begin
  <2>1. /\ inst.at = "check" /\ (AtProof \/ Current \in inst.active)
        /\ inst' = [inst EXCEPT !.at = "apply"]
        /\ Kept /\ UNCHANGED <<receipt, proved>>
    BY <1>4 DEF Begin, Applies, Kept
  <2> QED
    BY <2>1, MovesTo DEF Places
<1>5. ASSUME NEW works \in BOOLEAN, Apply(works)
      PROVE  IInv'
  <2>1. /\ inst.at = "apply" /\ inst' = [inst EXCEPT !.k = inst.k + 1]
        /\ Kept /\ UNCHANGED <<receipt, proved, applied>>
    BY <1>5 DEF Apply, AppliesStep, Kept
  <2>2. InstOK' /\ inst'.n = inst.n /\ inst'.active = inst.active
        /\ inst'.mode = inst.mode /\ inst'.at = "apply"
    BY <2>1 DEF IInv, InstOK, Places
  <2>3. Place'
    BY <2>1, <2>2 DEF IInv, Place, AtProof, Current, R
  <2>4. \A m \in Passed : Behind(Rows[m])'
    BY <2>1 DEF IInv, InOrder, Behind, Kept
  <2> QED
    BY <2>1, <2>2, <2>3, <2>4, Remains DEF IInv, Honest, Proven
<1>6. ASSUME ApplyReturns \/ ApplyDeclines
      PROVE  IInv'
  <2>1. /\ inst.at = "apply" /\ ~AtProof /\ inst' = [inst EXCEPT !.at = "verify"]
        /\ made' = made /\ drifted' = drifted /\ applied' = applied \cup {Current}
        /\ declined \ {Current} \subseteq declined' /\ UNCHANGED <<receipt, proved>>
    BY <1>6 DEF ApplyReturns, ApplyDeclines, AppliesStep, Leaves
  <2>2. InstOK' /\ inst'.n = inst.n /\ inst'.active = inst.active
        /\ inst'.mode = inst.mode /\ inst'.at = "verify"
    BY <2>1 DEF IInv, InstOK, Places
  <2>3. Place'
    BY <2>1, <2>2 DEF IInv, Place, AtProof, Current, R
  <2>4. ASSUME NEW m \in Passed PROVE Behind(Rows[m])'
    <3>1. inst.n \in 1..Len(Rows) /\ m \in 1..Len(Rows) /\ m # inst.n
      BY <2>1, Listed DEF IInv, InstOK, Place, AtProof, Passed
    <3>2. Rows[m].id # Current
      BY <3>1, <2>1, Listed, InstallerAssumption DEF Current, R
    <3> QED
      BY <3>2, <2>1 DEF IInv, InOrder, Behind
  <2> QED
    BY <2>1, <2>2, <2>3, <2>4, Remains DEF IInv, Honest, Proven
<1>7. CASE Verified
  <2>1. Kept
    BY <1>7 DEF Verified, Kept
  <2>2. ASSUME AtProof PROVE Standing
    <3>1. Proven \/ inst.mode = "skip"
      BY <1>7, <2>2 DEF Verified, Checks, NotLooked
    <3>2. proved \/ inst.mode = "skip"
      BY <3>1, Zenon DEF IInv, Honest
    <3> QED
      BY <2>2, <3>2, Zenon DEF Standing
  <2>3. ASSUME ~AtProof PROVE Standing
    <3>1. Current \in applied /\ Current = R.id
      BY <1>7, <2>3 DEF Verified, IInv, Place, Current
    <3>2. Stands(R) \/ ~R.verified \/ R.id \in declined
      BY <1>7, <2>3, <3>1 DEF Verified, Checks, NotLooked
    <3>3. Behind(R)
      BY <3>1, <3>2, Zenon DEF Stands, Behind
    <3> QED
      BY <2>3, <3>3, Zenon DEF Standing
  <2> QED
    BY <1>7, <2>1, <2>2, <2>3, GoOn DEF Verified
<1>8. CASE ApplySkipped
  <2>1. /\ inst.at = "apply" /\ AtProof
        /\ inst' = [inst EXCEPT !.at = "verify"]
        /\ Kept /\ UNCHANGED <<receipt, proved>>
    BY <1>8 DEF ApplySkipped, Kept
  <2> QED
    BY <2>1, MovesTo DEF Places
<1>9. CASE ApplyNow
  <2>1. /\ inst.at = "apply" /\ AtProof
        /\ inst' = [inst EXCEPT !.at = "proving"]
        /\ Kept /\ UNCHANGED <<receipt, proved>>
    BY <1>9 DEF ApplyNow, Kept
  <2> QED
    BY <2>1, MovesTo DEF Places
<1>10. CASE NowProved
  <2>1. /\ inst.at = "proving" /\ AtProof
        /\ inst' = [inst EXCEPT !.at = "verify"]
        /\ Kept /\ UNCHANGED <<receipt, proved>>
    BY <1>10 DEF NowProved, IInv, Place, Kept
  <2> QED
    BY <2>1, MovesTo DEF Places
<1>11. CASE ApplyReboot
  <2>1. /\ inst.at = "apply" /\ AtProof
        /\ inst' = [inst EXCEPT !.at = "armed"]
        /\ Kept /\ UNCHANGED <<receipt, proved>>
    BY <1>11 DEF ApplyReboot, Kept
  <2> QED
    BY <2>1, MovesTo DEF Places
<1>12. CASE Ends \/ Fails \/ Waits \/ KillInstaller \/ Reboot
  BY <1>12, GoesOff DEF Ends, Fails, Waits, KillInstaller, Reboot
<1>13. ASSUME NEW part \in Parts, Drift(part)
       PROVE  IInv'
  <2>1. /\ inst' = inst /\ UNCHANGED <<receipt, proved, applied, declined>>
        /\ made' = made \ {part} /\ drifted' = drifted \cup SeenBy[part]
    BY <1>13 DEF Drift, engine
  <2>2. ASSUME NEW m \in Passed PROVE Behind(Rows[m])'
    <3>1. m \in DOMAIN Rows
      BY Listed DEF Passed
    <3>2. part \in Rows[m].sees => Rows[m].id \in SeenBy[part]
      BY <3>1 DEF SeenBy
    <3> QED
      BY <2>1, <3>2 DEF IInv, InOrder, Behind
  <2> QED
    BY <2>1, <2>2, Stays DEF IInv, Honest, Proven
<1>19. ASSUME NEW m \in DOMAIN Rows, Renew(m)
       PROVE  IInv'
  <2>1. inst' = inst /\ inst.at = "off" /\ UNCHANGED <<receipt, proved, applied>>
    BY <1>19 DEF Renew, engine
  <2>2. Passed = {}
    BY <2>1 DEF Passed
  <2> QED
    BY <2>1, <2>2, Stays DEF IInv, Honest, Proven
<1>14. ASSUME inst' = inst, Kept, applied' = applied, Honest', proved => proved'
       PROVE  IInv'
  <2>1. \A m \in Passed : Behind(Rows[m])'
    BY <1>14 DEF IInv, InOrder, Behind, Kept
  <2> QED
    BY <1>14, <2>1, Stays
<1>15. CASE KillHand
  <2>1. CASE inst.at = "proving"
    BY <1>15, <2>1, GoesOff DEF KillHand
  <2>2. CASE inst.at # "proving"
    BY <1>15, <2>2, <1>14 DEF KillHand, Kept, IInv, Honest, Proven
  <2> QED
    BY <2>1, <2>2
<1>16. ASSUME NEW p \in Provers, WriteReceipt(p)
       PROVE  IInv'
  <2>1. Honest' /\ (proved => proved')
    BY <1>16 DEF WriteReceipt, IInv, Honest, Proven
  <2> QED
    BY <1>16, <2>1, <1>14 DEF WriteReceipt, engine, Kept
<1>17. ASSUME NEW p \in Provers,
              \/ Read(p) \/ (\E good \in BOOLEAN : Check(p, good))
              \/ RemovePending(p) \/ Tell(p)
       PROVE  IInv'
  <2>1. UNCHANGED <<inst, made, drifted, declined, applied, receipt, proved>>
    BY <1>17 DEF Read, Check, RemovePending, Tell, engine
  <2> QED
    BY <2>1, <1>14 DEF IInv, Honest, Proven, Kept
<1>18. CASE ProveByReboot \/ ProveNow \/ MarkProof \/ UNCHANGED vars
  <2>1. UNCHANGED <<inst, made, drifted, declined, applied, receipt, proved>>
    BY <1>18 DEF ProveByReboot, ProveNow, MarkProof, vars, engine
  <2> QED
    BY <2>1, <1>14 DEF IInv, Honest, Proven, Kept
<1> QED
  BY <1>1, <1>2, <1>3, <1>4, <1>5, <1>6, <1>7, <1>8, <1>9, <1>10, <1>11, <1>12,
     <1>13, <1>15, <1>16, <1>17, <1>18, <1>19 DEF Next, Engine, Prover

(***************************************************************************)
(* Whatever is killed, drifts or reboots, the installer never stands past  *)
(* a step of this run that is not in its state (unless it was taken out    *)
(* during the run), and never says it is finished without a proof.         *)
(***************************************************************************)
THEOREM NothingPassedOver == Spec => []InOrder
<1>1. IInv => InOrder
  BY DEF IInv
<1> QED
  BY InvInit, InvStep, <1>1, PTL DEF Spec

-----------------------------------------------------------------------------
(* What a step hides is made for good: it stands, or had no reason to be,  *)
(* or apply() was cut short before it and no word of the journal counts.   *)
Lasting(r) ==
  \/ Hidden(r) \subseteq made
  \/ r.id \in declined
  \/ ~r.byWord /\ r.id \in cut

(* Where the installer is tells what apply() has made so far; what it saw  *)
(* and lost again is a drift of this run.                                  *)
Made(r, part) == part \in made \cup r.slips \/ (r.id \in drifted /\ part \in r.sees)

Working ==
  /\ inst.at # "off" => ToSet(Steps) \ Optional \subseteq inst.active
  /\ inst.at = "check" => inst.k = 1
  /\ AppliesStep => /\ Current \in cut
                    /\ \A j \in DOMAIN R.parts : j < inst.k => Made(R, R.parts[j])
  /\ inst.at = "verify" /\ ~AtProof =>
       R.id \in declined \/ \A j \in DOMAIN R.parts : Made(R, R.parts[j])

(***************************************************************************)
(* The inductive invariant of the parts.  An anchor that stands tells that *)
(* apply() was begun, the journal's "done" that it came to its end, and a  *)
(* part a check sees that the hidden ones before it are there; so what was *)
(* passed lasts, and has all that a check sees.                            *)
(***************************************************************************)
Anchored == \A m \in DOMAIN Rows :
  ~Rows[m].byWord /\ Anchors(m) \cap made # {} => Lasting(Rows[m])

Word == \A m \in DOMAIN Rows :
  Rows[m].byWord /\ Rows[m].id \in memory \cup journal => Lasting(Rows[m])

Outdated(r) == IF r.id \in renewed THEN r.outlives ELSE {}

Sequel == \A m \in DOMAIN Rows : \A i, j \in DOMAIN Rows[m].parts :
  /\ j < i /\ Rows[m].parts[j] \in Hidden(Rows[m])
  /\ Rows[m].parts[i] \in (Rows[m].sees \ Rows[m].mends) \cap made
  /\ Rows[m].parts[i] \notin Outdated(Rows[m])
  => Rows[m].parts[j] \in made

Whole(r) == r.id \notin drifted \cup declined => ToSet(r.parts) \ Hidden(r) \subseteq made

PartsInv ==
  /\ Working /\ Anchored /\ Word /\ Sequel
  /\ \A m \in Passed : Lasting(Rows[m]) /\ Whole(Rows[m])

(* The types of a row, and what the table keeps, for one row at a time.    *)
LEMMA RowFacts ==
  ASSUME WellMade, NEW m \in DOMAIN Rows
  PROVE  LET r == Rows[m] IN
    /\ m \in 1..Len(Rows)
    /\ Len(r.parts) \in Nat /\ DOMAIN r.parts = 1..Len(r.parts)
    /\ \A j \in DOMAIN r.parts : r.parts[j] \in ToSet(r.parts)
    /\ \A part \in ToSet(r.parts) : \E j \in DOMAIN r.parts : r.parts[j] = part
    /\ \A i, j \in DOMAIN r.parts : r.parts[i] = r.parts[j] => i = j
    /\ ToSet(r.parts) \subseteq Parts /\ r.sees \subseteq Parts
    /\ r.id \in ToSet(Steps) /\ r.id # "proof"
    /\ r.byWord \in BOOLEAN /\ r.verified \in BOOLEAN
    /\ \A l \in DOMAIN Rows : Rows[l].id = r.id => l = m
<1> DEFINE r == Rows[m]
<1>1. r \in [id : STRING, parts : Seq(STRING), sees : SUBSET STRING,
             needs : SUBSET STRING, mends : SUBSET STRING, slips : SUBSET STRING,
             outlives : SUBSET STRING, byWord : BOOLEAN, verified : BOOLEAN, declines : BOOLEAN]
  <2>1. ASSUME NEW S, Rows \in Seq(S) PROVE r \in S
    BY <2>1
  <2> QED
    BY <2>1, InstallerAssumption
<1>2. /\ r.parts \in Seq(STRING) /\ r.byWord \in BOOLEAN /\ r.verified \in BOOLEAN
  BY <1>1
<1>3. Len(r.parts) \in Nat /\ DOMAIN r.parts = 1..Len(r.parts)
  BY <1>2
<1>4. /\ \A j \in DOMAIN r.parts : r.parts[j] \in ToSet(r.parts)
      /\ \A part \in ToSet(r.parts) : \E j \in DOMAIN r.parts : r.parts[j] = part
  BY DEF ToSet
<1>5. \A i, j \in DOMAIN r.parts : r.parts[i] = r.parts[j] => i = j
  BY DEF WellMade, IsInjective
<1>6. ToSet(r.parts) \subseteq Parts /\ r.sees \subseteq Parts
  BY InstallerAssumption DEF Parts
<1>7. r.id \in ToSet(Steps) /\ r.id # "proof"
  BY InstallerAssumption DEF ToSet, Steps
<1>8. \A l \in DOMAIN Rows : Rows[l].id = r.id => l = m
  BY InstallerAssumption
<1> QED
  BY <1>2, <1>3, <1>4, <1>5, <1>6, <1>7, <1>8, Listed

(* Steps that leave the machine as it is, or only begin a step, and leave  *)
(* the installer at its step or end its run.                               *)
LEMMA PartsRest ==
  ASSUME WellMade, IInv, PartsInv, UNCHANGED <<made, declined, drifted, renewed>>,
         cut \subseteq cut',
         ToSet(Steps) \cap (memory' \cup journal') \subseteq memory \cup journal,
         Working', Passed' \subseteq Passed
  PROVE  PartsInv'
<1>1. \A m \in DOMAIN Rows : Lasting(Rows[m]) => Lasting(Rows[m])'
  BY DEF Lasting
<1>2. Anchored'
  BY <1>1 DEF PartsInv, Anchored
<1>3. Word'
  BY <1>1, RowFacts DEF PartsInv, Word
<1>4. Sequel'
  BY DEF PartsInv, Sequel, Outdated
<1>5. \A m \in Passed' : m \in Passed /\ m \in DOMAIN Rows
  BY Listed DEF Passed
<1>6. \A m \in Passed' : (Lasting(Rows[m]) /\ Whole(Rows[m]))'
  BY <1>1, <1>5 DEF PartsInv, Whole
<1> QED
  BY <1>2, <1>3, <1>4, <1>6 DEF PartsInv

(* Going on past a step that lasts and is whole.                           *)
LEMMA PartsGoOn ==
  ASSUME WellMade, IInv, PartsInv, inst.at \notin {"off", "finished"}, GoesOn,
         \A m \in DOMAIN Rows : m = inst.n /\ Rows[m].id \in inst.active =>
           (Lasting(Rows[m]) /\ Whole(Rows[m]))',
         UNCHANGED <<declined, drifted, cut, renewed>>, made \subseteq made',
         Anchored', Word', Sequel'
  PROVE  PartsInv'
<1>1. /\ inst' = [inst EXCEPT !.at = IF AtProof THEN "finished" ELSE "check",
                              !.n = inst.n + 1, !.k = 1]
      /\ InstOK /\ inst.n \in 1..Len(Rows) + 1
  BY Listed DEF GoesOn, IInv, InstOK, Place
<1>2. /\ inst'.n = inst.n + 1 /\ inst'.active = inst.active /\ inst'.k = 1
      /\ inst'.at \in {"check", "finished"}
  BY <1>1 DEF InstOK
<1>3. Working'
  BY <1>2 DEF PartsInv, Working, AppliesStep
<1>4. ASSUME NEW m \in Passed' PROVE (Lasting(Rows[m]) /\ Whole(Rows[m]))'
  <2>1. m \in DOMAIN Rows /\ m < inst.n + 1 /\ Rows[m].id \in inst.active
    BY <1>2, Listed DEF Passed
  <2>2. CASE m = inst.n
    BY <2>1, <2>2
  <2>3. CASE m # inst.n
    <3>1. m \in Passed
      BY <1>1, <2>1, <2>3, Listed DEF Passed
    <3> QED
      BY <3>1 DEF PartsInv, Lasting, Whole
  <2> QED
    BY <2>2, <2>3
<1> QED
  BY <1>3, <1>4 DEF PartsInv

(* While a step past it is at work, a step that is not optional was passed *)
(* and lasts: what makes another's anchor comes later.                     *)
LEMMA AnchorsWait ==
  ASSUME WellMade, IInv, PartsInv, inst.at \in {"check", "apply"}, ~AtProof,
         NEW m \in DOMAIN Rows, m # inst.n, Anchors(m) \cap Makes(R) # {}
  PROVE  Lasting(Rows[m])
<1>1. inst.n \in DOMAIN Rows
  BY Listed DEF IInv, InstOK, Place, AtProof
<1>2. m < inst.n /\ Rows[m].id \notin Optional
  BY <1>1 DEF Anchors, R
<1>3. m \in Passed
  BY <1>2, Listed, RowFacts DEF PartsInv, Working, Passed
<1> QED
  BY <1>3 DEF PartsInv

(* Every step keeps the invariant of the parts.                            *)
LEMMA PartsStep == WellMade /\ IInv /\ PartsInv /\ [Next]_vars => PartsInv'
<1> SUFFICES ASSUME WellMade, IInv, PartsInv, [Next]_vars PROVE PartsInv'
  OBVIOUS
<1> USE DEF machine, proof
<1>0. /\ InstOK /\ \A n \in Nat : n \in DOMAIN Rows <=> n \in 1..Len(Rows)
      /\ inst.at \notin {"off", "finished"} /\ ~AtProof => inst.n \in DOMAIN Rows
  BY Listed DEF IInv, InstOK, Place, AtProof
<1>1. ASSUME NEW skipped \in SUBSET Optional, NEW mode \in Modes,
             Start(ToSet(Steps) \ skipped, mode)
      PROVE  PartsInv'
  <2>1. /\ inst' = [at |-> "check", n |-> 1, k |-> 1,
                    active |-> ToSet(Steps) \ skipped, mode |-> mode]
        /\ memory' \cup journal' \subseteq journal
        /\ UNCHANGED <<made, declined, cut, renewed>>
    BY <1>1 DEF Start
  <2>2. Passed' = {} /\ Working'
    BY <2>1 DEF Passed, Working, AppliesStep
  <2>3. Anchored' /\ Word' /\ Sequel'
    BY <2>1 DEF PartsInv, Outdated, Anchored, Word, Sequel, Lasting
  <2> QED
    BY <2>2, <2>3 DEF PartsInv
<1>2. CASE Pass
  <2>1. /\ inst.at = "check" /\ GoesOn
        /\ UNCHANGED <<made, declined, drifted, cut, renewed, memory, journal>>
        /\ ~AtProof /\ R.id \notin inst.active
    BY <1>2 DEF Pass, Current
  <2>2. Anchored' /\ Word' /\ Sequel'
    BY <2>1 DEF PartsInv, Outdated, Anchored, Word, Sequel, Lasting
  <2> QED
    BY <2>1, <2>2, PartsGoOn DEF R
<1>3. CASE Skip
  <2>1. /\ inst.at = "check" /\ GoesOn /\ Checks
        /\ UNCHANGED <<declined, drifted, cut, renewed>>
        /\ made' = IF AtProof THEN made ELSE made \cup R.mends
        /\ memory' \subseteq memory \cup {Current}
        /\ journal' \subseteq memory \cup journal \cup {Current}
    BY <1>3 DEF Skip, Skips, Applies, Mark
  <2>2. made \subseteq made'
    BY <2>1
  <2>3. \A m \in DOMAIN Rows : Lasting(Rows[m]) => Lasting(Rows[m])'
    BY <2>1, <2>2 DEF Lasting
  <2>4. ASSUME ~AtProof
        PROVE  /\ R.id \notin declined => R.sees \subseteq made
               /\ R.byWord => R.id \in memory
               /\ Lasting(R)
    <3>1. /\ R.id \notin declined => R.sees \subseteq made
          /\ R.byWord => R.id \in memory
      BY <2>1, <2>4 DEF Checks, Stands
    <3>2. inst.n \in DOMAIN Rows /\ R = Rows[inst.n] /\ Anchors(inst.n) \subseteq R.sees
      BY <1>0, <2>1, <2>4 DEF R, Anchors
    <3>3. CASE R.byWord
      BY <3>1, <3>2, <3>3 DEF PartsInv, Word
    <3>4. CASE ~R.byWord
      BY <3>1, <3>2, <3>4 DEF PartsInv, Anchored, WellMade, Lasting
    <3> QED
      BY <3>1, <3>3, <3>4
  <2>5. Anchored'
    <3> SUFFICES ASSUME NEW m \in DOMAIN Rows, ~Rows[m].byWord,
                        Anchors(m) \cap made' # {}
                 PROVE  Lasting(Rows[m])
      BY <2>3 DEF Anchored
    <3>1. CASE Anchors(m) \cap made # {}
      BY <3>1 DEF PartsInv, Anchored
    <3>2. CASE Anchors(m) \cap made = {} /\ m = inst.n /\ ~AtProof
      BY <2>4, <3>2 DEF R
    <3>3. CASE Anchors(m) \cap made = {} /\ m # inst.n /\ ~AtProof
      <4>1. Anchors(m) \cap Makes(R) # {}
        BY <2>1, <3>3 DEF Makes
      <4> QED
        BY <2>1, <3>3, <4>1, AnchorsWait
    <3> QED
      BY <2>1, <3>1, <3>2, <3>3
  <2>6. Word'
    <3> SUFFICES ASSUME NEW m \in DOMAIN Rows, Rows[m].byWord,
                        Rows[m].id \in memory' \cup journal'
                 PROVE  Lasting(Rows[m])
      BY <2>3 DEF Word
    <3>1. CASE Rows[m].id \in memory \cup journal
      BY <3>1 DEF PartsInv, Word
    <3>2. CASE Rows[m].id = Current
      <4>1. ~AtProof /\ R.id = Rows[m].id
        BY <3>2, RowFacts DEF Current
      <4>2. R = Rows[m]
        BY <1>0, <2>1, <4>1, RowFacts DEF R
      <4> QED
        BY <2>4, <4>1, <4>2
    <3> QED
      BY <2>1, <3>1, <3>2
  <2>7. Sequel'
    <3> SUFFICES ASSUME NEW m \in DOMAIN Rows, NEW i \in DOMAIN Rows[m].parts,
                        NEW j \in DOMAIN Rows[m].parts, j < i,
                        Rows[m].parts[j] \in Hidden(Rows[m]),
                        Rows[m].parts[i] \in Rows[m].sees \ Rows[m].mends,
                        Rows[m].parts[i] \in made', Rows[m].parts[i] \notin Outdated(Rows[m])
                 PROVE  Rows[m].parts[j] \in made
      BY <2>1, <2>2 DEF Sequel, Outdated
    <3>1. CASE Rows[m].parts[i] \in made
      BY <3>1 DEF PartsInv, Sequel
    <3>2. CASE Rows[m].parts[i] \notin made
      <4>1. ~AtProof /\ Rows[m].parts[i] \in R.mends
        BY <2>1, <3>2
      <4>2. inst.n \in DOMAIN Rows /\ inst.n # m
        BY <1>0, <2>1, <4>1 DEF R
      <4> QED
        BY <4>1, <4>2 DEF WellMade, Makes, R
    <3> QED
      BY <3>1, <3>2
  <2>8. ASSUME NEW m \in DOMAIN Rows, m = inst.n PROVE (Lasting(Rows[m]) /\ Whole(Rows[m]))'
    <3>1. ~AtProof /\ R = Rows[m]
      BY <2>8, Listed DEF AtProof, R
    <3> QED
      BY <2>1, <2>3, <2>4, <3>1 DEF Whole, Hidden
  <2> QED
    BY <2>1, <2>2, <2>5, <2>6, <2>7, <2>8, PartsGoOn
<1>4. CASE Begin
  <2>1. /\ inst.at = "check" /\ inst' = [inst EXCEPT !.at = "apply"]
        /\ UNCHANGED <<made, declined, drifted, renewed>> /\ memory' \subseteq memory
        /\ journal' \subseteq memory
        /\ cut' = IF AtProof THEN cut ELSE cut \cup {Current}
    BY <1>4 DEF Begin, Applies, Mark
  <2>2. /\ inst'.n = inst.n /\ inst'.k = inst.k /\ inst'.active = inst.active
        /\ inst'.at = "apply" /\ (AtProof' <=> AtProof) /\ R' = R
        /\ (~AtProof => Current' = Current)
    BY <2>1, <1>0 DEF InstOK, AtProof, R, Current
  <2>3. inst.k = 1
    BY <2>1 DEF PartsInv, Working
  <2>4. Working'
    <3>1. AppliesStep' => Current' \in cut'
      BY <2>1, <2>2 DEF AppliesStep
    <3>2. AppliesStep' => \A j \in DOMAIN R.parts : ~ (j < inst'.k)
      BY <1>0, <2>1, <2>2, <2>3, RowFacts DEF AppliesStep, R
    <3> QED
      BY <2>1, <2>2, <3>1, <3>2 DEF PartsInv, Working
  <2>5. Passed' \subseteq Passed
    BY <2>1, <2>2 DEF Passed
  <2> QED
    BY <2>1, <2>4, <2>5, PartsRest
<1>5. ASSUME NEW works \in BOOLEAN, Apply(works)
      PROVE  PartsInv'
  <2>1. /\ inst.at = "apply" /\ ~AtProof /\ inst.k <= Len(R.parts)
        /\ works \/ R.parts[inst.k] \in R.slips
        /\ made' = IF works THEN made \cup {R.parts[inst.k]} ELSE made
        /\ inst' = [inst EXCEPT !.k = inst.k + 1]
        /\ UNCHANGED <<declined, drifted, cut, renewed, memory, journal>>
    BY <1>5 DEF Apply, AppliesStep
  <2>2. /\ inst'.n = inst.n /\ inst'.k = inst.k + 1 /\ inst'.active = inst.active
        /\ inst'.at = "apply" /\ (AtProof' <=> AtProof) /\ R' = R /\ Current' = Current
        /\ inst.k \in Nat \ {0}
    BY <2>1, <1>0 DEF InstOK, AtProof, R, Current
  <2>3. /\ inst.n \in DOMAIN Rows /\ R = Rows[inst.n] /\ inst.k \in DOMAIN R.parts
        /\ Len(R.parts) \in Nat /\ DOMAIN R.parts = 1..Len(R.parts)
    BY <1>0, <2>1, <2>2, RowFacts DEF R
  <2>4. R.id \in cut /\ \A j \in DOMAIN R.parts : j < inst.k => Made(R, R.parts[j])
    BY <2>1 DEF PartsInv, Working, AppliesStep, Current
  <2>5. made \subseteq made' /\ \A m \in DOMAIN Rows : Lasting(Rows[m]) => Lasting(Rows[m])'
    BY <2>1 DEF Lasting
  <2>6. Working'
    <3>1. \A j \in DOMAIN R.parts : j < inst'.k => Made(R, R.parts[j])'
      BY <2>1, <2>2, <2>3, <2>4, <2>5 DEF Made
    <3> QED
      BY <2>1, <2>2, <2>4, <3>1 DEF PartsInv, Working, Current
  <2>7. Anchored'
    <3> SUFFICES ASSUME NEW m \in DOMAIN Rows, ~Rows[m].byWord,
                        Anchors(m) \cap made' # {}
                 PROVE  Lasting(Rows[m])
      BY <2>5 DEF Anchored
    <3>1. CASE Anchors(m) \cap made # {}
      BY <3>1 DEF PartsInv, Anchored
    <3>2. CASE m = inst.n
      BY <2>3, <2>4, <3>2 DEF Lasting
    <3>3. CASE Anchors(m) \cap made = {} /\ m # inst.n
      <4>1. Anchors(m) \cap Makes(R) # {}
        BY <2>1, <2>3, <3>3, RowFacts DEF Makes
      <4> QED
        BY <2>1, <3>3, <4>1, AnchorsWait
    <3> QED
      BY <3>1, <3>2, <3>3
  <2>8. Word'
    BY <2>1, <2>5 DEF PartsInv, Word
  <2>9. Sequel'
    <3> SUFFICES ASSUME NEW m \in DOMAIN Rows, NEW i \in DOMAIN Rows[m].parts,
                        NEW j \in DOMAIN Rows[m].parts, j < i,
                        Rows[m].parts[j] \in Hidden(Rows[m]),
                        Rows[m].parts[i] \in Rows[m].sees \ Rows[m].mends,
                        Rows[m].parts[i] \in made', Rows[m].parts[i] \notin Outdated(Rows[m])
                 PROVE  Rows[m].parts[j] \in made
      BY <2>1, <2>5 DEF Sequel, Outdated
    <3>1. CASE Rows[m].parts[i] \in made
      BY <3>1 DEF PartsInv, Sequel
    <3>2. CASE Rows[m].parts[i] \notin made
      <4>1. Rows[m].parts[i] = R.parts[inst.k]
        BY <2>1, <3>2
      <4>2. m = inst.n
        <5>1. \A l \in DOMAIN Rows \ {m} : Rows[m].parts[i] \notin Makes(Rows[l])
          BY DEF WellMade
        <5>2. R.parts[inst.k] \in Makes(R)
          BY <2>3, RowFacts DEF Makes
        <5> QED
          BY <2>3, <4>1, <5>1, <5>2
      <4>3. i = inst.k
        BY <2>3, <4>1, <4>2, RowFacts
      <4>4. Made(R, R.parts[j])
        BY <2>3, <2>4, <4>2, <4>3
      <4> QED
        BY <2>3, <4>2, <4>4 DEF Made, Hidden, WellMade
    <3> QED
      BY <3>1, <3>2
  <2>10. \A m \in Passed' : m \in Passed /\ m \in DOMAIN Rows
    BY <2>1, <2>2, Listed DEF Passed
  <2>11. \A m \in Passed' : (Lasting(Rows[m]) /\ Whole(Rows[m]))'
    BY <2>1, <2>5, <2>10 DEF PartsInv, Whole
  <2> QED
    BY <2>6, <2>7, <2>8, <2>9, <2>11 DEF PartsInv
<1>6. ASSUME ApplyReturns \/ ApplyDeclines PROVE PartsInv'
  <2>1. /\ inst.at = "apply" /\ ~AtProof /\ inst' = [inst EXCEPT !.at = "verify"]
        /\ UNCHANGED <<made, drifted, memory, journal>> /\ cut' = cut \ {Current}
        /\ \/ declined' = declined \cup {Current}
           \/ declined' = declined \ {Current} /\ inst.k > Len(R.parts)
    BY <1>6 DEF ApplyReturns, ApplyDeclines, AppliesStep, Leaves
  <2>2. /\ inst'.n = inst.n /\ inst'.active = inst.active
        /\ inst'.at = "verify" /\ (AtProof' <=> AtProof) /\ R' = R /\ Current = R.id
        /\ inst.k \in Nat
    BY <2>1, <1>0 DEF InstOK, AtProof, R, Current
  <2>3. /\ inst.n \in DOMAIN Rows /\ R = Rows[inst.n]
        /\ Len(R.parts) \in Nat /\ DOMAIN R.parts = 1..Len(R.parts)
    BY <1>0, <2>1, <2>2, RowFacts DEF R
  <2>4. R.id \in declined' \/ \A j \in DOMAIN R.parts : Made(R, R.parts[j])
    BY <2>1, <2>2, <2>3 DEF PartsInv, Working, AppliesStep
  <2>5. R.id \in declined' \/ Hidden(R) \subseteq made
    <3> SUFFICES ASSUME R.id \notin declined', NEW part \in Hidden(R) PROVE part \in made
      OBVIOUS
    <3>1. PICK j \in DOMAIN R.parts : R.parts[j] = part
      BY <2>3, RowFacts, SMTT(20) DEF Hidden
    <3>2. R.slips \subseteq R.sees
      BY <2>3 DEF WellMade
    <3> QED
      BY <2>4, <3>1, <3>2 DEF Made, Hidden
  <2>6. ASSUME NEW m \in DOMAIN Rows, Lasting(Rows[m]) PROVE Lasting(Rows[m])'
    <3>1. CASE m = inst.n
      BY <2>1, <2>3, <2>5, <3>1 DEF Lasting
    <3>2. CASE m # inst.n
      <4>1. Rows[m].id # Current
        BY <2>2, <2>3, <3>2, RowFacts
      <4> QED
        BY <2>1, <2>6, <4>1 DEF Lasting
    <3> QED
      BY <3>1, <3>2
  <2>9. renewed' = renewed \ {Current}
    BY <1>6 DEF ApplyReturns, ApplyDeclines
  <2>7. Working'
    <3>1. R.id \in declined' \/ \A j \in DOMAIN R.parts : Made(R, R.parts[j])'
      BY <2>1, <2>2, <2>4 DEF Made
    <3> QED
      BY <2>1, <2>2, <3>1 DEF PartsInv, Working, AppliesStep, Current
  <2>8. Anchored' /\ Word'
    BY <2>1, <2>6 DEF PartsInv, Anchored, Word
  <2>10. Sequel'
    <3> SUFFICES ASSUME NEW m \in DOMAIN Rows, NEW i \in DOMAIN Rows[m].parts,
                        NEW j \in DOMAIN Rows[m].parts, j < i,
                        Rows[m].parts[j] \in Hidden(Rows[m]),
                        Rows[m].parts[i] \in (Rows[m].sees \ Rows[m].mends) \cap made,
                        Rows[m].parts[i] \notin Outdated(Rows[m])'
                 PROVE  Rows[m].parts[j] \in made
      BY <2>1 DEF Sequel
    <3>1. CASE Rows[m].parts[i] \notin Outdated(Rows[m])
      BY <3>1 DEF PartsInv, Sequel
    <3>2. CASE Rows[m].parts[i] \in Outdated(Rows[m])
      <4>1. Rows[m].id = R.id /\ Rows[m].outlives # {} /\ m = inst.n
        BY <2>2, <2>3, <2>9, <3>2, RowFacts DEF Outdated
      <4>2. ~R.declines
        BY <2>3, <4>1 DEF WellMade
      <4>3. R.id \notin declined'
        BY <1>6, <2>2, <4>2 DEF ApplyReturns, ApplyDeclines
      <4> QED
        BY <2>3, <2>5, <4>1, <4>3
    <3> QED
      BY <3>1, <3>2
  <2>11. ASSUME NEW m \in Passed' PROVE (Lasting(Rows[m]) /\ Whole(Rows[m]))'
    <3>1. m \in Passed /\ m \in DOMAIN Rows /\ m # inst.n
      BY <1>0, <2>1, <2>2, Listed DEF Passed, InstOK
    <3>2. Rows[m].id # Current
      BY <2>2, <2>3, <3>1, RowFacts
    <3> QED
      BY <2>1, <2>6, <3>1, <3>2 DEF PartsInv, Whole
  <2> QED
    BY <2>7, <2>8, <2>10, <2>11 DEF PartsInv
<1>7. CASE Verified
  <2>1. /\ inst.at = "verify" /\ (Checks \/ NotLooked) /\ GoesOn
        /\ UNCHANGED <<made, declined, drifted, cut, renewed>>
        /\ memory' = memory \cup {Current} /\ journal' = memory'
    BY <1>7 DEF Verified, Mark
  <2>2. \A m \in DOMAIN Rows : Lasting(Rows[m]) <=> Lasting(Rows[m])'
    BY <2>1 DEF Lasting
  <2>3. ASSUME NEW m \in DOMAIN Rows, m = inst.n PROVE Lasting(Rows[m]) /\ Whole(Rows[m])
    <3>1. ~AtProof /\ R = Rows[m] /\ Current = R.id
      BY <2>3, Listed DEF AtProof, R, Current
    <3>2. R.id \in declined \/ \A j \in DOMAIN R.parts : Made(R, R.parts[j])
      BY <2>1, <3>1 DEF PartsInv, Working
    <3>3. R.id \in declined \/ R.sees \subseteq made \/ R.slips = {}
      BY <2>1, <2>3, <3>1 DEF Checks, Stands, NotLooked, WellMade
    <3>4. R.id \in declined \/ \A part \in ToSet(R.parts) : Made(R, part)
      <4> SUFFICES ASSUME R.id \notin declined, NEW part \in ToSet(R.parts)
                   PROVE  Made(R, part)
        OBVIOUS
      <4>1. PICK j \in DOMAIN R.parts : R.parts[j] = part
        BY <3>1, RowFacts, SMTT(20)
      <4> QED
        BY <3>2, <4>1
    <3>5. R.slips \subseteq R.sees
      BY <3>1 DEF WellMade
    <3> QED
      BY <3>1, <3>3, <3>4, <3>5 DEF Lasting, Whole, Made, Hidden
  <2>4. Anchored' /\ Sequel'
    BY <2>1, <2>2 DEF PartsInv, Outdated, Anchored, Sequel
  <2>5. Word'
    <3> SUFFICES ASSUME NEW m \in DOMAIN Rows, Rows[m].byWord,
                        Rows[m].id \in memory \cup {Current}
                 PROVE  Lasting(Rows[m])
      BY <2>1, <2>2 DEF Word
    <3>1. CASE Rows[m].id \in memory
      BY <3>1 DEF PartsInv, Word
    <3>2. CASE Rows[m].id = Current
      <4>1. ~AtProof /\ R.id = Rows[m].id
        BY <3>2, RowFacts DEF Current
      <4>2. inst.n = m
        BY <1>0, <2>1, <4>1, RowFacts DEF R
      <4> QED
        BY <2>3, <4>2
    <3> QED
      BY <3>1, <3>2
  <2>6. \A m \in DOMAIN Rows : m = inst.n => (Lasting(Rows[m]) /\ Whole(Rows[m]))'
    BY <2>1, <2>2, <2>3 DEF Whole
  <2> QED
    BY <2>1, <2>4, <2>5, <2>6, PartsGoOn
<1>8. ASSUME ApplySkipped \/ ApplyNow \/ NowProved \/ ApplyReboot PROVE PartsInv'
  <2>1. /\ AtProof /\ inst.at # "off"
        /\ UNCHANGED <<made, declined, drifted, cut, renewed, memory, journal>>
        /\ \E where \in {"verify", "proving", "armed"} : inst' = [inst EXCEPT !.at = where]
    BY <1>8 DEF ApplySkipped, ApplyNow, NowProved, ApplyReboot, IInv, Place
  <2>2. /\ inst'.n = inst.n /\ inst'.active = inst.active /\ AtProof'
        /\ inst'.at \notin {"off", "check"}
    BY <2>1, <1>0 DEF InstOK, AtProof
  <2>3. Working' /\ Passed' \subseteq Passed
    BY <2>1, <2>2 DEF PartsInv, Working, Passed, AppliesStep
  <2> QED
    BY <2>1, <2>3, PartsRest
<1>9. ASSUME Ends \/ Fails \/ Waits \/ KillInstaller \/ Reboot PROVE PartsInv'
  <2>1. /\ inst' = Off /\ UNCHANGED <<made, declined, drifted, cut, renewed>>
        /\ memory' \subseteq memory /\ journal' \subseteq memory \cup journal
    BY <1>9 DEF Ends, Fails, Waits, KillInstaller, Reboot, Mark
  <2>2. Working' /\ Passed' = {}
    BY <2>1 DEF Off, Working, Passed, AppliesStep
  <2> QED
    BY <2>1, <2>2, PartsRest
<1>10. ASSUME NEW part \in Parts, Drift(part) PROVE PartsInv'
  <2>1. /\ inst' = inst /\ UNCHANGED <<declined, cut, renewed, memory, journal>>
        /\ made' = made \ {part} /\ drifted' = drifted \cup SeenBy[part]
        /\ SeenBy[part] # {}
    BY <1>10 DEF Drift, engine
  <2>2. \E l \in DOMAIN Rows : part \in Rows[l].sees
    BY <2>1 DEF SeenBy
  <2>3. ASSUME NEW m \in DOMAIN Rows, part \in ToSet(Rows[m].parts)
        PROVE  part \in Rows[m].sees /\ Rows[m].id \in drifted'
    BY <2>1, <2>2, <2>3 DEF WellMade, SeenBy
  <2>4. \A m \in DOMAIN Rows : Hidden(Rows[m]) \cap made \subseteq made'
    BY <2>1, <2>3 DEF Hidden
  <2>5. \A m \in DOMAIN Rows : Lasting(Rows[m]) => Lasting(Rows[m])'
    BY <2>1, <2>4 DEF Lasting
  <2>6. Working'
    <3>1. /\ R' = R /\ (AtProof' <=> AtProof) /\ Current' = Current
          /\ (AppliesStep' <=> AppliesStep)
      BY <2>1 DEF R, AtProof, Current, AppliesStep
    <3>2. ASSUME inst.n \in DOMAIN Rows, NEW j \in DOMAIN R.parts, Made(R, R.parts[j])
          PROVE  Made(R, R.parts[j])'
      BY <2>1, <2>3, <3>1, <3>2, RowFacts DEF Made, R
    <3>3. inst.at \in {"apply", "verify"} /\ ~AtProof => inst.n \in DOMAIN Rows
      BY <1>0
    <3> QED
      BY <2>1, <3>1, <3>2, <3>3 DEF PartsInv, Working, AppliesStep
  <2>7. Anchored' /\ Word'
    BY <2>1, <2>5 DEF PartsInv, Anchored, Word
  <2>8. Sequel'
    BY <2>1, <2>4 DEF PartsInv, Outdated, Sequel
  <2>9. ASSUME NEW m \in Passed' PROVE (Lasting(Rows[m]) /\ Whole(Rows[m]))'
    <3>1. m \in Passed /\ m \in DOMAIN Rows
      BY <2>1, Listed DEF Passed
    <3> QED
      BY <2>1, <2>3, <2>5, <3>1 DEF PartsInv, Whole
  <2> QED
    BY <2>6, <2>7, <2>8, <2>9 DEF PartsInv
<1>12. ASSUME NEW l \in DOMAIN Rows, Renew(l) PROVE PartsInv'
  <2> DEFINE gone == ToSet(Rows[l].parts) \ Rows[l].outlives
  <2>1. /\ inst' = inst /\ inst.at = "off"
        /\ UNCHANGED <<declined, drifted, memory, journal>>
        /\ made' = made \ gone /\ cut' = cut \cup {Rows[l].id}
        /\ renewed' = renewed \cup {Rows[l].id} /\ Rows[l].outlives # {}
    BY <1>12 DEF Renew, engine
  <2>2. /\ ~Rows[l].byWord
        /\ \A m \in DOMAIN Rows \ {l} : ToSet(Rows[m].parts) \cap gone = {}
    BY <2>1 DEF WellMade
  <2>3. \A m \in DOMAIN Rows : Lasting(Rows[m]) => Lasting(Rows[m])'
    BY <2>1, <2>2 DEF Lasting, Hidden
  <2>4. Working' /\ Passed' = {}
    BY <2>1 DEF PartsInv, Working, AppliesStep, Passed
  <2>5. Anchored' /\ Word'
    BY <2>1, <2>3 DEF PartsInv, Anchored, Word
  <2>6. Sequel'
    <3> SUFFICES ASSUME NEW m \in DOMAIN Rows, NEW i \in DOMAIN Rows[m].parts,
                        NEW j \in DOMAIN Rows[m].parts, j < i,
                        Rows[m].parts[j] \in Hidden(Rows[m]),
                        Rows[m].parts[i] \in (Rows[m].sees \ Rows[m].mends) \cap made',
                        Rows[m].parts[i] \notin Outdated(Rows[m])'
                 PROVE  Rows[m].parts[j] \in made'
      BY DEF Sequel
    <3>1. CASE m = l
      <4>1. Rows[m].parts[i] \in ToSet(Rows[l].parts) \ Rows[l].outlives
        BY <2>1, <3>1, RowFacts DEF Outdated
      <4> QED
        BY <2>1, <4>1
    <3>2. CASE m # l
      <4>1. Rows[m].parts[j] \in made
        BY <2>1 DEF PartsInv, Sequel, Outdated
      <4>2. Rows[m].parts[j] \in ToSet(Rows[m].parts)
        BY RowFacts
      <4> QED
        BY <2>1, <2>2, <3>2, <4>1, <4>2
    <3> QED
      BY <3>1, <3>2
  <2> QED
    BY <2>4, <2>5, <2>6 DEF PartsInv
<1>11. ASSUME \/ ProveByReboot \/ ProveNow \/ MarkProof \/ KillHand \/ UNCHANGED vars
              \/ \E p \in Provers : Prover(p)
       PROVE  PartsInv'
  <2>1. /\ inst' = inst \/ inst' = Off
        /\ UNCHANGED <<made, declined, drifted, cut, renewed, memory>>
        /\ journal' \subseteq journal \cup {"proof"}
    BY <1>11 DEF ProveByReboot, ProveNow, MarkProof, KillHand, vars, engine, Prover, Read,
         Check, WriteReceipt, RemovePending, Tell
  <2>2. CASE inst' = inst
    <3>1. Working' /\ Passed' = Passed
      BY <2>1, <2>2 DEF PartsInv, Working, Passed, AppliesStep, AtProof, R, Current, Made
    <3> QED
      BY <2>1, <3>1, PartsRest, InstallerAssumption
  <2>3. CASE inst' = Off
    <3>1. Working' /\ Passed' = {}
      BY <2>3 DEF Off, Working, Passed, AppliesStep
    <3> QED
      BY <2>1, <3>1, PartsRest, InstallerAssumption
  <2> QED
    BY <2>1, <2>2, <2>3
<1> QED
  BY <1>1, <1>2, <1>3, <1>4, <1>5, <1>6, <1>7, <1>8, <1>9, <1>10, <1>11,
     <1>12 DEF Next, Engine

(* At the beginning nothing is made or marked, or everything is.           *)
LEMMA PartsAlways == ASSUME WellMade PROVE Spec => [](IInv /\ PartsInv)
<1>1. Init => PartsInv
  <2> SUFFICES ASSUME Init PROVE PartsInv
    OBVIOUS
  <2>1. Working /\ Passed = {}
    BY DEF Init, Off, Working, AppliesStep, Passed
  <2>2. CASE made = {} /\ journal = {}
    BY <2>1, <2>2 DEF Init, PartsInv, Anchored, Word, Sequel
  <2>3. CASE made = Parts
    <3>1. \A m \in DOMAIN Rows : ToSet(Rows[m].parts) \subseteq Parts
      BY RowFacts
    <3>2. \A m \in DOMAIN Rows : Lasting(Rows[m])
      BY <2>3, <3>1 DEF Lasting, Hidden
    <3>3. Sequel
      BY <2>3, <3>1 DEF Sequel, Hidden
    <3> QED
      BY <2>1, <3>2, <3>3 DEF PartsInv, Anchored, Word
  <2> QED
    BY <2>2, <2>3 DEF Init
<1>2. IInv /\ PartsInv /\ [Next]_vars => PartsInv'
  BY PartsStep
<1> QED
  BY <1>1, <1>2, InvInit, InvStep, PTL DEF Spec

(* What the invariant tells of a step that was passed.                     *)
LEMMA PassedLacksTheUnseen == ASSUME WellMade PROVE IInv /\ PartsInv => PassedIsWhole
<1> SUFFICES ASSUME IInv, PartsInv, NEW m \in Passed, ToSet(Rows[m].parts) \ made # {},
                    Rows[m].id \notin drifted \cup declined
             PROVE  /\ Rows[m].id \in cut
                    /\ ToSet(Rows[m].parts) \ made
                         \subseteq Unseen(Rows[m], Rows[m].id \in renewed)
  BY DEF PassedIsWhole
<1> DEFINE r == Rows[m]
<1>1. m \in DOMAIN Rows /\ Lasting(r) /\ Whole(r)
  BY Listed DEF PartsInv, Passed
<1>2. ToSet(r.parts) \ made \subseteq Hidden(r)
  BY <1>1 DEF Whole
<1>3. ~r.byWord /\ r.id \in cut
  BY <1>1, <1>2 DEF Lasting
<1>4. ASSUME NEW j \in DOMAIN r.parts, r.parts[j] \in Hidden(r), r.parts[j] \notin made
      PROVE  r.parts[j] \in Unseen(r, r.id \in renewed)
  <2>1. ASSUME NEW i \in j..Len(r.parts)
        PROVE  r.parts[i] \notin Telling(r, r.id \in renewed)
    <3>1. i \in DOMAIN r.parts /\ j <= i /\ r.parts[i] \in ToSet(r.parts)
      BY <1>1, <2>1, RowFacts
    <3>2. CASE i = j
      BY <1>4, <3>2 DEF Hidden, Telling
    <3>3. CASE i # j
      <4>1. j < i
        BY <1>1, <3>1, <3>3, RowFacts
      <4>2. r.parts[i] \in r.sees => r.parts[i] \in made
        BY <1>2, <3>1 DEF Hidden
      <4> QED
        BY <1>1, <1>4, <3>1, <4>1, <4>2 DEF PartsInv, Sequel, Telling, Outdated
    <3> QED
      BY <3>2, <3>3
  <2> QED
    BY <1>3, <1>4, <2>1 DEF Unseen, Hidden
<1>5. ASSUME NEW part \in ToSet(r.parts) \ made
      PROVE  part \in Unseen(r, r.id \in renewed)
  <2>1. PICK j \in DOMAIN r.parts : r.parts[j] = part
    BY DEF ToSet
  <2> QED
    BY <1>2, <1>4, <2>1
<1> QED
  BY <1>3, <1>5

(***************************************************************************)
(* Running the installer again repairs what an earlier run left undone,    *)
(* for any well-made table: a passed step that lost nothing in this run    *)
(* and had something to do lacks at most the parts after the last one that *)
(* its check sees - and that tells of the present answer -, and only if    *)
(* its apply() was cut short and not ended since.                          *)
(***************************************************************************)
THEOREM RepairsButTheUnseen == ASSUME WellMade PROVE Spec => []PassedIsWhole
  BY PassedLacksTheUnseen, PartsAlways, PTL

(***************************************************************************)
(* In a table that is also well ordered, every step finds what it works    *)
(* on, however often the installation was cut short: what it needs was     *)
(* made by a step that was passed, where a check would see it gone.        *)
(***************************************************************************)
THEOREM FindsWhatItNeeds == ASSUME WellMade, WellOrdered PROVE Spec => []Supplied
<1>1. IInv /\ PartsInv => Supplied
  <2> SUFFICES ASSUME IInv, PartsInv, AppliesStep, NEW part \in R.needs \cap Parts,
                      part \notin made
               PROVE  \E m \in DOMAIN Rows :
                        /\ part \in ToSet(Rows[m].parts)
                        /\ Rows[m].id \in drifted \cup declined \/ Rows[m].id \notin inst.active
    BY DEF Supplied
  <2>1. inst.n \in DOMAIN Rows /\ inst.at = "apply"
    BY Listed DEF IInv, InstOK, Place, AtProof, AppliesStep
  <2>2. PICK l \in 1..inst.n - 1 : part \in ToSet(Rows[l].parts) \ Unseen(Rows[l], TRUE)
    BY <2>1 DEF WellOrdered, R
  <2>3. l \in 1..Len(Rows) /\ l \in DOMAIN Rows /\ l < inst.n
    BY <2>1, <2>2, Listed
  <2>4. CASE Rows[l].id \in inst.active
    <3>1. l \in Passed
      BY <2>1, <2>3, <2>4 DEF Passed
    <3> QED
      BY <2>2, <2>3, <3>1, PassedLacksTheUnseen DEF PassedIsWhole, Unseen, Telling
  <2> QED
    BY <2>2, <2>3, <2>4
<1> QED
  BY <1>1, PartsAlways, PTL

=============================================================================
