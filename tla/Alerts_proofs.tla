---------------------------- MODULE Alerts_proofs ---------------------------
(***************************************************************************)
(* Proofs about Alerts, for any thresholds, margin and values, any number  *)
(* of runs and kills: the hysteresis of graded(), and what the owner is    *)
(* told against what is on record.                                         *)
(***************************************************************************)
EXTENDS Alerts, TLAPS

(***************************************************************************)
(* Two graded readings that lie within the margin of each other settle the *)
(* level, whatever it was before: no third or fourth reading of the same   *)
(* two values moves it.                                                    *)
(***************************************************************************)
LEMMA TwoReadingsSettle ==
  ASSUME NEW v \in Nat, NEW w \in Nat, Near(v, w), NEW previous
  PROVE  LET first == graded(w, graded(v, previous))
         IN  graded(v, first) = first /\ graded(w, first) = first
<1> USE ConstantsAssumption DEF graded, Near, Problem
<1>1. CASE w >= Crit
  BY <1>1
<1>2. CASE w < Crit /\ v >= Crit
  BY <1>2
<1>3. CASE w < Crit /\ v < Crit /\ previous = "crit"
  BY <1>3
<1>4. CASE w < Crit /\ v < Crit /\ previous # "crit"
  BY <1>4
<1> QED
  BY <1>1, <1>2, <1>3, <1>4

(***************************************************************************)
(* A value that hovers within the margin changes a key's level at most     *)
(* once, from any saved state.                                             *)
(***************************************************************************)
THEOREM HoveringSettles == Spec => []HoveringIsQuiet
<1>1. ASSUME NEW k \in Measured, NEW v \in 0 .. MaxValue,
             NEW w \in 0 .. MaxValue, Near(v, w)
      PROVE  LET first == graded(w, graded(v, previous_level(k)))
             IN  graded(v, first) = first /\ graded(w, first) = first
  <2>1. v \in Nat /\ w \in Nat
    BY ConstantsAssumption
  <2> QED
    BY <1>1, <2>1, TwoReadingsSettle
<1>2. HoveringIsQuiet
  BY <1>1, Zenon DEF HoveringIsQuiet
<1> QED
  BY <1>2, PTL

-----------------------------------------------------------------------------
(***************************************************************************)
(* The inductive invariant of the alert state.  A run holds the lock from  *)
(* its beginning to its end; what it has to say was computed from what is  *)
(* still saved; and from its message on, what it holds in memory is what   *)
(* the owner has heard.                                                    *)
(***************************************************************************)
Holder == \A r \in Runners : pc[r] # "idle" <=> lock = r

Processed ==
  \A r \in Runners, k \in Keys : pc[r] = "queue" =>
    \E f \in Levels \cup {Absent, Crashed} :
      f \in Findings(k) /\ mem[r][k] = After(saved[k], f) /\ out[r][k] = Kind(saved[k], f)

Heard ==
  /\ SavedWasSaid
  /\ \A r \in Runners, k \in Keys :
       pc[r] \in {"note", "save"} /\ WasProblem(mem[r][k]) => mem[r][k].level \in heard[k]

AlertInv == TypeOK /\ Holder /\ Processed /\ Heard

(* What is said of one finding, and the entry it leaves: a message of a    *)
(* problem leaves that problem, fresh; nothing is said of an entry that    *)
(* stays, and a problem disappears unsaid only behind an info.             *)
LEMMA Processing ==
  ASSUME NEW e \in Entry \cup {Absent}, NEW f \in Levels \cup {Absent, Crashed}
  PROVE  /\ After(e, f) \in Entry \cup {Absent} /\ Kind(e, f) \in Kinds
         /\ Kind(e, f) \notin {"none", "digest", "cleared"} =>
              /\ WasProblem(After(e, f)) /\ After(e, f).level = f /\ After(e, f).age = 0
              /\ WasProblem(e) /\ e.level = f => e.age >= Repeat
         /\ Kind(e, f) = "cleared" => ~WasProblem(After(e, f)) /\ WasProblem(e)
         /\ Kind(e, f) \in {"none", "digest"} =>
              /\ WasProblem(After(e, f)) => After(e, f) = e
              /\ ~WasProblem(After(e, f)) /\ f # "info" => ~WasProblem(e)
<1> USE ConstantsAssumption DEF Levels, Problem, Kinds
<1>1. 0 \in Ages /\ Ages \subseteq Nat
  BY DEF Ages
<1>2. \A l \in {"info", "warn", "crit"} :
        [level |-> l, age |-> 0] \in Entry /\ [level |-> l, age |-> 0] # Absent
  BY <1>1 DEF Entry
<1>3. CASE f = Crashed
  BY <1>3 DEF After, Kind
<1>4. CASE f \in {"ok", Absent}
  BY <1>4 DEF After, Kind, WasProblem
<1>5. CASE f = "info"
  BY <1>2, <1>5 DEF After, Kind, InfoKind, WasProblem
<1>6. CASE f \in {"warn", "crit"}
  BY <1>2, <1>6 DEF After, Kind, ProblemKind, Due, WasProblem
<1> QED
  BY <1>3, <1>4, <1>5, <1>6

(* A message that was computed from what is saved, key by key.             *)
LEMMA Messages ==
  ASSUME TypeOK, Processed, NEW r \in Runners, pc[r] = "queue", NEW k \in Keys
  PROVE  \E f \in Levels \cup {Absent, Crashed} :
           /\ f \in Findings(k)
           /\ Said(r, k) /\ out[r][k] # "cleared" =>
                /\ WasProblem(mem[r][k]) /\ mem[r][k].level = f /\ mem[r][k].age = 0
                /\ WasProblem(saved[k]) /\ saved[k].level = f => saved[k].age >= Repeat
           /\ out[r][k] = "cleared" => ~WasProblem(mem[r][k]) /\ WasProblem(saved[k])
           /\ ~Said(r, k) =>
                /\ WasProblem(mem[r][k]) => mem[r][k] = saved[k]
                /\ ~WasProblem(mem[r][k]) /\ f # "info" => ~WasProblem(saved[k])
<1>1. saved[k] \in Entry \cup {Absent} /\ out[r][k] \in Kinds
  BY DEF TypeOK
<1>2. PICK f \in Levels \cup {Absent, Crashed} :
        f \in Findings(k) /\ mem[r][k] = After(saved[k], f) /\ out[r][k] = Kind(saved[k], f)
  BY DEF Processed
<1> QED
  BY <1>1, <1>2, Processing DEF Said

(* Every step keeps the invariant.                                         *)
LEMMA AlertStep == AlertInv /\ [Next]_vars => AlertInv'
<1> SUFFICES ASSUME AlertInv, [Next]_vars PROVE AlertInv'
  OBVIOUS
<1> USE ConstantsAssumption DEF AlertInv, Holder
<1>0. /\ 0 \in Ages /\ \A a \in Ages : Older(a) \in Ages
      /\ \A a, b \in Ages : a >= b => Older(a) >= Older(b)
  BY DEF Ages, Older
<1>1. ASSUME NEW r \in Runners, Begin(r) PROVE AlertInv'
  <2> USE <1>1 DEF Begin, LockFree, Follow
  <2>1. PICK found \in [Keys -> Levels \cup {Absent, Crashed}] :
          /\ \A k \in Keys : found[k] \in Findings(k)
          /\ mem' = [mem EXCEPT ![r] = [k \in Keys |-> After(saved[k], found[k])]]
          /\ out' = [out EXCEPT ![r] = [k \in Keys |-> Kind(saved[k], found[k])]]
    OBVIOUS
  <2>2. \A k \in Keys : saved[k] \in Entry \cup {Absent}
    BY DEF TypeOK
  <2>3. TypeOK'
    <3>1. /\ [k \in Keys |-> After(saved[k], found[k])] \in [Keys -> Entry \cup {Absent}]
          /\ [k \in Keys |-> Kind(saved[k], found[k])] \in [Keys -> Kinds]
      BY <2>2, Processing
    <3> QED
      BY <2>1, <3>1 DEF TypeOK
  <2>4. Holder'
    BY DEF TypeOK
  <2>5. Processed'
    <3>1. \A q \in Runners : pc'[q] = "queue" => q = r
      BY DEF TypeOK
    <3>2. \A k \in Keys : Findings(k)' = Findings(k)
      BY DEF Findings, previous_level
    <3>3. \A k \in Keys : /\ mem'[r][k] = After(saved[k], found[k])
                          /\ out'[r][k] = Kind(saved[k], found[k])
      BY <2>1 DEF TypeOK
    <3> QED
      BY <2>1, <3>1, <3>2, <3>3 DEF Processed
  <2>6. Heard'
    BY DEF TypeOK, Heard, SavedWasSaid
  <2> QED
    BY <2>3, <2>4, <2>5, <2>6
<1>2. ASSUME NEW r \in Runners, Queue(r) PROVE AlertInv'
  <2> USE <1>2 DEF Queue, Step, Follow
  <2>1. /\ pc[r] = "queue" /\ pc' = [pc EXCEPT ![r] = "note"]
        /\ UNCHANGED <<lock, mem, out, saved, kills>>
    OBVIOUS
  <2>2. \A k \in Keys : Said(r, k) => LevelSaid(r, k) \in {"ok", "warn", "crit"}
    BY <2>1, Messages DEF LevelSaid, WasProblem, Problem
  <2>3. TypeOK'
    <3>1. told' \in [Keys -> {"ok", "warn", "crit"}]
      BY <2>2 DEF TypeOK
    <3>2. heard' \in [Keys -> SUBSET Problem] /\ ago' \in [Keys -> Ages]
      BY <1>0 DEF TypeOK
    <3> QED
      BY <2>1, <3>1, <3>2 DEF TypeOK
  <2>4. Holder'
    BY <2>1 DEF TypeOK
  <2>5. Processed'
    <3>1. \A q \in Runners : pc'[q] # "queue"
      BY <2>1, SMTT(20) DEF TypeOK
    <3> QED
      BY <3>1 DEF Processed
  <2>6. Heard'
    <3>1. \A k \in Keys : heard[k] \subseteq heard'[k]
      OBVIOUS
    <3>2. \A q \in Runners : pc'[q] \in {"note", "save"} => q = r
      BY <2>1 DEF TypeOK
    <3>3. ASSUME NEW k \in Keys, WasProblem(mem[r][k]) PROVE mem[r][k].level \in heard'[k]
      <4>1. CASE Said(r, k)
        <5>1. LevelSaid(r, k) = mem[r][k].level /\ mem[r][k].level \in Problem
          BY <2>1, <3>3, <4>1, Messages DEF LevelSaid, WasProblem
        <5> QED
          BY <4>1, <5>1
      <4>2. CASE ~Said(r, k)
        BY <2>1, <3>1, <3>3, <4>2, Messages DEF Heard, SavedWasSaid
      <4> QED
        BY <4>1, <4>2
    <3> QED
      BY <2>1, <3>1, <3>2, <3>3 DEF Heard, SavedWasSaid
  <2> QED
    BY <2>3, <2>4, <2>5, <2>6
<1>3. ASSUME NEW r \in Runners, Note(r) PROVE AlertInv'
  <2>1. /\ pc[r] = "note" /\ pc' = [pc EXCEPT ![r] = "save"]
        /\ UNCHANGED <<lock, mem, out, saved, told, heard, ago, kills>>
    BY <1>3 DEF Note, Step, Follow
  <2>2. TypeOK' /\ Holder'
    BY <2>1 DEF TypeOK
  <2>3. Processed'
    BY <2>1 DEF TypeOK, Processed, Findings, previous_level
  <2>4. Heard'
    BY <2>1 DEF TypeOK, Heard, SavedWasSaid
  <2> QED
    BY <2>2, <2>3, <2>4
<1>4. ASSUME NEW r \in Runners, Save(r) PROVE AlertInv'
  <2>1. /\ pc[r] = "save" /\ pc' = [pc EXCEPT ![r] = "idle"] /\ End(r)
        /\ saved' = mem[r] /\ UNCHANGED <<told, ago, kills>>
        /\ heard' = [k \in Keys |-> IF WasProblem(mem[r][k]) THEN heard[k] ELSE {}]
    BY <1>4 DEF Save, Step, Follow
  <2>2. \A q \in Runners : pc'[q] = "idle"
    BY <2>1 DEF TypeOK
  <2>3. TypeOK' /\ Holder'
    <3>1. mem' \in [Runners -> [Keys -> Entry \cup {Absent}]] /\ out' \in [Runners -> [Keys -> Kinds]]
      BY <2>1 DEF TypeOK, End, NoData, NoOut, Kinds
    <3>2. saved' \in [Keys -> Entry \cup {Absent}] /\ heard' \in [Keys -> SUBSET Problem]
      BY <2>1 DEF TypeOK
    <3>3. Holder' /\ lock' \in Runners \cup {Nobody}
      BY <2>1, <2>2 DEF End
    <3> QED
      BY <2>1, <3>1, <3>2, <3>3 DEF TypeOK
  <2>4. Processed'
    BY <2>2 DEF Processed
  <2>5. Heard'
    BY <2>1, <2>2 DEF Heard, SavedWasSaid
  <2> QED
    BY <2>3, <2>4, <2>5
<1>5. ASSUME NEW r \in Runners, Kill(r) PROVE AlertInv'
  <2>1. /\ pc[r] # "idle" /\ pc' = [pc EXCEPT ![r] = "idle"] /\ End(r)
        /\ kills < MaxKills /\ kills' = kills + 1 /\ UNCHANGED <<saved, told, heard, ago>>
    BY <1>5 DEF Kill
  <2>2. \A q \in Runners : pc'[q] = "idle"
    BY <2>1 DEF TypeOK
  <2>3. TypeOK' /\ Holder'
    <3>1. mem' \in [Runners -> [Keys -> Entry \cup {Absent}]] /\ out' \in [Runners -> [Keys -> Kinds]]
      BY <2>1 DEF TypeOK, End, NoData, NoOut, Kinds
    <3>2. kills' \in 0 .. MaxKills
      BY <2>1 DEF TypeOK
    <3>3. Holder' /\ lock' \in Runners \cup {Nobody}
      BY <2>1, <2>2 DEF End
    <3> QED
      BY <2>1, <3>1, <3>2, <3>3 DEF TypeOK
  <2>4. Processed'
    BY <2>2 DEF Processed
  <2>5. Heard'
    BY <2>1, <2>2 DEF Heard, SavedWasSaid
  <2> QED
    BY <2>3, <2>4, <2>5
<1>6. CASE Hours
  <2> USE <1>6 DEF Hours
  <2>1. \A k \in Keys : /\ saved'[k] \in Entry \cup {Absent}
                        /\ WasProblem(saved'[k]) =>
                             WasProblem(saved[k]) /\ saved'[k].level = saved[k].level
    BY <1>0 DEF TypeOK, Entry, WasProblem
  <2>2. TypeOK'
    BY <1>0, <2>1 DEF TypeOK
  <2>3. Holder'
    OBVIOUS
  <2>4. Processed'
    BY DEF Processed
  <2>5. Heard'
    BY <2>1 DEF Heard, SavedWasSaid
  <2> QED
    BY <2>2, <2>3, <2>4, <2>5
<1>7. CASE UNCHANGED vars
  <2> USE <1>7 DEF vars
  <2>1. TypeOK' /\ Holder'
    BY DEF TypeOK
  <2>2. Processed'
    BY DEF Processed, Findings, previous_level
  <2>3. Heard'
    BY DEF Heard, SavedWasSaid
  <2> QED
    BY <2>1, <2>2, <2>3
<1> QED
  BY <1>1, <1>2, <1>3, <1>4, <1>5, <1>6, <1>7 DEF Next

(* At the beginning nothing is saved and the owner knows of nothing.       *)
LEMMA AlertInit == Init => AlertInv
<1> SUFFICES ASSUME Init PROVE AlertInv
  OBVIOUS
<1> USE ConstantsAssumption DEF Init
<1>1. TypeOK
  BY DEF TypeOK, Kinds, Ages, Problem
<1>2. Holder /\ Processed /\ Heard
  BY DEF Holder, Processed, Heard, SavedWasSaid, WasProblem
<1> QED
  BY <1>1, <1>2 DEF AlertInv

(***************************************************************************)
(* A problem on record was queued for the owner, wherever a run is killed  *)
(* and however many are: it may be said twice, never not at all.           *)
(***************************************************************************)
THEOREM OnRecordWasSaid == Spec => []SavedWasSaid
<1>1. AlertInv => SavedWasSaid
  BY DEF AlertInv, Heard
<1> QED
  BY <1>1, AlertInit, AlertStep, PTL DEF Spec

-----------------------------------------------------------------------------
(***************************************************************************)
(* What the owner believes against what is on record, while no run is      *)
(* killed.  A key whose probe reports an info and a problem is left out:   *)
(* a problem that turns into an info is not told as cleared.               *)
(***************************************************************************)
InfoApart == \A k \in Plain : "info" \in Reports[k] => Reports[k] \cap Problem = {}

MayWarn(k) == k \in Measured \/ (k \in Plain /\ Reports[k] \cap Problem # {})

Agrees(k, e) ==
  /\ told[k] = IF WasProblem(e) THEN e.level ELSE "ok"
  /\ WasProblem(e) => MayWarn(k) /\ ago[k] >= e.age

(* Up to its message the owner knows what is saved, from then on what the  *)
(* run has in memory.                                                      *)
Known ==
  kills = 0 => \A k \in Keys :
    /\ (\A r \in Runners : pc[r] \in {"idle", "queue"}) => Agrees(k, saved[k])
    /\ \A r \in Runners : pc[r] \in {"note", "save"} => Agrees(k, mem[r][k])

(* A key that may warn is never found to be an info, and only such a key   *)
(* is found to be a problem.                                               *)
LEMMA FoundApart ==
  ASSUME InfoApart, NEW k \in Keys, NEW f \in Findings(k)
  PROVE  /\ f \in Problem => MayWarn(k)
         /\ f = "info" => ~MayWarn(k)
<1>1. CASE f = Crashed
  BY <1>1, ConstantsAssumption DEF Levels, Problem
<1>2. CASE f # Crashed /\ k \in Measured
  BY <1>2, ConstantsAssumption DEF Findings, graded, MayWarn, Problem
<1>3. CASE f # Crashed /\ k \notin Measured
  BY <1>3, ConstantsAssumption DEF Findings, MayWarn, InfoApart, Keys
<1> QED
  BY <1>1, <1>2, <1>3

(* Every step keeps the owner's belief and the record in agreement.        *)
LEMMA KnownStep == InfoApart /\ AlertInv /\ Known /\ [Next]_vars => Known'
<1> SUFFICES ASSUME InfoApart, AlertInv, Known, [Next]_vars, kills' = 0 PROVE Known'
  BY DEF Known
<1>1. \A a, b \in Ages : a >= b => Older(a) >= Older(b)
  BY ConstantsAssumption DEF Ages, Older
<1>2. TypeOK /\ Holder /\ Processed
  BY DEF AlertInv
<1>3. \A r, q \in Runners : pc[r] # "idle" /\ pc[q] # "idle" => q = r
  BY <1>2 DEF Holder
<1>4. ASSUME NEW r \in Runners, Begin(r) PROVE Known'
  <2>1. /\ kills = 0 /\ UNCHANGED <<saved, told, ago>>
        /\ \A q \in Runners : pc[q] = "idle" /\ pc'[q] \in {"idle", "queue"}
    BY <1>2, <1>4, ConstantsAssumption DEF Begin, LockFree, Holder, TypeOK, Follow
  <2> QED
    BY <2>1 DEF Known, Agrees
<1>5. ASSUME NEW r \in Runners, Queue(r) PROVE Known'
  <2>1. /\ pc[r] = "queue" /\ pc' = [pc EXCEPT ![r] = "note"] /\ kills = 0
        /\ UNCHANGED <<mem, saved>>
    BY <1>5 DEF Queue, Step, Follow
  <2>2. \A q \in Runners : (pc[q] \in {"idle", "queue"}) /\ (pc'[q] # "idle" => q = r)
    BY <1>2, <1>3, <2>1 DEF TypeOK
  <2>3. ASSUME NEW k \in Keys PROVE Agrees(k, mem[r][k])'
    <3>1. Agrees(k, saved[k])
      BY <2>1, <2>2 DEF Known
    <3>2. PICK f \in Levels \cup {Absent, Crashed} :
            /\ f \in Findings(k)
            /\ Said(r, k) /\ out[r][k] # "cleared" =>
                 WasProblem(mem[r][k]) /\ mem[r][k].level = f /\ mem[r][k].age = 0
            /\ out[r][k] = "cleared" => ~WasProblem(mem[r][k])
            /\ ~Said(r, k) =>
                 /\ WasProblem(mem[r][k]) => mem[r][k] = saved[k]
                 /\ ~WasProblem(mem[r][k]) /\ f # "info" => ~WasProblem(saved[k])
      BY <1>2, <2>1, Messages
    <3>3. /\ told'[k] = IF Said(r, k) THEN LevelSaid(r, k) ELSE told[k]
          /\ ago'[k] = IF Said(r, k) THEN 0 ELSE ago[k]
          /\ mem' = mem
      BY <1>5, <2>1 DEF Queue
    <3>4. CASE Said(r, k) /\ out[r][k] # "cleared"
      <4>1. MayWarn(k)
        BY <3>2, <3>4, FoundApart DEF WasProblem
      <4> QED
        BY <3>2, <3>3, <3>4, <4>1 DEF Agrees, LevelSaid, WasProblem
    <3>5. CASE Said(r, k) /\ out[r][k] = "cleared"
      BY <3>2, <3>3, <3>5 DEF Agrees, LevelSaid, WasProblem
    <3>6. CASE ~Said(r, k)
      <4>1. f = "info" => ~WasProblem(saved[k])
        BY <3>1, <3>2, FoundApart DEF Agrees
      <4> QED
        BY <3>1, <3>2, <3>3, <3>6, <4>1 DEF Agrees, WasProblem
    <3> QED
      BY <3>4, <3>5, <3>6
  <2>4. r \in Runners /\ pc'[r] = "note"
    BY <1>2, <2>1 DEF TypeOK
  <2> QED
    BY <2>2, <2>3, <2>4 DEF Known
<1>6. ASSUME NEW r \in Runners, Note(r) PROVE Known'
  BY <1>2, <1>6 DEF Note, Step, Follow, TypeOK, Known, Agrees
<1>7. ASSUME NEW r \in Runners, Save(r) PROVE Known'
  <2>1. /\ pc[r] = "save" /\ pc' = [pc EXCEPT ![r] = "idle"] /\ kills = 0
        /\ saved' = mem[r] /\ UNCHANGED <<told, ago>>
    BY <1>7 DEF Save, Step, Follow
  <2>2. \A q \in Runners : pc'[q] = "idle"
    BY <1>2, <1>3, <2>1 DEF TypeOK
  <2> QED
    BY <2>1, <2>2 DEF Known, Agrees
<1>8. ASSUME NEW r \in Runners, Kill(r) PROVE FALSE
  BY <1>2, <1>8 DEF Kill, TypeOK
<1>9. CASE Hours
  <2>1. /\ kills = 0 /\ UNCHANGED <<pc, told>> /\ \A q \in Runners : pc[q] = "idle"
    BY <1>9 DEF Hours
  <2>2. ASSUME NEW k \in Keys PROVE Agrees(k, saved[k])'
    <3>1. Agrees(k, saved[k])
      BY <2>1 DEF Known
    <3>2. WasProblem(saved'[k]) <=> WasProblem(saved[k])
      <4>1. CASE saved[k] = Absent
        BY <1>9, <4>1 DEF Hours, WasProblem
      <4>2. CASE saved[k] # Absent
        <5>1. saved[k] \in Entry /\ saved'[k] = [saved[k] EXCEPT !.age = Older(@)]
          BY <1>2, <1>9, <4>2 DEF Hours, TypeOK
        <5>2. saved'[k] \in [level : Levels, age : Nat]
          BY <5>1, ConstantsAssumption DEF Entry, Ages, Older, Levels
        <5> QED
          BY <4>2, <5>1, <5>2, ConstantsAssumption DEF WasProblem, Entry
      <4> QED
        BY <4>1, <4>2
    <3>3. WasProblem(saved[k]) =>
            /\ saved'[k].level = saved[k].level /\ saved'[k].age = Older(saved[k].age)
            /\ saved[k].age \in Ages
      BY <1>2, <1>9 DEF Hours, WasProblem, TypeOK, Entry
    <3>4. ago[k] \in Ages /\ ago'[k] = Older(ago[k])
      BY <1>2, <1>9 DEF Hours, TypeOK
    <3> QED
      BY <1>1, <2>1, <3>1, <3>2, <3>3, <3>4 DEF Agrees
  <2> QED
    BY <2>1, <2>2 DEF Known
<1>10. CASE UNCHANGED vars
  BY <1>10 DEF vars, Known, Agrees
<1> QED
  BY <1>4, <1>5, <1>6, <1>7, <1>8, <1>9, <1>10 DEF Next

(* While no run is killed, both hold in every reachable state.             *)
LEMMA KnownAlways == ASSUME InfoApart PROVE Spec => [](AlertInv /\ Known)
<1>1. Init => Known
  BY DEF Init, Known, Agrees, WasProblem
<1>2. AlertInv /\ Known /\ [Next]_vars => Known'
  BY KnownStep
<1> QED
  BY <1>1, <1>2, AlertInit, AlertStep, PTL DEF Spec

(***************************************************************************)
(* Between runs the owner's belief of every key is what is on record of    *)
(* it, however runs of the timer and of the owner meet, are skipped, crash *)
(* a probe or lose one.                                                    *)
(***************************************************************************)
THEOREM OwnerIsUpToDate == ASSUME InfoApart PROVE Spec => []OwnerKnows
<1>1. AlertInv /\ Known => OwnerKnows
  BY DEF Known, Agrees, OwnerKnows
<1> QED
  BY <1>1, KnownAlways, PTL

(***************************************************************************)
(* A message that tells the owner what he knows already comes Repeat hours *)
(* after the last one on that key, whatever lay between them.              *)
(***************************************************************************)
THEOREM AtMostOnceADay == ASSUME InfoApart PROVE Spec => []NotRepeated
<1>1. ASSUME AlertInv, Known, NEW r \in Runners, NEW k \in Keys, kills = 0,
             pc[r] = "queue", Said(r, k), LevelSaid(r, k) = told[k]
      PROVE  ago[k] >= Repeat
  <2>1. TypeOK /\ Processed /\ \A q \in Runners : pc[q] # "idle" => q = r
    BY <1>1 DEF AlertInv, Holder
  <2>2. \A q \in Runners : pc[q] \in {"idle", "queue"}
    BY <1>1, <2>1
  <2>3. Agrees(k, saved[k])
    BY <1>1, <2>2 DEF Known
  <2>4. saved[k] \in Entry \cup {Absent} /\ ago[k] \in Nat
    BY <2>1 DEF TypeOK, Ages
  <2>5. out[r][k] # "cleared" =>
          /\ WasProblem(mem[r][k])
          /\ WasProblem(saved[k]) /\ saved[k].level = mem[r][k].level => saved[k].age >= Repeat
    BY <1>1, <2>1, Messages
  <2>6. out[r][k] = "cleared" => WasProblem(saved[k])
    BY <1>1, <2>1, Messages
  <2>7. WasProblem(saved[k]) => saved[k].age \in Nat
    BY <2>4 DEF WasProblem, Entry, Ages
  <2>8. CASE out[r][k] = "cleared"
    BY <1>1, <2>3, <2>6, <2>8 DEF Agrees, LevelSaid, WasProblem, Problem
  <2>9. CASE out[r][k] # "cleared"
    <3>1. WasProblem(saved[k]) /\ saved[k].level = mem[r][k].level
      BY <1>1, <2>3, <2>5, <2>9 DEF Agrees, LevelSaid, WasProblem, Problem
    <3>2. Repeat \in Nat
      BY ConstantsAssumption
    <3> QED
      BY <2>3, <2>4, <2>5, <2>7, <2>9, <3>1, <3>2 DEF Agrees
  <2> QED
    BY <2>8, <2>9
<1>2. AlertInv /\ Known => NotRepeated
  BY <1>1 DEF NotRepeated
<1> QED
  BY <1>2, KnownAlways, PTL

=============================================================================
