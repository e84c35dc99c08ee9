------------------------------- MODULE Alerts -------------------------------
(***************************************************************************)
(* Health runs (pskit/runtime/health.py) and their alert state             *)
(* (pskit/alerts.py): what was found, what the owner is told of it, and    *)
(* the state on disk that makes the next run say only what is new.         *)
(*                                                                         *)
(* Time is counted in units of a few hours and passes between runs.  A     *)
(* measured finding (disk, memory, swap) goes through graded(); any other  *)
(* is reported at one of the levels its probe knows.                       *)
(*                                                                         *)
(* An operator nothing else uses is a fault a property must detect in the  *)
(* definition after it.                                                    *)
(***************************************************************************)
EXTENDS Naturals, FiniteSets

CONSTANTS
  Runners,    \* processes that call health.run: the timer's, the owner's
  Measured,   \* keys graded by value: disk:/, mem:available, swap:used
  Plain,      \* keys whose probe reports a level
  Reports,    \* Reports[k]: the levels the probe of a plain key reports
  MaxValue, Warn, Crit, Margin,  \* values, and a measured key's thresholds
  Repeat,     \* alert_repeat_hours
  DigestGap,  \* the 20 hours between digest lines
  Nobody,     \* nobody holds health.lock
  Absent,     \* no entry for a key, or no finding
  Crashed,    \* its probe raised
  MaxKills    \* bound on runs killed

Keys     == Measured \cup Plain
Levels   == {"ok", "info", "warn", "crit"}
Problem  == {"warn", "crit"}

ASSUME ConstantsAssumption ==
  /\ Measured \cap Plain = {}
  /\ Reports \in [Plain -> SUBSET (Levels \cup {Absent})]
  /\ MaxValue \in Nat /\ Warn \in Nat /\ Crit \in Nat /\ Margin \in Nat
  /\ Margin <= Warn /\ Warn < Crit
  /\ Repeat \in Nat \ {0} /\ DigestGap \in Nat \ {0}
  /\ MaxKills \in Nat
  /\ Nobody \notin Runners /\ Absent \notin Levels /\ Crashed \notin Levels
  /\ Absent # Crashed /\ Absent \notin [level : Levels, age : Nat]

VARIABLES
  saved,  \* alerts.json: per key its level and the age of its sent_at (of a
          \* problem) or digest_at (of an info), or Absent
  lock,   \* who holds health.lock
  pc,     \* per runner: "idle", "queue", "note", "save"
  mem,    \* per runner: its AlertState.data
  out,    \* per runner: what the owner is to be told, per key
  told,   \* history: per key, the level the owner believes
  heard,  \* history: levels told of a key since it was last saved as clear
  ago,    \* history: hours since the last message on a key
  kills   \* runs killed so far

vars == <<saved, lock, pc, mem, out, told, heard, ago, kills>>

Ages    == 0 .. (IF Repeat > DigestGap THEN Repeat ELSE DigestGap)
Entry   == [level : {"info", "warn", "crit"}, age : Ages]
Kinds   == {"none", "new", "changed", "cleared", "reminder", "digest"}

TypeOK ==
  /\ saved \in [Keys -> Entry \cup {Absent}]
  /\ lock \in Runners \cup {Nobody}
  /\ pc \in [Runners -> {"idle", "queue", "note", "save"}]
  /\ mem \in [Runners -> [Keys -> Entry \cup {Absent}]]
  /\ out \in [Runners -> [Keys -> Kinds]]
  /\ told \in [Keys -> {"ok", "warn", "crit"}]
  /\ heard \in [Keys -> SUBSET Problem]
  /\ ago \in [Keys -> Ages]
  /\ kills \in 0 .. MaxKills

Init ==
  /\ saved = [k \in Keys |-> Absent] /\ lock = Nobody
  /\ pc = [r \in Runners |-> "idle"]
  /\ mem = [r \in Runners |-> saved]
  /\ out = [r \in Runners |-> [k \in Keys |-> "none"]]
  /\ told = [k \in Keys |-> "ok"] /\ heard = [k \in Keys |-> {}]
  /\ ago = [k \in Keys |-> Repeat] /\ kills = 0

-----------------------------------------------------------------------------
(* graded, previous_level *)

SharpEdges(value, previous) ==
  IF value >= Crit THEN "crit" ELSE IF value >= Warn THEN "warn" ELSE "ok"

(* Entering a level needs the threshold, leaving it the threshold minus    *)
(* the margin.                                                             *)
graded(value, previous) ==
  IF previous = "crit" /\ value >= Crit - Margin THEN "crit"
  ELSE IF value >= Crit THEN "crit"
  ELSE IF previous \in Problem /\ value >= Warn - Margin THEN "warn"
  ELSE IF value >= Warn THEN "warn"
  ELSE "ok"

previous_level(k) == IF saved[k] = Absent THEN "ok" ELSE saved[k].level

(* What a probe can find of a key now. *)
Findings(k) ==
  {Crashed} \cup IF k \in Measured
                 THEN {graded(v, previous_level(k)) : v \in 0 .. MaxValue}
                 ELSE Reports[k]

-----------------------------------------------------------------------------
(* process: what is said of a finding, given the entry before it *)

WasProblem(e) == e # Absent /\ e.level \in Problem

InfoKind(e) ==
  IF e # Absent /\ e.level = "info" /\ e.age < DigestGap THEN "none" ELSE "digest"

AlwaysDue(e) == TRUE
Due(e) == e.age >= Repeat

ProblemKind(e, level) ==
  IF ~WasProblem(e) THEN "new"
  ELSE IF e.level # level THEN "changed"
  ELSE IF Due(e) THEN "reminder" ELSE "none"

Kind(e, f) ==
  CASE f = Crashed            -> "none"
    [] f \in {"ok", Absent}   -> IF WasProblem(e) THEN "cleared" ELSE "none"
    [] f = "info"             -> InfoKind(e)
    [] f \in Problem          -> ProblemKind(e, f)

(* The entry after it. *)
After(e, f) ==
  IF f = Crashed THEN e
  ELSE IF f \in {"ok", Absent} THEN Absent
  ELSE IF Kind(e, f) = "none" THEN e
  ELSE [level |-> f, age |-> 0]

-----------------------------------------------------------------------------
(* run *)

(* The order of a run's steps. *)
SavesFirst ==
  [begin |-> "save", save |-> "queue", queue |-> "note", note |-> "idle"]
Follow ==
  [begin |-> "queue", queue |-> "note", note |-> "save", save |-> "idle"]

NoData == [k \in Keys |-> Absent]
NoOut  == [k \in Keys |-> "none"]

End(r) ==
  /\ lock' = Nobody
  /\ mem' = [mem EXCEPT ![r] = NoData] /\ out' = [out EXCEPT ![r] = NoOut]

Step(r, step) ==
  /\ pc[r] = step
  /\ pc' = [pc EXCEPT ![r] = Follow[step]]
  /\ IF Follow[step] = "idle" THEN End(r) ELSE UNCHANGED <<lock, mem, out>>

(* LOCK_EX | LOCK_NB: a run that finds the lock taken is skipped. *)
LockIgnored == TRUE
LockFree == lock = Nobody

Begin(r) ==
  /\ pc[r] = "idle" /\ LockFree
  /\ lock' = r
  /\ pc' = [pc EXCEPT ![r] = Follow["begin"]]
  /\ \E found \in [Keys -> Levels \cup {Absent, Crashed}] :
       /\ \A k \in Keys : found[k] \in Findings(k)
       /\ mem' = [mem EXCEPT ![r] = [k \in Keys |-> After(saved[k], found[k])]]
       /\ out' = [out EXCEPT ![r] = [k \in Keys |-> Kind(saved[k], found[k])]]
  /\ UNCHANGED <<saved, told, heard, ago, kills>>

(* What the message says of a key. *)
Said(r, k) == out[r][k] \notin {"none", "digest"}
LevelSaid(r, k) == IF out[r][k] = "cleared" THEN "ok" ELSE mem[r][k].level

(* One message for all of them, in the spool; delivery is Notify's. *)
Queue(r) ==
  /\ Step(r, "queue")
  /\ told' = [k \in Keys |-> IF Said(r, k) THEN LevelSaid(r, k) ELSE told[k]]
  /\ heard' = [k \in Keys |-> heard[k] \cup
                 IF Said(r, k) THEN {LevelSaid(r, k)} \cap Problem ELSE {}]
  /\ ago' = [k \in Keys |-> IF Said(r, k) THEN 0 ELSE ago[k]]
  /\ UNCHANGED <<saved, kills>>

(* The digest lines, and deliver(). *)
Note(r) ==
  /\ Step(r, "note")
  /\ UNCHANGED <<saved, told, heard, ago, kills>>

Save(r) ==
  /\ Step(r, "save")
  /\ saved' = mem[r]
  /\ heard' = [k \in Keys |-> IF WasProblem(mem[r][k]) THEN heard[k] ELSE {}]
  /\ UNCHANGED <<told, ago, kills>>

Kill(r) ==
  /\ pc[r] # "idle" /\ kills < MaxKills
  /\ kills' = kills + 1
  /\ pc' = [pc EXCEPT ![r] = "idle"]
  /\ End(r)
  /\ UNCHANGED <<saved, told, heard, ago>>

(* Hours pass; ages beyond the largest one that matters are alike. *)
Older(age) == IF age + 1 \in Ages THEN age + 1 ELSE age

Hours ==
  /\ \A r \in Runners : pc[r] = "idle"
  /\ saved' = [k \in Keys |-> IF saved[k] = Absent THEN Absent
                              ELSE [saved[k] EXCEPT !.age = Older(@)]]
  /\ ago' = [k \in Keys |-> Older(ago[k])]
  /\ UNCHANGED <<lock, pc, mem, out, told, heard, kills>>

Next ==
  \/ \E r \in Runners : Begin(r) \/ Queue(r) \/ Note(r) \/ Save(r) \/ Kill(r)
  \/ Hours

Spec == Init /\ [][Next]_vars

-----------------------------------------------------------------------------
(* Properties *)

(***************************************************************************)
(* "The owner hears about a problem when it starts, when it changes, when  *)
(* it clears": between runs, what the owner was last told of a key is what *)
(* the last run that saw it found.  (A run killed after it has queued its  *)
(* message has told what is not on record.)                                *)
(***************************************************************************)
OwnerKnows ==
  kills = 0 /\ (\A r \in Runners : pc[r] = "idle") =>
    \A k \in Keys :
      told[k] = IF WasProblem(saved[k]) THEN saved[k].level ELSE "ok"

(***************************************************************************)
(* "And at most once a day while it lasts": a message that says of a key   *)
(* what the owner knows already comes Repeat hours after the last one.     *)
(***************************************************************************)
NotRepeated ==
  \A r \in Runners, k \in Keys :
    kills = 0 /\ pc[r] = "queue" /\ Said(r, k) /\ LevelSaid(r, k) = told[k] =>
      ago[k] >= Repeat

(***************************************************************************)
(* Even when runs are killed between any two steps, a problem on record    *)
(* was queued for the owner: it may be said twice, never not at all.       *)
(***************************************************************************)
SavedWasSaid ==
  \A k \in Keys : WasProblem(saved[k]) => saved[k].level \in heard[k]

(***************************************************************************)
(* "A disk hovering near 80% sends it all day", here it does not: going to *)
(* and fro by no more than the margin changes the level at most once.      *)
(***************************************************************************)
Near(v, w) == v <= w + Margin /\ w <= v + Margin

HoveringIsQuiet ==
  \A k \in Measured, v, w \in 0 .. MaxValue :
    Near(v, w) =>
      LET first == graded(w, graded(v, previous_level(k)))
      IN  graded(v, first) = first /\ graded(w, first) = first

=============================================================================
