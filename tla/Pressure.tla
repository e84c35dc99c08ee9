------------------------------ MODULE Pressure ------------------------------
(***************************************************************************)
(* The pressure guard (pskit/runtime/pressure.py): it freezes the CI and   *)
(* brain slices after BadCycles bad cycles in a row, thaws them after      *)
(* GoodCycles good ones, and never keeps them frozen for more than         *)
(* MaxFreeze cycles; a marker file per slice says what it has frozen.      *)
(*                                                                         *)
(* Time is counted in cycles (one every 30 seconds).  What the guard keeps *)
(* as clock readings is kept here as cycles since, or cycles left.         *)
(*                                                                         *)
(* An operator nothing else uses is a fault a property must detect in the  *)
(* definition after it.                                                    *)
(***************************************************************************)
EXTENDS Naturals, Sequences

CONSTANTS
  Slices,      \* the slices in the order the code goes through them
  BadCycles, GoodCycles, MaxFreeze, HoldAfter,  \* as in the code, in cycles
  Never,       \* frozen_at is None
  MaxSlips     \* bound on slips: the guard ends, or systemctl misleads it

ASSUME ConstantsAssumption ==
  /\ Slices \in Seq(STRING)
  /\ BadCycles \in Nat \ {0} /\ GoodCycles \in Nat \ {0}
  /\ MaxFreeze \in Nat \ {0} /\ HoldAfter \in Nat
  /\ Never \notin Nat
  /\ MaxSlips \in Nat

VARIABLES
  frozen,   \* slices the kernel keeps frozen
  markers,  \* slices with a marker file
  bad,      \* bad cycles in a row, counted up to BadCycles
  good,     \* good cycles in a row
  age,      \* cycles since frozen_at, or Never
  hold,     \* cycles until hold_until
  pc,       \* "down", "sleep", or where it is in freeze() or thaw()
  at,       \* the slice freeze() or thaw() is at
  goal,     \* why thaw() was called: "release", "recovered" or "exit"
  since,    \* history: cycles since there is a known frozen slice, counted up
            \* to MaxFreeze + 1
  rest,     \* history: cycles since a release, counted up to HoldAfter
  forgot,   \* history: a guard was killed while what is frozen was frozen
  strays,   \* history: slices frozen without the guard knowing: systemctl
            \* misled it, or it ended between a freeze and its marker
  slips     \* slips so far

memory    == <<bad, good, age, hold>>
guardVars == <<frozen, markers, memory, pc, at, goal, since, rest, forgot,
               strays, slips>>

SliceSet == {Slices[i] : i \in 1 .. Len(Slices)}

GuardTypeOK ==
  /\ frozen \subseteq SliceSet /\ markers \subseteq SliceSet
  /\ bad \in 0 .. BadCycles /\ good \in 0 .. GoodCycles - 1
  /\ age \in (0 .. MaxFreeze) \cup {Never}
  /\ hold \in 0 .. HoldAfter
  /\ pc \in {"down", "sleep", "freeze", "mark", "thaw", "unmark"}
  /\ at \in 1 .. Len(Slices) + 1
  /\ goal \in {"release", "recovered", "exit"}
  /\ since \in 0 .. MaxFreeze + 1 /\ rest \in 0 .. HoldAfter
  /\ forgot \in BOOLEAN /\ strays \subseteq frozen /\ slips \in 0 .. MaxSlips

GuardInit ==
  /\ frozen = {} /\ markers = {} /\ bad = 0 /\ good = 0 /\ age = Never
  /\ hold = 0 /\ pc = "sleep" /\ at = 1 /\ goal = "exit"
  /\ since = 0 /\ rest = HoldAfter /\ forgot = FALSE /\ strays = {} /\ slips = 0

Known == frozen \ strays

Slip == slips < MaxSlips /\ slips' = slips + 1

Older == IF age = Never THEN Never ELSE age + 1
Left  == IF hold = 0 THEN 0 ELSE hold - 1

(* The 30 seconds before a cycle pass. *)
Time ==
  /\ hold' = Left
  /\ since' = IF Known = {} THEN 0
              ELSE IF since <= MaxFreeze THEN since + 1 ELSE since
  /\ rest' = IF rest < HoldAfter THEN rest + 1 ELSE rest
  /\ forgot' = (forgot /\ Known # {})

Call(fn) == pc' = fn /\ at' = 1

-----------------------------------------------------------------------------
(* cycle *)

AfterTheLimit == age # Never /\ Older > MaxFreeze
FrozenTooLong == age # Never /\ Older >= MaxFreeze

Release ==
  /\ pc = "sleep" /\ FrozenTooLong
  /\ Time /\ Call("thaw") /\ goal' = "release"
  /\ age' = Older
  /\ UNCHANGED <<frozen, markers, bad, good, strays, slips>>

Enough == IF bad < BadCycles THEN bad + 1 ELSE bad

NotHeld == age = Never
MayFreeze == age = Never /\ Left = 0

BadCycle ==
  /\ pc = "sleep" /\ ~FrozenTooLong
  /\ Time
  /\ bad' = Enough /\ good' = 0 /\ age' = Older
  /\ IF Enough = BadCycles /\ MayFreeze THEN Call("freeze") ELSE UNCHANGED <<pc, at>>
  /\ UNCHANGED <<frozen, markers, goal, strays, slips>>

GoodCycle ==
  /\ pc = "sleep" /\ ~FrozenTooLong
  /\ Time
  /\ bad' = 0 /\ age' = Older
  /\ IF good + 1 >= GoodCycles
     THEN Call("thaw") /\ goal' = "recovered" /\ UNCHANGED good
     ELSE good' = good + 1 /\ UNCHANGED <<pc, at, goal>>
  /\ UNCHANGED <<frozen, markers, strays, slips>>

-----------------------------------------------------------------------------
(* freeze, slice by slice: only an active slice, only when systemctl says  *)
(* it worked is the marker written.  It may say it failed and yet freeze.  *)

FreezeSlice ==
  /\ pc = "freeze" /\ at <= Len(Slices)
  /\ \/ /\ pc' = "mark" /\ frozen' = frozen \cup {Slices[at]}
        /\ UNCHANGED <<at, strays, slips>>
     \/ at' = at + 1 /\ UNCHANGED <<pc, frozen, strays, slips>>
     \/ /\ Slip /\ Slices[at] \notin markers
        /\ frozen' = frozen \cup {Slices[at]}
        /\ strays' = strays \cup {Slices[at]}
        /\ at' = at + 1 /\ UNCHANGED pc
  /\ UNCHANGED <<markers, memory, goal, since, rest, forgot>>

FirstOnly == markers \cup {Slices[1]}
Marked == markers \cup {Slices[at]}

Mark ==
  /\ pc = "mark"
  /\ markers' = Marked
  /\ strays' = strays \ {Slices[at]}
  /\ pc' = "freeze" /\ at' = at + 1
  /\ UNCHANGED <<frozen, memory, goal, since, rest, forgot, slips>>

Froze ==
  /\ pc = "freeze" /\ at > Len(Slices)
  /\ age' = 0 /\ bad' = 0
  /\ Call("sleep")
  /\ UNCHANGED <<frozen, markers, good, hold, goal, since, rest, forgot,
                 strays, slips>>

-----------------------------------------------------------------------------
(* thaw, slice by slice: those with a marker.  Whether systemctl thaw      *)
(* worked is not looked at.                                                *)

ThawSlice ==
  /\ pc = "thaw" /\ at <= Len(Slices)
  /\ IF Slices[at] \in markers
     THEN /\ pc' = "unmark" /\ UNCHANGED at
          /\ \/ /\ frozen' = frozen \ {Slices[at]}
                /\ strays' = strays \ {Slices[at]} /\ UNCHANGED slips
             \/ /\ Slip /\ UNCHANGED frozen
                /\ strays' = strays \cup ({Slices[at]} \cap frozen)
     ELSE at' = at + 1 /\ UNCHANGED <<pc, frozen, strays, slips>>
  /\ UNCHANGED <<markers, memory, goal, since, rest, forgot>>

Unmark ==
  /\ pc = "unmark"
  /\ markers' = markers \ {Slices[at]}
  /\ pc' = "thaw" /\ at' = at + 1
  /\ UNCHANGED <<frozen, memory, goal, since, rest, forgot, strays, slips>>

NoHold == 0
FullHold == HoldAfter

Thawed ==
  /\ pc = "thaw" /\ at > Len(Slices)
  /\ Call(IF goal = "exit" THEN "down" ELSE "sleep")
  /\ since' = IF Known = {} THEN 0 ELSE since
  /\ CASE goal = "release" -> /\ age' = Never /\ bad' = 0 /\ good' = 0
                              /\ hold' = FullHold /\ rest' = 0
       [] goal = "recovered" -> /\ age' = Never /\ good' = 0
                                /\ UNCHANGED <<bad, hold, rest>>
       [] goal = "exit" -> UNCHANGED <<memory, rest>>
  /\ UNCHANGED <<frozen, markers, goal, forgot, strays, slips>>

-----------------------------------------------------------------------------
(* run_forever ends and is started again *)

EndsAnyhow == Call("down") /\ UNCHANGED goal
EndsByThaw == Call("thaw") /\ goal' = "exit"

(* A slice frozen a moment ago has no marker yet. *)
Interrupted == IF pc = "mark" THEN strays \cup {Slices[at]} ELSE strays

(* SIGTERM, a Ctrl-C or an exception. *)
Stop ==
  /\ pc # "down" /\ Slip
  /\ EndsByThaw
  /\ strays' = Interrupted
  /\ UNCHANGED <<frozen, markers, memory, since, rest, forgot>>

(* SIGKILL or the OOM killer. *)
Kill ==
  /\ pc # "down" /\ Slip
  /\ Call("down") /\ goal' = "recovered"
  /\ strays' = Interrupted
  /\ forgot' = (frozen \ strays' # {})
  /\ UNCHANGED <<frozen, markers, memory, since, rest>>

(* Restart=always: a new Guard knows nothing of the last one. *)
StartGuard ==
  /\ pc = "down"
  /\ bad' = 0 /\ good' = 0 /\ age' = Never /\ hold' = 0 /\ rest' = HoldAfter
  /\ Call("sleep")
  /\ UNCHANGED <<frozen, markers, goal, since, forgot, strays, slips>>

-----------------------------------------------------------------------------
Work == FreezeSlice \/ Mark \/ Froze \/ ThawSlice \/ Unmark \/ Thawed

GuardNext ==
  \/ Release \/ BadCycle \/ GoodCycle \/ Work
  \/ Stop \/ Kill \/ StartGuard

GuardSpec == GuardInit /\ [][GuardNext]_guardVars

(* systemd restarts the guard, and the guard goes on. *)
Fairness == WF_guardVars(Release \/ BadCycle \/ GoodCycle \/ Work \/ StartGuard)

GuardFairSpec == GuardSpec /\ Fairness

-----------------------------------------------------------------------------
(* Properties *)

(***************************************************************************)
(* "Never frozen for long": no slice the guard knows to be frozen stays so *)
(* for more than 30 minutes, whatever the pressure, however often guards   *)
(* are told to stop and whatever goes wrong with another slice.  (A guard  *)
(* that starts after another was killed does not know since when slices    *)
(* are frozen: frozen_at is in memory.)                                    *)
(***************************************************************************)
NeverFrozenForLong == Known = {} \/ forgot \/ since <= MaxFreeze

(***************************************************************************)
(* "Resume and hold off": when the guard had to release the slices, they   *)
(* run for the next 30 minutes, unless the guard is started anew.          *)
(***************************************************************************)
HoldsOff == rest < HoldAfter => Known = {}

(***************************************************************************)
(* Whoever started it, a guard can find what is frozen: a slice without a  *)
(* marker is a stray or the one being frozen, and a guard that was told to *)
(* stop leaves none but strays behind.                                     *)
(***************************************************************************)
FrozenCanBeThawed ==
  /\ Known \subseteq markers \cup (IF pc = "mark" THEN {Slices[at]} ELSE {})
  /\ pc = "down" /\ goal = "exit" => Known = {}

(***************************************************************************)
(* "thaws them when the machine recovers", even when guards are killed: if *)
(* bad cycles come to an end, so does every freeze the guard knows of.     *)
(***************************************************************************)
ThawsOnRecovery == <>[](bad = 0) => <>[](Known = {})

=============================================================================
