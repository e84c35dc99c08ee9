------------------------------- MODULE Notify -------------------------------
(***************************************************************************)
(* Alerts to the owner (pskit/notify.py): messages dropped as files into a *)
(* spool, delivered by whoever holds notify.lock (the path unit's service, *)
(* the health run, the tests of the installer), one retry directory, a     *)
(* cooldown per key, and the digest file that the daily run mails.         *)
(*                                                                         *)
(* Messages are numbered in the order they appear in the spool: unless two *)
(* producers race, the order of their file names (nanoseconds, then a      *)
(* counter).  `critical` and `warn` are handled alike: "urgent".           *)
(*                                                                         *)
(* An operator nothing else uses (AlwaysRecorded, NotKept...) is a fault a *)
(* property must detect in the definition after it.                        *)
(***************************************************************************)
EXTENDS Naturals, Sequences, FiniteSets

CONSTANTS
  Deliverers,   \* processes that call deliver()
  Keys,         \* cooldown keys in use
  NoKey,        \* the key of a message without one
  NoOne,        \* nobody holds the lock
  Severities,   \* subset of {"urgent", "info", "invalid"} that producers drop
  MaxMsgs,      \* bound on the messages ever dropped
  MaxSlips,     \* bound on slips, see the variable
  Outages,      \* whether the channel may refuse a message
  Flushing      \* whether the daily digest runs meanwhile

ASSUME ConstantsAssumption ==
  /\ NoKey \notin Keys /\ NoOne \notin Deliverers
  /\ Severities \subseteq {"urgent", "info", "invalid"}
  /\ MaxMsgs \in Nat /\ MaxSlips \in Nat
  /\ Outages \in BOOLEAN /\ Flushing \in BOOLEAN

VARIABLES
  kind,      \* kind[m]: severity and key of the m-th message dropped
  spool,     \* messages in the spool directory
  retry,     \* messages in the retry directory
  cooling,   \* keys whose cooldown is running
  digest,    \* info messages with a line in the digest file
  lock,      \* who holds notify.lock
  pc,        \* per deliverer: "idle", "take", "admitted", "unspool", "done"
  todo,      \* per deliverer: what is left of the listing it works through
  flush,     \* the digest run: "idle", "read" or "sent"
  fread,     \* the digest lines it has read
  sent,      \* history: urgent messages the channel accepted, in order
  mailed,    \* history: info messages that were in a digest that was sent
  dropped,   \* history: messages suppressed by a cooldown
  told,      \* history: per key, messages accepted since its cooldown began
  slips      \* deliverers that died (timeout of the unit, OOM, reboot) and
             \* answers of the channel that got lost, so far

dirs    == <<spool, retry>>
workers == <<lock, pc, todo>>
daily   == <<flush, fread, mailed>>
vars    == <<kind, dirs, cooling, digest, workers, daily, sent, dropped, told,
             slips>>

Dropped   == 1 .. Len(kind)
Listing   == [retry : SUBSET (1 .. MaxMsgs), spool : SUBSET (1 .. MaxMsgs)]
Empty     == [retry |-> {}, spool |-> {}]
SentSet   == {sent[i] : i \in 1 .. Len(sent)}

TypeOK ==
  /\ kind \in Seq([sev : Severities, key : Keys \cup {NoKey}])
  /\ spool \subseteq Dropped /\ retry \subseteq Dropped
  /\ digest \subseteq Dropped /\ fread \subseteq Dropped
  /\ mailed \subseteq Dropped /\ dropped \subseteq Dropped
  /\ sent \in Seq(Dropped)
  /\ cooling \subseteq Keys
  /\ lock \in Deliverers \cup {NoOne}
  /\ pc \in [Deliverers -> {"idle", "take", "admitted", "unspool", "done"}]
  /\ todo \in [Deliverers -> Listing]
  /\ flush \in {"idle", "read", "sent"}
  /\ told \in [Keys -> Nat]
  /\ slips \in 0 .. MaxSlips

Init ==
  /\ kind = <<>> /\ spool = {} /\ retry = {} /\ cooling = {} /\ digest = {}
  /\ lock = NoOne
  /\ pc = [d \in Deliverers |-> "idle"]
  /\ todo = [d \in Deliverers |-> Empty]
  /\ flush = "idle" /\ fread = {} /\ mailed = {}
  /\ sent = <<>> /\ dropped = {} /\ told = [k \in Keys |-> 0] /\ slips = 0

Goto(d, l) == pc' = [pc EXCEPT ![d] = l]

-----------------------------------------------------------------------------
(* enqueue *)

Enqueue(sev, key) ==
  /\ Len(kind) < MaxMsgs
  /\ kind' = Append(kind, [sev |-> sev, key |-> key])
  /\ spool' = spool \cup {Len(kind) + 1}
  /\ UNCHANGED <<retry, cooling, digest, workers, daily, sent, dropped, told,
                 slips>>

-----------------------------------------------------------------------------
(* deliver *)

(* flock(LOCK_EX): without it, two deliverers could work at once. *)
AnyoneMayEnter == TRUE
LockFree == lock = NoOne

Acquire(d) ==
  /\ pc[d] = "idle" /\ LockFree
  /\ lock' = d
  /\ Goto(d, "take")
  /\ todo' = [todo EXCEPT ![d] = [retry |-> retry, spool |-> spool]]
  /\ UNCHANGED <<kind, dirs, cooling, digest, daily, sent, dropped, told,
                 slips>>

Least(M) == CHOOSE m \in M : \A n \in M : m <= n

(* The retry directory comes before the spool, each in name order. *)
SpoolFirst(d) == todo[d].spool = {}
FromRetry(d) == todo[d].retry # {}

Current(d) == Least(IF FromRetry(d) THEN todo[d].retry ELSE todo[d].spool)
More(d)    == todo[d] # Empty

(* host.remove(path), and on to the next file of the listing. *)
RemoveCurrent(d) ==
  LET m == Current(d) IN
  IF FromRetry(d)
  THEN /\ retry' = retry \ {m} /\ UNCHANGED spool
       /\ todo' = [todo EXCEPT ![d].retry = @ \ {m}]
  ELSE /\ spool' = spool \ {m} /\ UNCHANGED retry
       /\ todo' = [todo EXCEPT ![d].spool = @ \ {m}]

Invalid(d) ==
  /\ pc[d] = "take" /\ More(d)
  /\ kind[Current(d)].sev = "invalid"
  /\ RemoveCurrent(d)
  /\ UNCHANGED <<kind, cooling, digest, lock, pc, daily, sent, dropped, told,
                 slips>>

Suppress(d) ==
  /\ pc[d] = "take" /\ More(d)
  /\ kind[Current(d)].sev # "invalid" /\ kind[Current(d)].key \in cooling
  /\ RemoveCurrent(d)
  /\ dropped' = dropped \cup {Current(d)}
  /\ UNCHANGED <<kind, cooling, digest, lock, pc, daily, sent, told, slips>>

(* _cooldown_ok records the key before anything is sent. *)
NeverRecorded(k) == cooling
AlwaysRecorded(k) == cooling \cup {k}
Recorded(k) == IF k = NoKey THEN cooling ELSE cooling \cup {k}

Admit(d) ==
  /\ pc[d] = "take" /\ More(d)
  /\ kind[Current(d)].sev # "invalid" /\ kind[Current(d)].key \notin cooling
  /\ cooling' = Recorded(kind[Current(d)].key)
  /\ Goto(d, "admitted")
  /\ UNCHANGED <<kind, dirs, digest, lock, todo, daily, sent, dropped, told,
                 slips>>

Info(d) ==
  /\ pc[d] = "admitted" /\ kind[Current(d)].sev = "info"
  /\ digest' = digest \cup {Current(d)}
  /\ Goto(d, "done")
  /\ UNCHANGED <<kind, dirs, cooling, lock, todo, daily, sent, dropped, told,
                 slips>>

(* The owner gets the message. *)
Accept(d) ==
  /\ sent' = Append(sent, Current(d))
  /\ told' = [k \in Keys |-> told[k] + IF k = kind[Current(d)].key THEN 1 ELSE 0]

SendOk(d) ==
  /\ pc[d] = "admitted" /\ kind[Current(d)].sev = "urgent"
  /\ Accept(d)
  /\ Goto(d, "done")
  /\ UNCHANGED <<kind, dirs, cooling, digest, lock, todo, daily, dropped,
                 slips>>

(* "Stop at the first failure": the listing is abandoned. *)
CarryOn(d) == [todo[d] EXCEPT !.spool = @ \ {Current(d)}]
Abandoned(d) == Empty

NotKept(d) == retry
KeptForRetry(d) == retry \cup {Current(d)}

(* An error, or no answer within 15 seconds: then it may have arrived. *)
SendFails(d) ==
  /\ Outages
  /\ pc[d] = "admitted" /\ kind[Current(d)].sev = "urgent"
  /\ \/ UNCHANGED <<sent, told, slips>>
     \/ slips < MaxSlips /\ slips' = slips + 1 /\ Accept(d)
  /\ IF FromRetry(d)
     THEN /\ Goto(d, "take") /\ UNCHANGED retry
          /\ todo' = [todo EXCEPT ![d] = Empty]
     ELSE /\ Goto(d, "unspool") /\ retry' = KeptForRetry(d)
          /\ UNCHANGED todo
  /\ UNCHANGED <<kind, spool, cooling, digest, lock, daily, dropped>>

(* The copy in the retry directory is written, now the original goes. *)
Unspool(d) ==
  /\ pc[d] = "unspool"
  /\ spool' = spool \ {Current(d)}
  /\ todo' = [todo EXCEPT ![d] = Abandoned(d)]
  /\ Goto(d, "take")
  /\ UNCHANGED <<kind, retry, cooling, digest, lock, daily, sent, dropped,
                 told, slips>>

Remove(d) ==
  /\ pc[d] = "done"
  /\ RemoveCurrent(d)
  /\ Goto(d, "take")
  /\ UNCHANGED <<kind, cooling, digest, lock, daily, sent, dropped, told,
                 slips>>

Release(d) ==
  /\ pc[d] = "take" /\ ~More(d)
  /\ lock' = NoOne
  /\ Goto(d, "idle")
  /\ UNCHANGED <<kind, dirs, cooling, digest, todo, daily, sent, dropped,
                 told, slips>>

-----------------------------------------------------------------------------
(* Time, crashes and the daily digest *)

(* The kernel drops a flock with its holder; a lock file would stay. *)
LockFileLeft(d) == lock
LockAfterCrash(d) == NoOne

Crash(d) ==
  /\ pc[d] # "idle" /\ slips < MaxSlips
  /\ slips' = slips + 1
  /\ lock' = LockAfterCrash(d)
  /\ Goto(d, "idle")
  /\ todo' = [todo EXCEPT ![d] = Empty]
  /\ UNCHANGED <<kind, dirs, cooling, digest, daily, sent, dropped, told>>

(* deliver() reads the clock once, when it starts, so that for all it does *)
(* the same cooldowns have ended.                                          *)
CooldownEnds(k) ==
  /\ k \in cooling /\ lock = NoOne
  /\ cooling' = cooling \ {k}
  /\ told' = [told EXCEPT ![k] = 0]
  /\ UNCHANGED <<kind, dirs, digest, workers, daily, sent, dropped, slips>>

(* flush_digest reads the file, sends it, then truncates it; no lock. *)
FlushRead ==
  /\ Flushing /\ flush = "idle" /\ digest # {}
  /\ fread' = digest /\ flush' = "read"
  /\ UNCHANGED <<kind, dirs, cooling, digest, workers, mailed, sent, dropped,
                 told, slips>>

FlushSend ==
  /\ flush = "read"
  /\ \/ flush' = "sent" /\ mailed' = mailed \cup fread
     \/ Outages /\ flush' = "idle" /\ UNCHANGED mailed
  /\ UNCHANGED <<kind, dirs, cooling, digest, workers, fread, sent, dropped,
                 told, slips>>

FlushTruncate ==
  /\ flush = "sent"
  /\ digest' = {} /\ flush' = "idle" /\ fread' = {}
  /\ UNCHANGED <<kind, dirs, cooling, workers, mailed, sent, dropped, told,
                 slips>>

FlushDies ==
  /\ flush # "idle" /\ slips < MaxSlips
  /\ slips' = slips + 1 /\ flush' = "idle" /\ fread' = {}
  /\ UNCHANGED <<kind, dirs, cooling, digest, workers, mailed, sent, dropped,
                 told>>

-----------------------------------------------------------------------------
Deliver(d) ==
  \/ Invalid(d) \/ Suppress(d) \/ Admit(d) \/ Info(d)
  \/ SendOk(d) \/ SendFails(d) \/ Unspool(d) \/ Remove(d) \/ Release(d)

Next ==
  \/ \E sev \in Severities, key \in Keys \cup {NoKey} : Enqueue(sev, key)
  \/ \E d \in Deliverers : Acquire(d) \/ Deliver(d) \/ Crash(d)
  \/ \E k \in Keys : CooldownEnds(k)
  \/ FlushRead \/ FlushSend \/ FlushTruncate \/ FlushDies

Spec == Init /\ [][Next]_vars

(***************************************************************************)
(* The health timer starts a delivery every five minutes, a running one    *)
(* proceeds (each send has a 15 second timeout), and the channel is not    *)
(* down for ever: a message offered to it again and again gets through.    *)
(***************************************************************************)
Fairness ==
  \A d \in Deliverers :
    WF_vars(Acquire(d)) /\ WF_vars(Deliver(d)) /\ SF_vars(SendOk(d))

FairSpec == Spec /\ Fairness

-----------------------------------------------------------------------------
(* Properties *)

(***************************************************************************)
(* Every well-formed message is still queued, was accepted by the channel, *)
(* has its line in the digest file or in a digest that was sent, or was    *)
(* suppressed by a cooldown: through outages and deliverers dying between  *)
(* any two steps.                                                          *)
(***************************************************************************)
Accounted == spool \cup retry \cup SentSet \cup digest \cup mailed \cup dropped

NothingLost == \A m \in Dropped : kind[m].sev # "invalid" => m \in Accounted

(* The same of urgent messages alone, whatever the daily digest does.      *)
NothingUrgentLost == \A m \in Dropped : kind[m].sev = "urgent" => m \in Accounted

(***************************************************************************)
(* A message is suppressed only while "an identical key was sent": another *)
(* one with its key, or itself, reached the owner.                         *)
(***************************************************************************)
SuppressedWasTold ==
  \A m \in dropped :
    \E n \in SentSet \cup digest \cup mailed : kind[n].key = kind[m].key

(***************************************************************************)
(* "Stop at the first failure: order is preserved": setting aside repeats, *)
(* the owner gets urgent messages in the order of their names.             *)
(***************************************************************************)
OrderPreserved ==
  \A i, j \in 1 .. Len(sent) :
    i < j /\ sent[j] < sent[i] => \E h \in 1 .. i : sent[h] = sent[j]

(***************************************************************************)
(* deliver is "safe to call concurrently": a message arrives again only    *)
(* because a deliverer died or the channel's answer got lost, and each     *)
(* such slip repeats one message.                                          *)
(***************************************************************************)
RepeatsOnlyBySlip == Len(sent) <= Cardinality(SentSet) + slips

(***************************************************************************)
(* While a key's cooldown runs, the owner gets at most one urgent message  *)
(* with that key.                                                          *)
(***************************************************************************)
OncePerCooldown == \A k \in Keys : told[k] <= 1

(***************************************************************************)
(* No message stays queued for ever once the channel keeps coming back.    *)
(***************************************************************************)
Drained ==
  \A m \in 1 .. MaxMsgs :
    m \in spool \cup retry ~> m \notin spool \cup retry

=============================================================================
