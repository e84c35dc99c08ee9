------------------------------- MODULE Bridge -------------------------------
(***************************************************************************)
(* Session delivery (pskit/bridge.py, pskit/device/bridge_push.py): how    *)
(* one session file of a laptop reaches its copy in the server's inbox.    *)
(*                                                                         *)
(* A push plans from the state it saved after the last one, sends the new  *)
(* tail (or the whole file), and saves its state after the answers.  The   *)
(* receiver is the forced command of one ssh connection: it reads its      *)
(* input until the end of the stream, or until sshd notices that the       *)
(* laptop is gone.  Files are independent of each other but for the order  *)
(* of the stream, so one file is modelled; contents are sequences of       *)
(* blocks, an inode a counter that each new file moves (one that gets the  *)
(* number of the file it replaces is a Rewrite), an mtime one that each    *)
(* change moves.                                                           *)
(* deliver_local is a push whose stream cannot be cut.                     *)
(*                                                                         *)
(* An operator nothing else uses is a fault a property must detect in the  *)
(* definition after it.                                                    *)
(***************************************************************************)
EXTENDS Naturals, Sequences, SequencesExt

CONSTANTS
  Block,       \* contents of a block
  Pushes,      \* pushes that can be under way: one per ssh connection
  Absent,      \* no saved state, no inbox copy
  TailBlocks,  \* what tail_hash covers (4096 bytes)
  MaxLen,      \* bound on the blocks of the session file
  MaxChanges,  \* bound on the changes to the session file
  MaxCuts,     \* bound on pushes that fail or are killed
  Overlap      \* whether connections overlap: pair.py runs a push right
               \* after it has started the background job, which runs one
               \* when it is loaded; and a receiver of a dead connection may
               \* still wait for its input

ASSUME ConstantsAssumption ==
  /\ TailBlocks \in Nat \ {0} /\ MaxLen \in Nat
  /\ MaxChanges \in Nat /\ MaxCuts \in Nat
  /\ Absent \notin Seq(Block)
  /\ Overlap \in BOOLEAN

VARIABLES
  file,     \* the session file: data, ino, mtime; and, history: gen, how
            \* often it was changed otherwise than by appending
  state,    \* the file's entry in bridge-<server>.json, or Absent
  inbox,    \* the inbox copy: data and ino
  client,   \* per push: where it is
  loaded,   \* per push: the entry it loaded when it started
  item,     \* per push: what it planned (size, mtime, ino, offset), and
            \* the file's gen
  server,   \* per push: where its receiver is, and the status it answers
  target,   \* per push: the inode its receiver appends to
  payload,  \* per push: the bytes put on the wire
  cuts,     \* pushes that failed so far
  blind     \* history: the file was rewritten in place where the laptop
            \* may not notice, and was not delivered whole since

vars == <<file, state, inbox, client, loaded, item, server, target, payload,
          cuts, blind>>

Data   == {<<>>} \cup UNION {[1 .. n -> Block] : n \in 1 .. MaxLen}
NoItem == [size |-> 0, mtime |-> 0, ino |-> 0, gen |-> 0, offset |-> 0]

TypeOK ==
  /\ file \in [data : Seq(Block), ino : Nat, mtime : Nat, gen : Nat]
  /\ state = Absent \/ state \in [size : Nat, mtime : Nat, ino : Nat,
                                  tail : Seq(Block) \cup {Absent}]
  /\ inbox \in [data : Seq(Block) \cup {Absent}, ino : Nat]
  /\ client \in [Pushes -> {"idle", "send", "answers", "save"}]
  /\ \A p \in Pushes :
       /\ item[p] \in [size : Nat, mtime : Nat, ino : Nat, gen : Nat, offset : Nat]
       /\ item[p].offset <= item[p].size
       /\ payload[p] \in Seq(Block)
  /\ server \in [Pushes -> {"none", "start", "whole", "append", "ok",
                            "resync", "rejected"}]
  /\ target \in [Pushes -> Nat]
  /\ cuts \in 0 .. MaxCuts /\ blind \in BOOLEAN

Init ==
  /\ \E d \in Data : Len(d) <= 1
                    /\ file = [data |-> d, ino |-> 0, mtime |-> 0, gen |-> 0]
  /\ state = Absent /\ inbox = [data |-> Absent, ino |-> 0]
  /\ client = [p \in Pushes |-> "idle"]
  /\ loaded = [p \in Pushes |-> Absent]
  /\ item = [p \in Pushes |-> NoItem]
  /\ server = [p \in Pushes |-> "none"]
  /\ target = [p \in Pushes |-> 0]
  /\ payload = [p \in Pushes |-> <<>>]
  /\ cuts = 0 /\ blind = FALSE

-----------------------------------------------------------------------------
(* The agents on the laptop *)

Rests(p) == client[p] = "idle" /\ server[p] = "none"

Change(d, i, g) ==
  /\ file.mtime < MaxChanges
  /\ file' = [data |-> d, ino |-> i, mtime |-> file.mtime + 1, gen |-> g]
  /\ UNCHANGED <<state, inbox, client, loaded, item, server, target, payload,
                 cuts>>

AppendBlock ==
  /\ Len(file.data) < MaxLen
  /\ \E b \in Block : Change(Append(file.data, b), file.ino, file.gen)
  /\ UNCHANGED blind

(* Another file takes its name. *)
Replace ==
  /\ \E d \in Data : Change(d, file.ino + 1, file.gen + 1)
  /\ UNCHANGED blind

(* tail_hash: of the last bytes before `end`, None when there are fewer.   *)
(* Hashes are equal when the bytes are.                                    *)
TailHash(d, end) ==
  IF Len(d) < end THEN Absent
  ELSE SubSeq(d, IF end > TailBlocks THEN end - TailBlocks + 1 ELSE 1, end)

(***************************************************************************)
(* Whether the laptop is bound to notice that the file now reads d: no push *)
(* is under way, and of the bytes it remembers as delivered those that the  *)
(* hash covers are there and differ, or the hash covers all of them and     *)
(* they are what the inbox has.                                             *)
(***************************************************************************)
Remembers == state # Absent /\ state.ino = file.ino

Noticed(d) ==
  /\ \A p \in Pushes : Rests(p)
  /\ Remembers =>
       \/ Len(d) >= state.size /\ TailHash(d, state.size) # state.tail
       \/ /\ state.size <= TailBlocks /\ inbox.data # Absent
          /\ TailHash(inbox.data, state.size) = state.tail

(* It is written anew under the inode it has. *)
Rewrite ==
  \E d \in Data :
    /\ Change(d, file.ino, file.gen + 1)
    /\ blind' = (blind \/ ~Noticed(d))

-----------------------------------------------------------------------------
(* The push: plan, write_stream, read_answers, update_state, save_state *)

Unchanged ==
  /\ state # Absent
  /\ state.ino = file.ino /\ state.size = Len(file.data)
  /\ state.mtime = file.mtime

(* Only the tail travels when what was sent before is still there. *)
AnyState == state # Absent
GrewInSize ==
  state # Absent /\ state.ino = file.ino /\ Len(file.data) > state.size
OnlyGrew ==
  /\ state # Absent
  /\ state.ino = file.ino /\ Len(file.data) > state.size
  /\ state.tail # Absent /\ TailHash(file.data, state.size) = state.tail

(* Whether another push may start now. *)
MayStart(p) ==
  /\ Rests(p)
  /\ Overlap \/ \A q \in Pushes : Rests(q)

Plan(p) ==
  /\ MayStart(p)
  /\ loaded' = [loaded EXCEPT ![p] = state]
  /\ IF Unchanged
     THEN client' = [client EXCEPT ![p] = "save"] /\ UNCHANGED item
     ELSE /\ client' = [client EXCEPT ![p] = "send"]
          /\ item' = [item EXCEPT ![p] =
                        [size |-> Len(file.data), mtime |-> file.mtime,
                         ino |-> file.ino, gen |-> file.gen,
                         offset |-> IF OnlyGrew THEN state.size ELSE 0]]
  /\ UNCHANGED <<file, state, inbox, server, target, payload, cuts, blind>>

SelectBytes(d, from, to) == [i \in 1 .. Min({Len(d), to}) - from |-> d[from + i]]

(* It opens the file by its name and reads up to the planned size; when    *)
(* the file is shorter by now, the stream stops and the item was not sent. *)
Send(p) ==
  /\ client[p] = "send"
  /\ payload' = [payload EXCEPT ![p] =
                   SelectBytes(file.data, item[p].offset, item[p].size)]
  /\ server' = [server EXCEPT ![p] = "start"]
  /\ client' = [client EXCEPT ![p] = IF Len(file.data) < item[p].size
                                     THEN "save" ELSE "answers"]
  /\ UNCHANGED <<file, state, inbox, loaded, item, target, cuts, blind>>

Answered(p) == server[p] \in {"ok", "resync", "rejected"}

DeliveredAsOfNow(p) ==
  [size |-> Len(file.data), mtime |-> file.mtime, ino |-> file.ino,
   tail |-> TailHash(file.data, Len(file.data))]
Delivered(p) ==
  [size |-> item[p].size, mtime |-> item[p].mtime, ino |-> item[p].ino,
   tail |-> TailHash(file.data, item[p].size)]

(* update_state: the entry after the answer to this item. *)
KeptOnResync(p) == IF server[p] = "ok" THEN Delivered(p) ELSE loaded[p]
Updated(p) ==
  CASE server[p] = "ok"       -> Delivered(p)
    [] server[p] = "resync"   -> Absent
    [] server[p] = "rejected" -> loaded[p]

SentWhole(p) ==
  server[p] = "ok" /\ item[p].offset = 0 /\ item[p].gen = file.gen

Update(p) ==
  /\ client[p] = "answers" /\ Answered(p)
  /\ state' = Updated(p)
  /\ blind' = (blind /\ ~SentWhole(p))
  /\ client' = [client EXCEPT ![p] = "idle"]
  /\ server' = [server EXCEPT ![p] = "none"]
  /\ UNCHANGED <<file, inbox, loaded, item, target, payload, cuts>>

(* Nothing was planned, or the item was not sent. *)
SaveAsLoaded(p) ==
  /\ client[p] = "save"
  /\ server[p] \in {"none", "resync", "rejected"}
  /\ state' = loaded[p]
  /\ client' = [client EXCEPT ![p] = "idle"]
  /\ server' = [server EXCEPT ![p] = "none"]
  /\ UNCHANGED <<file, inbox, loaded, item, target, payload, cuts, blind>>

(* The push is killed, or it reports that the connection failed and saves  *)
(* what it had loaded.                                                     *)
Fail(p) ==
  /\ client[p] # "idle" /\ cuts < MaxCuts
  /\ cuts' = cuts + 1
  /\ client' = [client EXCEPT ![p] = "idle"]
  /\ state' \in {state, loaded[p]}
  /\ UNCHANGED <<file, inbox, loaded, item, server, target, payload, blind>>

-----------------------------------------------------------------------------
(* The receiver: _store *)

Has(n) == inbox.data # Absent /\ Len(inbox.data) = n

AnySize(p)   == inbox.data # Absent
AppendsTo(p) == Has(item[p].offset)

Open(p) ==
  /\ server[p] = "start"
  /\ server' = [server EXCEPT ![p] =
                  IF item[p].offset = 0 THEN "whole"
                  ELSE IF AppendsTo(p) THEN "append" ELSE "resync"]
  /\ target' = [target EXCEPT ![p] = inbox.ino]
  /\ UNCHANGED <<file, state, inbox, client, loaded, item, payload, cuts, blind>>

(* What it has read when its input ends: everything, or, when the laptop   *)
(* is gone, any part of it.                                                *)
Received(p) ==
  {payload[p]} \cup
    IF client[p] = "idle"
    THEN {SubSeq(payload[p], 1, n) : n \in 0 .. Len(payload[p])} ELSE {}

Complete(p, got) == Len(got) = item[p].size - item[p].offset

(* A whole file goes to a temporary name first and replaces the copy only  *)
(* when it is complete.                                                    *)
ReceiveWhole(p) ==
  /\ server[p] = "whole"
  /\ \E got \in Received(p) :
       IF Complete(p, got)
       THEN /\ inbox' = [data |-> got, ino |-> inbox.ino + 1]
            /\ server' = [server EXCEPT ![p] = "ok"]
       ELSE /\ server' = [server EXCEPT ![p] = "rejected"] /\ UNCHANGED inbox
  /\ UNCHANGED <<file, state, client, loaded, item, target, payload, cuts, blind>>

(* A tail goes straight to the file it opened, complete or not. *)
ReceiveTail(p) ==
  /\ server[p] = "append"
  /\ \E got \in Received(p) :
       /\ inbox' = IF target[p] = inbox.ino
                   THEN [inbox EXCEPT !.data = @ \o got] ELSE inbox
       /\ server' = [server EXCEPT ![p] = IF Complete(p, got) THEN "ok" ELSE "resync"]
  /\ UNCHANGED <<file, state, client, loaded, item, target, payload, cuts, blind>>

(* Nobody reads its answer. *)
Hangup(p) ==
  /\ Answered(p) /\ client[p] = "idle"
  /\ server' = [server EXCEPT ![p] = "none"]
  /\ UNCHANGED <<file, state, inbox, client, loaded, item, target, payload,
                 cuts, blind>>

-----------------------------------------------------------------------------
Push(p)    == Plan(p) \/ Send(p) \/ Update(p) \/ SaveAsLoaded(p)
Receive(p) == Open(p) \/ ReceiveWhole(p) \/ ReceiveTail(p) \/ Hangup(p)

Next ==
  \/ AppendBlock \/ Replace \/ Rewrite
  \/ \E p \in Pushes : Push(p) \/ Receive(p) \/ Fail(p)

Spec == Init /\ [][Next]_vars

(***************************************************************************)
(* The job runs every 15 minutes and a push or a receiver under way goes   *)
(* on; the file changes, and pushes fail, only so often.                   *)
(***************************************************************************)
Fairness ==
  /\ WF_vars(\E p \in Pushes : Plan(p))
  /\ \A p \in Pushes :
       /\ WF_vars(Send(p) \/ Update(p) \/ SaveAsLoaded(p))
       /\ WF_vars(Receive(p))

FairSpec == Spec /\ Fairness

-----------------------------------------------------------------------------
(* Properties *)

(***************************************************************************)
(* A file the laptop will not send again, because its saved state says     *)
(* that all of it was delivered, is in the inbox as it is on the laptop:   *)
(* "every agent session arrives".  (A tail under way may be in already.)   *)
(* A file rewritten in place is noticed by its tail's hash and sent whole; *)
(* what the property leaves out is a rewriting in the middle of a push, or *)
(* one the hash does not show, until the file was next delivered whole.    *)
(***************************************************************************)
DeliveredMeansSame == Unchanged => inbox.data = file.data \/ blind

(***************************************************************************)
(* "Files only grow (append)": of a file that only grew, the inbox holds   *)
(* a beginning, whatever was cut, repeated or answered too late.           *)
(***************************************************************************)
InboxIsBeginning ==
  file.gen = 0 /\ inbox.data # Absent => IsPrefix(inbox.data, file.data)

(***************************************************************************)
(* Once the file stops changing and pushes stop failing, its copy becomes  *)
(* equal to it and stays so, but for a rewriting that went unnoticed.      *)
(***************************************************************************)
Arrives == <>[](inbox.data = file.data \/ blind)

=============================================================================
