------------------------------ MODULE Pairing ------------------------------
(***************************************************************************)
(* Pairing a laptop with the server: PairingSession and serve() of         *)
(* pskit/server/pairing.py, the lines of authorized_keys written by        *)
(* pskit/server/keys.py, the laptop's half in pskit/device/pair.py, and    *)
(* `pskit forget-device` of pskit/__main__.py, which edits the same two    *)
(* files.                                                                  *)
(*                                                                         *)
(* The three keys of a laptop are made, sent and installed together: one   *)
(* number stands for the set, and a new set has a new number.  A code is   *)
(* the number of the session it was shown for; 0 is a mistyped code.       *)
(*                                                                         *)
(* An operator nothing else uses is a fault a property must detect in the  *)
(* definition after it.                                                    *)
(***************************************************************************)
EXTENDS Naturals, FiniteSets

CONSTANTS
  Devices,      \* the laptops, each with a name of its own
  None,         \* no key, no device, no connection
  MaxAttempts,  \* MAX_ATTEMPTS: wrong codes that end a session
  MaxSessions,  \* bound: sessions opened
  MaxKeys,      \* bound: key sets a laptop makes
  Conns,        \* bound: the connections a laptop may have at the server at once,
                \* <<laptop, i>>
  MaxKills,     \* bound: processes killed and power cuts, both machines
  ForgetOverlaps  \* may forget-device run while a request is being handled?

ASSUME PairingAssumption ==
  /\ MaxAttempts \in Nat \ {0}
  /\ {MaxSessions, MaxKeys, MaxKills} \subseteq Nat
  /\ ForgetOverlaps \in BOOLEAN
  /\ Conns \subseteq Devices \X Nat
  /\ None \notin Devices \cup Nat

VARIABLES
  auth,      \* authorized_keys: the key accepted under each device's name
  devices,   \* devices.json: the devices recorded
  ledgered,  \* the devices the ledger has an authorized_keys entry of
  sessions,  \* how many sessions were opened: the latest one's code
  session,   \* the session being served, or None
  handler,   \* the request in hand: where it is, which, and what it read
  forget,    \* the forget-device command: where it is, whose, what it read
  conn,      \* the connections at the server: a request each, or None
  lap,       \* where each laptop's `pskit pair` is
  staged,    \* the key set in its staging folder
  kept,      \* the key set in the server's folder
  made,      \* how many key sets it has made
  owned,     \* authorized_keys belongs to its owner, so that sshd reads it
  gone,      \* history: what forget-device did to the device last
  torn,      \* history: a process was killed between writing the file and
             \* giving it back to its owner, and no device was paired since
  kills

serverDisk == <<auth, devices, ledgered, owned, torn>>
held       == <<staged, kept, made>>
laptop     == <<lap, held>>
pairVars == <<serverDisk, sessions, session, handler, forget, conn, laptop,
              gone, kills>>

Keys  == 1..MaxKeys \cup {None}
Codes == 0..MaxSessions
Accepted == [Devices -> Keys]

Listening == [at |-> "listen", conn |-> None, keys |-> None, devs |-> None]
Resting   == [at |-> "idle", dev |-> None, keys |-> None, devs |-> None,
              owned |-> FALSE]

PairInit ==
  /\ auth = [d \in Devices |-> None]
  /\ devices = {} /\ ledgered = {} /\ owned = TRUE /\ torn = FALSE
  /\ sessions = 0 /\ session = None
  /\ handler = Listening /\ forget = Resting
  /\ conn = [c \in Conns |-> None]
  /\ lap = [d \in Devices |-> "off"]
  /\ staged = [d \in Devices |-> None]
  /\ kept = [d \in Devices |-> None]
  /\ made = [d \in Devices |-> 0]
  /\ gone = [d \in Devices |-> "no"]
  /\ kills = 0

----------------------------------------------------------------------------
(* The laptop: run() of device/pair.py.                                    *)

(* keygen: a key that is already in the staging folder is used again.      *)
StagedAnew(d) == made[d] + 1

Staged(d) == IF staged[d] = None THEN made[d] + 1 ELSE staged[d]

(* The owner types a code; the keys are made and the laptop connects.  It  *)
(* finds a session listening, and its request joins the queue.             *)
Ask(c, code) ==
  LET d == c[1] IN
  /\ lap[d] = "off"
  /\ session # None /\ conn[c] = None
  /\ staged[d] = None => made[d] < MaxKeys
  /\ staged' = [staged EXCEPT ![d] = Staged(d)]
  /\ made' = [made EXCEPT ![d] = IF staged[d] = None THEN @ + 1 ELSE @]
  /\ conn' = [conn EXCEPT ![c] =
                [code |-> code, key |-> Staged(d), sent |-> FALSE,
                 open |-> TRUE, silent |-> FALSE]]
  /\ lap' = [lap EXCEPT ![d] = "asking"]
  /\ UNCHANGED <<serverDisk, sessions, session, handler, forget, kept,
                 gone, kills>>

(* Nobody listens: the keys are made all the same, and the run ends.       *)
AskInVain(d) ==
  /\ lap[d] = "off" /\ session = None
  /\ staged[d] = None /\ made[d] < MaxKeys
  /\ staged' = [staged EXCEPT ![d] = Staged(d)]
  /\ made' = [made EXCEPT ![d] = @ + 1]
  /\ UNCHANGED <<serverDisk, sessions, session, handler, forget, conn, lap, kept,
                 gone, kills>>

SendRequest(c) ==
  /\ conn[c] # None
  /\ conn[c].open /\ ~conn[c].sent
  /\ conn' = [conn EXCEPT ![c].sent = TRUE]
  /\ UNCHANGED <<serverDisk, sessions, session, handler, forget, laptop,
                 gone, kills>>

(* What a laptop leaves behind when its process ends: a closed connection. *)
(* A request that was not sent whole reaches the server cut short.  When   *)
(* it is the laptop that goes, its power or its network, nobody closes it. *)
Leaves(d, mute) ==
  /\ conn' = [c \in Conns |->
       IF c[1] = d /\ conn[c] # None /\ conn[c].open
       THEN [conn[c] EXCEPT !.open = FALSE, !.silent = mute] ELSE conn[c]]
  /\ lap' = [lap EXCEPT ![d] = "off"]

(* post_pair waits 20 seconds for the answer, then the run ends.           *)
GiveUp(d) ==
  /\ lap[d] = "asking"
  /\ Leaves(d, FALSE)
  /\ UNCHANGED <<serverDisk, sessions, session, handler, forget, held, gone, kills>>

(* shutil.rmtree(keydir), then os.replace(staging, keydir).                *)
DropOld(d) ==
  /\ lap[d] = "replacing"
  /\ kept' = [kept EXCEPT ![d] = None]
  /\ lap' = [lap EXCEPT ![d] = "moving"]
  /\ UNCHANGED <<serverDisk, sessions, session, handler, forget, conn,
                 staged, made, gone, kills>>

KeepNew(d) ==
  /\ lap[d] = "moving"
  /\ kept' = [kept EXCEPT ![d] = staged[d]]
  /\ staged' = [staged EXCEPT ![d] = None]
  /\ lap' = [lap EXCEPT ![d] = "off"]
  /\ UNCHANGED <<serverDisk, sessions, session, handler, forget, conn,
                 made, gone, kills>>

KillLaptop(d) ==
  /\ lap[d] # "off" /\ kills < MaxKills
  /\ kills' = kills + 1
  /\ \E mute \in BOOLEAN : Leaves(d, mute)
  /\ UNCHANGED <<serverDisk, sessions, session, handler, forget, held, gone>>

----------------------------------------------------------------------------
(* The server: one session at a time (it owns the port), one request at a  *)
(* time (HTTPServer has no threads).                                       *)

OpenSession ==
  /\ session = None /\ sessions < MaxSessions
  /\ sessions' = sessions + 1
  /\ session' = [late |-> FALSE, attempts |-> 0, failed |-> FALSE, result |-> None]
  /\ handler' = Listening
  /\ UNCHANGED <<serverDisk, forget, conn, laptop, gone, kills>>

(* The deadline passes: 15 minutes.                                        *)
Expire ==
  /\ session # None /\ ~session.late
  /\ session' = [session EXCEPT !.late = TRUE]
  /\ UNCHANGED <<serverDisk, sessions, handler, forget, conn, laptop,
                 gone, kills>>

FinishedIgnoringClock == session.result # None \/ session.failed

Finished == session.result # None \/ session.failed \/ session.late

(* The loop of serve(): a request is taken while the session is not over.  *)
Accept(c) ==
  /\ session # None /\ handler.at = "listen" /\ ~Finished
  /\ conn[c] # None
  /\ handler' = [handler EXCEPT !.at = "body", !.conn = c]
  /\ UNCHANGED <<serverDisk, sessions, session, forget, conn, laptop,
                 gone, kills>>

(* rfile.read waits, with no limit, for the whole body or for the end of   *)
(* the connection: for ever, when neither comes.                           *)
Request  == conn[handler.conn]
Device   == handler.conn[1]
Whole    == handler.at = "body" /\ Request.sent
CutShort == /\ handler.at = "body"
            /\ ~Request.sent /\ ~Request.open /\ ~Request.silent
Stuck    == handler.at = "body" /\ ~Request.sent /\ Request.silent

(* The answer, and the end of the connection.  A laptop that still waits   *)
(* goes on if it is paired; any other answer ends its run, or has it ask   *)
(* for the code again, and leaves its keys in the staging folder.          *)
AnyAnswerWillDo(next) ==
  /\ lap' = [lap EXCEPT ![Device] = IF Request.open THEN "replacing" ELSE @]
  /\ conn' = [conn EXCEPT ![handler.conn] = None]
  /\ handler' = Listening

Answer(next) ==
  /\ lap' = [lap EXCEPT ![Device] = IF Request.open THEN next ELSE @]
  /\ conn' = [conn EXCEPT ![handler.conn] = None]
  /\ handler' = Listening

(* handle(), in its order: too late (410), unreadable (400), wrong code    *)
(* (403).  The 409 of a session that has paired is out of reach of serve,  *)
(* which takes no request then.                                            *)
TooLate ==
  /\ Whole \/ CutShort
  /\ session.late
  /\ session' = [session EXCEPT !.failed = TRUE]
  /\ Answer("off")
  /\ UNCHANGED <<serverDisk, sessions, forget, held, gone, kills>>

BadRequest ==
  /\ CutShort /\ ~session.late
  /\ Answer("off")
  /\ UNCHANGED <<serverDisk, sessions, session, forget, held, gone, kills>>

WrongCode ==
  /\ Whole /\ ~session.late
  /\ Request.code # sessions
  /\ session' = [session EXCEPT !.attempts = @ + 1,
                                !.failed = session.attempts + 1 >= MaxAttempts]
  /\ Answer("off")
  /\ UNCHANGED <<serverDisk, sessions, forget, held, gone, kills>>

(* install_device reads the file,                                          *)
RightCode ==
  /\ Whole /\ ~session.late
  /\ Request.code = sessions
  /\ ForgetOverlaps \/ forget.at = "idle"
  /\ handler' = [handler EXCEPT !.at = "writeKeys", !.keys = auth]
  /\ UNCHANGED <<serverDisk, sessions, session, forget, conn, laptop,
                 gone, kills>>

(* takes the device's own lines out, adds the new ones and replaces the    *)
(* file by one that root made for itself,                                  *)
OthersTakenOut ==
  /\ handler.at = "writeKeys"
  /\ auth' = [d \in Devices |-> IF d = Device THEN Request.key ELSE None]
  /\ gone' = [gone EXCEPT ![Device] = "no"]
  /\ owned' = FALSE
  /\ handler' = [handler EXCEPT !.at = "own", !.keys = None]
  /\ UNCHANGED <<devices, ledgered, torn, sessions, session, forget, conn,
                 laptop, kills>>

WriteKeys ==
  /\ handler.at = "writeKeys"
  /\ auth' = [handler.keys EXCEPT ![Device] = Request.key]
  /\ gone' = [gone EXCEPT ![Device] = "no"]
  /\ owned' = FALSE
  /\ handler' = [handler EXCEPT !.at = "own", !.keys = None]
  /\ UNCHANGED <<devices, ledgered, torn, sessions, session, forget, conn,
                 laptop, kills>>

(* gives it to its owner,                                                  *)
OwnKeys ==
  /\ handler.at = "own"
  /\ owned' = TRUE /\ torn' = FALSE
  /\ handler' = [handler EXCEPT !.at = "enter"]
  /\ UNCHANGED <<auth, devices, ledgered, sessions, session, forget, conn,
                 laptop, gone, kills>>

(* and tells the ledger; _record_device reads the list of devices,         *)
Enter ==
  /\ handler.at = "enter"
  /\ ledgered' = ledgered \cup {Device}
  /\ handler' = [handler EXCEPT !.at = "record", !.devs = devices]
  /\ UNCHANGED <<auth, devices, owned, torn, sessions, session, forget, conn,
                 laptop, gone, kills>>

(* and replaces it; the session has its result, and the laptop its answer. *)
Record ==
  /\ handler.at = "record"
  /\ devices' = handler.devs \cup {Device}
  /\ session' = [session EXCEPT !.result = Device]
  /\ Answer("replacing")
  /\ UNCHANGED <<auth, ledgered, owned, torn, sessions, forget, held, gone,
                 kills>>

(* The port closes, and the connections still in the queue are reset.      *)
Reset ==
  /\ session' = None /\ handler' = Listening
  /\ conn' = [c \in Conns |-> None]
  /\ lap' = [d \in Devices |-> IF lap[d] = "asking" THEN "off" ELSE lap[d]]

Close ==
  /\ session # None /\ handler.at = "listen" /\ Finished
  /\ Reset
  /\ UNCHANGED <<serverDisk, sessions, forget, held, gone, kills>>

KillServer ==
  /\ session # None /\ kills < MaxKills
  /\ kills' = kills + 1
  /\ Reset
  /\ torn' = (torn \/ handler.at = "own")
  /\ UNCHANGED <<auth, devices, ledgered, owned, sessions, forget, held, gone>>

----------------------------------------------------------------------------
(* pskit forget-device: remove_device, then devices.json.                  *)

Handling == handler.at \in {"writeKeys", "own", "enter", "record"}

(* Without keys of the device to take out the file is left alone.          *)
Forget(d) ==
  /\ forget.at = "idle" /\ d \in devices
  /\ ForgetOverlaps \/ ~Handling
  /\ forget' = [at |-> "keys", dev |-> d, keys |-> auth, devs |-> None,
              owned |-> FALSE]
  /\ gone' = [gone EXCEPT ![d] = "begun"]
  /\ UNCHANGED <<serverDisk, sessions, session, handler, conn, laptop, kills>>

KeysStay ==
  /\ forget.at = "keys"
  /\ forget' = [forget EXCEPT !.at = "devices", !.keys = None, !.devs = devices]
  /\ UNCHANGED <<serverDisk, sessions, session, handler, conn, laptop, gone,
                 kills>>

ForgetKeys ==
  LET d == forget.dev IN
  /\ forget.at = "keys"
  /\ IF forget.keys[d] = None
     THEN /\ forget' = [forget EXCEPT !.at = "devices", !.keys = None,
                                      !.devs = devices]
          /\ UNCHANGED <<auth, owned>>
     ELSE /\ auth' = [forget.keys EXCEPT ![d] = None]
          /\ forget' = [forget EXCEPT !.at = "own", !.keys = None, !.owned = owned]
          /\ owned' = FALSE
  /\ UNCHANGED <<devices, ledgered, torn, sessions, session, handler, conn,
                 laptop, gone, kills>>

(* The file goes back to whoever owned it before.                          *)
LeftToRoot ==
  /\ forget.at = "own"
  /\ forget' = [forget EXCEPT !.at = "devices", !.devs = devices]
  /\ UNCHANGED <<serverDisk, sessions, session, handler, conn, laptop, gone,
                 kills>>

OwnAsBefore ==
  /\ forget.at = "own"
  /\ owned' = forget.owned
  /\ forget' = [forget EXCEPT !.at = "devices", !.devs = devices]
  /\ UNCHANGED <<auth, devices, ledgered, torn, sessions, session, handler, conn,
                 laptop, gone, kills>>

ForgetDevice ==
  /\ forget.at = "devices"
  /\ devices' = forget.devs \ {forget.dev}
  /\ gone' = [gone EXCEPT ![forget.dev] = IF @ = "begun" THEN "done" ELSE @]
  /\ forget' = Resting
  /\ UNCHANGED <<auth, ledgered, owned, torn, sessions, session, handler, conn,
                 laptop, kills>>

KillForget ==
  /\ forget.at # "idle" /\ kills < MaxKills
  /\ kills' = kills + 1
  /\ forget' = Resting
  /\ torn' = (torn \/ forget.at = "own")
  /\ UNCHANGED <<auth, devices, ledgered, owned, sessions, session, handler, conn,
                 laptop, gone>>

----------------------------------------------------------------------------
Serving ==
  \/ \E c \in Conns : Accept(c)
  \/ TooLate \/ BadRequest \/ WrongCode \/ RightCode
  \/ WriteKeys \/ OwnKeys \/ Enter \/ Record
  \/ Close

Forgetting == ForgetKeys \/ OwnAsBefore \/ ForgetDevice

ConnsOf(d) == {c \in Conns : c[1] = d}
Waiting(d) == (\E c \in ConnsOf(d) : SendRequest(c)) \/ GiveUp(d)

Laptop(d) ==
  \/ \E c \in ConnsOf(d), code \in {0, sessions} : Ask(c, code)
  \/ AskInVain(d)
  \/ Waiting(d)
  \/ DropOld(d) \/ KeepNew(d)
  \/ KillLaptop(d)

PairNext ==
  \/ \E d \in Devices : Laptop(d)
  \/ OpenSession \/ Expire \/ KillServer
  \/ Serving
  \/ \E d \in Devices : Forget(d)
  \/ Forgetting \/ KillForget

PairSpec == PairInit /\ [][PairNext]_pairVars

(* The server's process runs, the clock reaches the deadline, and a laptop *)
(* that has connected sends its request or gives up after 20 seconds,      *)
(* unless it is gone.                                                      *)
PairFairSpec ==
  /\ PairSpec
  /\ WF_pairVars(Serving) /\ WF_pairVars(Expire) /\ WF_pairVars(Forgetting)
  /\ \A d \in Devices : WF_pairVars(Waiting(d))

----------------------------------------------------------------------------
Request_ ==
  [code : Codes, key : 1..MaxKeys, sent : BOOLEAN, open : BOOLEAN,
   silent : BOOLEAN]
Session_ ==
  [late : BOOLEAN, attempts : 0..MaxAttempts, failed : BOOLEAN,
   result : Devices \cup {None}]

Handler_ ==
  [at : {"listen", "body", "writeKeys", "own", "enter", "record"},
   conn : Conns \cup {None}, keys : Accepted \cup {None},
   devs : (SUBSET Devices) \cup {None}]
Forget_ ==
  [at : {"idle", "keys", "own", "devices"}, dev : Devices \cup {None},
   keys : Accepted \cup {None}, devs : (SUBSET Devices) \cup {None},
   owned : BOOLEAN]

ASSUME NoneAssumption == None \notin Request_ \cup Session_

PairTypeOK ==
  /\ auth \in Accepted /\ staged \in Accepted /\ kept \in Accepted
  /\ devices \subseteq Devices /\ ledgered \subseteq Devices
  /\ owned \in BOOLEAN /\ torn \in BOOLEAN
  /\ sessions \in Codes
  /\ session \in Session_ \cup {None}
  /\ handler \in Handler_ /\ forget \in Forget_
  /\ conn \in [Conns -> Request_ \cup {None}]
  /\ lap \in [Devices -> {"off", "asking", "replacing", "moving"}]
  /\ made \in [Devices -> 0..MaxKeys]
  /\ gone \in [Devices -> {"no", "begun", "done"}]
  /\ kills \in 0..MaxKills

(* A key the server accepts under a laptop's name is always one that       *)
(* laptop still holds, in use or staged: an answer lost after the server   *)
(* accepted, or a run killed anywhere, leaves nothing that pairing once    *)
(* more with the same keys does not put right.                             *)
NoOrphanKeys ==
  \A d \in Devices : auth[d] # None => auth[d] \in {staged[d], kept[d]}

(* A laptop at rest, with nothing staged, whose device was not forgotten,  *)
(* logs in: the server accepts the very keys it has in use, from a file    *)
(* that sshd reads.  The moment in which the file is written anew apart,   *)
(* and but for a process that was killed in that moment: then no paired    *)
(* laptop logs in until one is paired, and forget-device leaves that so.   *)
PairedCanLogin ==
  \A d \in Devices :
    lap[d] = "off" /\ kept[d] # None /\ staged[d] = None /\ gone[d] = "no"
      => /\ auth[d] = kept[d]
         /\ owned \/ torn \/ "own" \in {handler.at, forget.at}

(* The list of devices and the keys agree.  A device the server lists -    *)
(* the installer's check, the health check and the digest go by that list  *)
(* - has its keys, and the ledger knows of them, so uninstall takes them   *)
(* out; a forget-device that was stopped half way is the exception.  A     *)
(* device whose forget-device came to its end has no keys until it pairs   *)
(* anew, whoever else pairs: "revokes all three at once".                  *)
ListMatchesKeys ==
  \A d \in Devices :
    /\ d \in devices /\ gone[d] # "begun" => auth[d] # None /\ d \in ledgered
    /\ gone[d] = "done" => auth[d] = None

(* A session ends: paired, too many wrong codes, or 15 minutes over, also  *)
(* when laptops came and went or left without an answer.  Only one thing   *)
(* keeps it: a laptop that is gone, with its connection open and its       *)
(* request not sent, at the head of the queue.                             *)
SessionEnds == session # None ~> session = None \/ Stuck

=============================================================================
