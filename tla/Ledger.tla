------------------------------- MODULE Ledger -------------------------------
(***************************************************************************)
(* One managed file, and one other thing the kit makes, from install to    *)
(* uninstall: install_file and the ledger (pskit/state.py) and how `pskit  *)
(* uninstall` (pskit/uninstall.py) reads the ledger backwards.  Things are *)
(* independent of each other; host.json, which tells that the kit is       *)
(* installed, is among the first in the ledger, so among the last to go.   *)
(*                                                                         *)
(* The other thing is a line of fstab, an empty directory, the swap file,  *)
(* a user, a group, a membership or a unit that is enabled: made if it is  *)
(* not there, then recorded, and undone by name.  (A user or a directory   *)
(* that is recorded to be kept, and a package, are never undone.)          *)
(*                                                                         *)
(* Every label is a point where a kill, a reboot or an exception may stop  *)
(* the program; the owner acts while neither of them runs.  Contents are   *)
(* compared by hash, here by themselves.                                   *)
(*                                                                         *)
(* An operator nothing else uses is a fault a property must detect in the  *)
(* definition after it.                                                    *)
(***************************************************************************)
EXTENDS Naturals, Sequences, SequencesExt

CONSTANTS
  OwnerContent,  \* what the owner may write to the path
  KitContent,    \* what versions of the kit write to it
  None,          \* no file, no backup
  MaxActs,       \* bound on what the owner does to the file
  MaxInstalls,   \* bound on installs (of any version)
  MaxKills,      \* bound on kills and on undos that fail
  KillAt         \* labels where a kill may stop the program

Content == OwnerContent \cup KitContent

InstallLabels   == {"create", "record", "backup", "enter", "replace", "note"}
UninstallLabels == {"undo", "purge", "forget"}

ASSUME ConstantsAssumption ==
  /\ OwnerContent \cap KitContent = {} /\ None \notin Content
  /\ MaxActs \in Nat /\ MaxInstalls \in Nat /\ MaxKills \in Nat
  /\ KillAt \subseteq InstallLabels \cup UninstallLabels

VARIABLES
  disk,      \* the file's content, or None
  ledger,    \* the ledger's entries for this path
  backups,   \* contents under SYS.backups
  aside,     \* contents under /root/pskit-uninstalled-*
  installed, \* host.json exists
  pc,        \* "idle", or where install_file or uninstall is
  raw,       \* the content being installed
  todo,      \* entries that uninstall has still to go through, latest first
  latest,    \* last_written_sha of the path when uninstall began
  own,       \* history: what the owner last left there, or None
  edited,    \* history: the owner did so to a file of the kit
  torn,      \* history: a kill, or an entry that was passed over and then
             \* forgotten, left the ledger and the disk in disagreement
  skipped,   \* history: this uninstall has passed over an entry of the file
  other,     \* the other thing: whether it is there, is in the ledger, has
             \* still to be undone; history: whether this uninstall failed to
             \* undo it, whether the owner last left it there, and that no
             \* kill or act of his confused the ledger
  acts, installs, kills

vars == <<disk, ledger, backups, aside, installed, pc, raw, todo, latest, own,
          edited, torn, skipped, other, acts, installs, kills>>

apart    == <<other, acts, installs, kills>>
owner    == <<own, edited, torn, skipped>>
files    == <<disk, ledger, backups, aside, raw, todo, latest, owner>>

Entry == [kind : {"file_created", "file_replaced", "file_written"},
          sha : KitContent, backup : Content \cup {None}]

TypeOK ==
  /\ disk \in Content \cup {None}
  /\ ledger \in Seq(Entry) /\ todo \in Seq(Entry)
  /\ \A i, j \in 1 .. Len(ledger) :
       ledger[i].kind # "file_written" /\ ledger[j].kind # "file_written" => i = j
  /\ backups \subseteq Content /\ aside \subseteq Content
  /\ {installed, edited, torn, skipped} \subseteq BOOLEAN
  /\ pc \in {"idle"} \cup InstallLabels \cup UninstallLabels
  /\ raw \in KitContent \cup {None} /\ latest \in KitContent \cup {None}
  /\ own \in Content \cup {None}
  /\ other \in [there : BOOLEAN, noted : BOOLEAN, todo : BOOLEAN,
                failed : BOOLEAN, owners : BOOLEAN, clear : BOOLEAN]
  /\ acts \in 0 .. MaxActs /\ installs \in 0 .. MaxInstalls
  /\ kills \in 0 .. MaxKills

Init ==
  /\ disk \in OwnerContent \cup {None} /\ own = disk /\ edited = FALSE
  /\ torn = FALSE /\ skipped = FALSE
  /\ ledger = <<>> /\ backups = {} /\ aside = {} /\ installed = FALSE
  /\ pc = "idle" /\ raw = None /\ todo = <<>> /\ latest = None
  /\ \E there \in BOOLEAN :
       other = [there |-> there, noted |-> FALSE, todo |-> FALSE,
                failed |-> FALSE, owners |-> there, clear |-> TRUE]
  /\ acts = 0 /\ installs = 0 /\ kills = 0

Goto(l) == pc' = l

-----------------------------------------------------------------------------
(* install_file *)

KitIsThere == installed
Managed == \E i \in 1 .. Len(ledger) : ledger[i].kind # "file_written"

(* The step that writes host.json comes first. *)
InstallFile(content) ==
  /\ pc = "idle" /\ installs < MaxInstalls
  /\ installs' = installs + 1
  /\ installed' = TRUE
  /\ raw' = content
  /\ Goto(IF disk = content THEN "idle"
          ELSE IF disk = None THEN "create"
          ELSE IF Managed THEN "enter" ELSE "backup")
  /\ UNCHANGED <<disk, ledger, backups, aside, todo, latest, owner, other,
                 acts, kills>>

AddEntry(kind, backup) ==
  ledger' = Append(ledger, [kind |-> kind, sha |-> raw, backup |-> backup])

(* There was no file: it is written, then recorded. *)
Create ==
  /\ pc = "create" /\ Goto("record")
  /\ disk' = raw
  /\ UNCHANGED <<ledger, backups, aside, installed, raw, todo, latest, owner,
                 apart>>

Record ==
  /\ pc = "record" /\ Goto("idle")
  /\ AddEntry(IF Managed THEN "file_written" ELSE "file_created", None)
  /\ UNCHANGED <<disk, backups, aside, installed, raw, todo, latest, owner,
                 apart>>

(* There was one: backed up the first time, recorded, then replaced. *)
Backup ==
  /\ pc = "backup" /\ Goto("enter")
  /\ backups' = backups \cup {disk}
  /\ UNCHANGED <<disk, ledger, aside, installed, raw, todo, latest, owner,
                 apart>>

Enter ==
  /\ pc = "enter" /\ Goto("replace")
  /\ IF Managed THEN AddEntry("file_written", None) ELSE AddEntry("file_replaced", disk)
  /\ UNCHANGED <<disk, backups, aside, installed, raw, todo, latest, owner,
                 apart>>

ReplaceFile ==
  /\ pc = "replace" /\ Goto("idle")
  /\ disk' = raw
  /\ UNCHANGED <<ledger, backups, aside, installed, raw, todo, latest, owner,
                 apart>>

(* groupadd, useradd, usermod, mkdir, swapon, enable --now, add_line.      *)
MakeAnyway == TRUE
Missing    == ~other.there

MakeOther ==
  /\ pc = "idle" /\ Missing
  /\ Goto("note")
  /\ other' = [other EXCEPT !.there = TRUE]
  /\ UNCHANGED <<files, installed, acts, installs, kills>>

NoteOther ==
  /\ pc = "note" /\ Goto("idle")
  /\ other' = [other EXCEPT !.noted = TRUE]
  /\ UNCHANGED <<files, installed, acts, installs, kills>>

-----------------------------------------------------------------------------
(* uninstall *)

FirstWritten == IF ledger = <<>> THEN None ELSE ledger[1].sha
LastWritten  == IF ledger = <<>> THEN None ELSE ledger[Len(ledger)].sha

Uninstall ==
  /\ pc = "idle" /\ installed
  /\ Goto("undo")
  /\ todo' = Reverse(ledger) /\ latest' = LastWritten
  /\ other' = [other EXCEPT !.todo = other.noted, !.failed = FALSE]
  /\ skipped' = FALSE
  /\ UNCHANGED <<disk, ledger, backups, aside, installed, raw, own, edited, torn,
                 acts, installs, kills>>

(* The owner has changed it since. *)
NotCompared == FALSE
Changed == disk # latest

UndoCreated ==
  /\ disk' = None
  /\ aside' = IF disk # None /\ Changed THEN aside \cup {disk} ELSE aside

UndoReplaced(e) ==
  IF disk # None /\ Changed
  THEN aside' = aside \cup {e.backup} /\ UNCHANGED disk
  ELSE disk' = e.backup /\ UNCHANGED aside

UndoEntry ==
  /\ pc = "undo" /\ todo # <<>>
  /\ todo' = Tail(todo) /\ UNCHANGED pc
  /\ LET e == Head(todo) IN
     CASE e.kind = "file_created"  -> UndoCreated
       [] e.kind = "file_replaced" -> UndoReplaced(e)
       [] e.kind = "file_written"  -> UNCHANGED <<disk, aside>>
  /\ UNCHANGED <<ledger, backups, installed, raw, latest, owner, apart>>

(* An exception in one entry is reported, and the next one is gone through. *)
PassOver ==
  /\ pc = "undo" /\ todo # <<>> /\ Head(todo).kind # "file_written"
  /\ kills < MaxKills
  /\ kills' = kills + 1
  /\ todo' = Tail(todo) /\ UNCHANGED pc
  /\ skipped' = TRUE
  /\ UNCHANGED <<disk, ledger, backups, aside, installed, raw, latest, own, edited,
                 torn, other, acts, installs>>

(* groupdel, userdel, gpasswd, rmdir, swapoff, disable --now, remove_line, *)
(* some of them after host.json has gone.                                  *)
UndoOther ==
  /\ pc \in {"undo", "purge"} /\ other.todo /\ UNCHANGED pc
  /\ other' = [other EXCEPT !.todo = FALSE, !.there = FALSE]
  /\ UNCHANGED <<files, installed, acts, installs, kills>>

(* The commands among them may fail, as userdel does while the user has a  *)
(* process; nobody looks.                                                  *)
UndoOtherFails ==
  /\ pc \in {"undo", "purge"} /\ other.todo /\ UNCHANGED pc
  /\ kills < MaxKills
  /\ kills' = kills + 1
  /\ other' = [other EXCEPT !.todo = FALSE, !.failed = TRUE]
  /\ UNCHANGED <<files, installed, acts, installs>>

(* The entry of host.json, then what is left of the kit. *)
RemoveHostJson ==
  /\ pc = "undo" /\ todo = <<>>
  /\ installed' = FALSE
  /\ Goto("purge")
  /\ UNCHANGED <<disk, ledger, backups, aside, raw, todo, latest, owner, apart>>

CopyState ==
  /\ pc = "purge" /\ ~other.todo /\ Goto("forget")
  /\ aside' = aside \cup backups
  /\ UNCHANGED <<disk, ledger, backups, installed, raw, todo, latest, owner,
                 apart>>

(* host.remove(SYS.state): the ledger and the backups, whatever was undone *)
(* and whatever failed.  What an uninstall keeps of an edited file, or     *)
(* failed to undo, is the owner's from here on.                            *)
Forget ==
  /\ pc = "forget" /\ Goto("idle")
  /\ ledger' = <<>> /\ backups' = {}
  /\ own' = IF edited THEN disk ELSE own
  /\ edited' = FALSE
  /\ other' = [other EXCEPT !.noted = FALSE, !.clear = TRUE,
                            !.owners = IF other.clear /\ ~other.failed THEN @
                                       ELSE other.there]
  /\ torn' = (torn \/ skipped)
  /\ UNCHANGED <<disk, aside, installed, raw, todo, latest, skipped, acts, installs,
                 kills>>

-----------------------------------------------------------------------------
(* Kills, and the owner *)

Kill ==
  /\ pc \in KillAt /\ kills < MaxKills
  /\ kills' = kills + 1
  /\ Goto("idle")
  /\ torn' = (torn \/ pc \in {"record", "replace"})
  /\ other' = [other EXCEPT !.clear = @ /\ pc # "note"]
  /\ UNCHANGED <<disk, ledger, backups, aside, installed, raw, todo, latest,
                 own, edited, skipped, acts, installs>>

OwnerLeaves(content) ==
  /\ pc = "idle" /\ acts < MaxActs /\ content # disk
  /\ acts' = acts + 1
  /\ disk' = content
  /\ own' = content
  /\ edited' = (installed /\ Managed)
  /\ UNCHANGED <<ledger, backups, aside, installed, pc, raw, todo, latest,
                 torn, skipped, other, installs, kills>>

(* He makes it or takes it away; what is still in the ledger will be undone. *)
OwnerTurns ==
  /\ pc = "idle" /\ acts < MaxActs
  /\ acts' = acts + 1
  /\ other' = [other EXCEPT !.there = ~@, !.owners = ~other.there,
                            !.clear = other.there \/ ~other.noted]
  /\ UNCHANGED <<files, installed, pc, installs, kills>>

Install == Create \/ Record \/ Backup \/ Enter \/ ReplaceFile \/ MakeOther \/ NoteOther
Undo ==
  \/ UndoEntry \/ PassOver \/ UndoOther \/ UndoOtherFails
  \/ RemoveHostJson \/ CopyState \/ Forget

Next ==
  \/ \E c \in KitContent : InstallFile(c)
  \/ Install \/ Uninstall \/ Undo \/ Kill
  \/ \E c \in OwnerContent \cup {None} : OwnerLeaves(c)
  \/ OwnerTurns

Spec == Init /\ [][Next]_vars

-----------------------------------------------------------------------------
(* Properties *)

Uninstalled == pc = "idle" /\ ~installed /\ ledger = <<>> /\ ~other.noted

(***************************************************************************)
(* "Uninstall reverses exactly" what is in the ledger: once it is through, *)
(* the path is as the owner left it before the kit came, and the kit's     *)
(* other thing is gone while one he had himself is there, however often    *)
(* the kit was installed over itself, installing or uninstalling was       *)
(* killed and repeated.  (A kill between the making of a thing and its     *)
(* entry, or between the entry of a replacement and the write, makes them  *)
(* disagree; and what he makes again of a thing still in the ledger goes.  *)
(* Nor does it say anything of an entry whose undo failed in an uninstall  *)
(* that went on to the end: that one is forgotten with the others.)        *)
(***************************************************************************)
Reversed ==
  Uninstalled => /\ ~edited /\ ~torn => disk = own
                 /\ other.clear => other.there = other.owners

(***************************************************************************)
(* What the owner had before the kit came is never lost: it is in place,   *)
(* backed up or put aside.                                                 *)
(***************************************************************************)
OriginalKept == edited \/ own = None \/ own \in {disk} \cup backups \cup aside

(***************************************************************************)
(* "Keep their version": an uninstall does not lose what the owner made of *)
(* a file of the kit; it stays in place or is put aside.                   *)
(***************************************************************************)
UninstallKeepsEdits ==
  [][(pc \in UninstallLabels /\ disk = own /\ own # None)
       => own \in {disk'} \cup aside']_vars

(***************************************************************************)
(* The kit leaves nothing of its own at the path (but for a torn ledger,   *)
(* and an entry that was passed over).                                     *)
(***************************************************************************)
NothingOfTheKitLeft == Uninstalled /\ ~torn => disk \notin KitContent

=============================================================================
