---------------------------- MODULE Ledger_proofs ---------------------------
(***************************************************************************)
(* Proofs about Ledger, for any contents and any number of installs, kills *)
(* and acts of the owner, where no kill falls between the removal of       *)
(* host.json and that of the ledger: after such a kill a later install     *)
(* builds on the old ledger.                                               *)
(***************************************************************************)
EXTENDS Ledger, TLAPS, SequenceTheorems

EndsWhole == KillAt \cap {"purge", "forget"} = {}

First == ledger[1]

Types ==
  /\ disk \in Content \cup {None} /\ own \in Content \cup {None}
  /\ ledger \in Seq(Entry) /\ todo \in Seq(Entry)
  /\ backups \subseteq Content /\ aside \subseteq Content
  /\ pc \in {"idle"} \cup InstallLabels \cup UninstallLabels
  /\ raw \in KitContent \cup {None} /\ latest \in KitContent \cup {None}
  /\ acts \in 0 .. MaxActs /\ installs \in 0 .. MaxInstalls
  /\ kills \in 0 .. MaxKills

Flags ==
  /\ installed \in BOOLEAN /\ edited \in BOOLEAN /\ torn \in BOOLEAN
  /\ skipped \in BOOLEAN
  /\ other \in [there : BOOLEAN, noted : BOOLEAN, todo : BOOLEAN,
                failed : BOOLEAN, owners : BOOLEAN, clear : BOOLEAN]

(***************************************************************************)
(* The inductive invariant.  The first entry says how the path came to be  *)
(* the kit's, and its backup is in the store; the later ones only date it. *)
(***************************************************************************)
Shape ==
  /\ ledger # <<>> =>
       /\ First.kind \in {"file_created", "file_replaced"}
       /\ First.kind = "file_replaced" => First.backup # None /\ First.backup \in backups
  /\ \A i \in 2 .. Len(ledger) : ledger[i].kind = "file_written"

(* What each label has behind it.                                          *)
Where ==
  /\ ~installed /\ pc \notin {"purge", "forget"} => ledger = <<>>
  /\ pc \in {"create", "record", "backup", "enter", "replace"} => installed /\ raw # None
  /\ pc = "create" => disk = None
  /\ pc = "record" => disk = raw
  /\ pc \in {"backup", "enter"} => disk # None
  /\ pc = "backup" => ledger = <<>>
  /\ pc = "enter" /\ ledger = <<>> => disk \in backups
  /\ pc = "replace" => ledger # <<>> /\ LastWritten = raw
  /\ pc = "undo" =>
       /\ latest = LastWritten
       /\ \A i \in 1 .. Len(todo) :
            todo[i].kind # "file_written" => ledger # <<>> /\ todo[i] = First
  /\ pc = "forget" => backups \subseteq aside
  /\ edited => ledger # <<>> /\ own \notin KitContent

(* Where the owner's content is, by what the first entry says.             *)
Original ==
  /\ ledger = <<>> => /\ own \in {None, disk} \cup aside
                      /\ disk = None \/ pc = "record" => own = None
  /\ ledger # <<>> /\ ~edited =>
       /\ First.kind = "file_created" => own = None
       /\ First.kind = "file_replaced" =>
            disk # None /\ own \in {None, First.backup} \cup aside

(* Unless they were torn apart: a file with the kit's content is the one   *)
(* written last, and the entry that takes it back is still to come, or was *)
(* passed over.                                                            *)
Agree == ~torn =>
  /\ own \notin KitContent
  /\ ledger # <<>> /\ First.kind = "file_replaced" =>
       First.backup \notin KitContent /\ (~edited => First.backup = own)
  /\ ~edited => disk \in KitContent \cup {own}
  /\ disk \in KitContent /\ pc \notin {"record", "replace"} =>
       /\ ledger # <<>> /\ disk = LastWritten
       /\ ~skipped => pc \notin {"purge", "forget"}
       /\ ~skipped /\ pc = "undo" => \E i \in 1 .. Len(todo) : todo[i].kind # "file_written"

(* The other thing is undone before the ledger that names it goes.         *)
Other ==
  /\ other.todo => other.noted /\ pc # "forget"
  /\ other.noted /\ pc \in UninstallLabels => other.todo \/ other.failed \/ ~other.there
  /\ other.clear => IF other.noted \/ pc = "note" THEN ~other.owners
                                                  ELSE other.there = other.owners

IInv == Types /\ Flags /\ Shape /\ Where /\ Original /\ Agree /\ Other

(* A ledger read backwards has its entries, and its first one at the end.  *)
LEMMA Backwards ==
  ASSUME NEW s \in Seq(Entry)
  PROVE  /\ Reverse(s) \in Seq(Entry) /\ Len(Reverse(s)) = Len(s)
         /\ \A i \in 1 .. Len(s) : Reverse(s)[i] = s[Len(s) - i + 1]
  BY DEF Reverse

(* An entry appended to a ledger is its last one, and its first if it had  *)
(* none.                                                                   *)
LEMMA Appended ==
  ASSUME NEW s \in Seq(Entry), NEW e \in Entry
  PROVE  /\ Append(s, e) \in Seq(Entry) /\ Append(s, e) # <<>>
         /\ Len(Append(s, e)) = Len(s) + 1 /\ Append(s, e)[Len(s) + 1] = e
         /\ \A i \in 1 .. Len(s) : Append(s, e)[i] = s[i]
         /\ s = <<>> => Append(s, e)[1] = e
         /\ s # <<>> => Len(s) > 0 /\ Append(s, e)[1] = s[1]
<1>1. /\ Append(s, e) \in Seq(Entry) /\ Len(Append(s, e)) = Len(s) + 1
      /\ Append(s, e)[Len(s) + 1] = e /\ Len(s) \in Nat
      /\ \A i \in 1 .. Len(s) : Append(s, e)[i] = s[i]
  BY AppendProperties
<1>2. s = <<>> => Len(s) = 0
  OBVIOUS
<1>3. s # <<>> => Len(s) > 0 /\ 1 \in 1 .. Len(s)
  BY <1>1, EmptySeq
<1>4. Append(s, e) # <<>>
  BY <1>1, EmptySeq
<1> QED
  BY <1>1, <1>2, <1>3, <1>4

(* What was written last is some version of the kit's file.                *)
LEMMA LastIsTheKits ==
  ASSUME ledger \in Seq(Entry), ledger # <<>>
  PROVE  LastWritten \in KitContent
<1>1. Len(ledger) \in 1 .. Len(ledger)
  BY LenProperties, EmptySeq
<1>2. ledger[Len(ledger)] \in Entry
  BY <1>1, ElementOfSeq
<1> QED
  BY <1>2 DEF LastWritten, Entry

(* The path is managed as soon as the ledger has an entry for it.          *)
LEMMA ManagedIsListed == Types /\ Shape => (Managed <=> ledger # <<>>)
  BY DEF Types, Shape, First, Managed

(* Every step keeps the invariant.                                         *)
LEMMA InvStep == EndsWhole /\ IInv /\ [Next]_vars => IInv'
<1> SUFFICES ASSUME EndsWhole, IInv, [Next]_vars PROVE IInv'
  OBVIOUS
<1> USE ConstantsAssumption DEF IInv, Types, Flags, Shape, Where, Original, Agree, Other,
      First, Content, Entry, InstallLabels, UninstallLabels, LastWritten, EndsWhole
<1>1. ASSUME NEW c \in KitContent, InstallFile(c) PROVE IInv'
  <2> USE <1>1 DEF InstallFile, Goto, owner
  <2>1. Types'
    BY ManagedIsListed
  <2>2. Flags'
    BY Zenon
  <2>3. Shape'
    BY ManagedIsListed
  <2>4. Where'
    BY ManagedIsListed
  <2>5. Original'
    BY ManagedIsListed
  <2>6. Agree'
    BY ManagedIsListed
  <2>7. Other'
    BY ManagedIsListed
  <2> QED
    BY <2>1, <2>2, <2>3, <2>4, <2>5, <2>6, <2>7
<1>2. CASE Create
  <2> USE <1>2 DEF Create, Goto, owner, apart
  <2>1. Types'
    OBVIOUS
  <2>2. Flags'
    BY Zenon
  <2>3. Shape'
    OBVIOUS
  <2>4. Where'
    OBVIOUS
  <2>5. Original'
    OBVIOUS
  <2>6. Agree'
    OBVIOUS
  <2>7. Other'
    OBVIOUS
  <2> QED
    BY <2>1, <2>2, <2>3, <2>4, <2>5, <2>6, <2>7
<1>3. CASE Record
  <2> USE <1>3 DEF Record, Goto, owner, apart, AddEntry
  <2>1. Types'
    BY ManagedIsListed
  <2>2. Flags'
    BY Zenon
  <2>3. Shape'
    BY ManagedIsListed
  <2>4. Where'
    BY ManagedIsListed
  <2>5. Original'
    BY ManagedIsListed
  <2>6. Agree'
    BY ManagedIsListed
  <2>7. Other'
    BY ManagedIsListed
  <2> QED
    BY <2>1, <2>2, <2>3, <2>4, <2>5, <2>6, <2>7
<1>4. CASE Backup
  <2> USE <1>4 DEF Backup, Goto, owner, apart
  <2>1. Types'
    OBVIOUS
  <2>2. Flags'
    BY Zenon
  <2>3. Shape'
    OBVIOUS
  <2>4. Where'
    OBVIOUS
  <2>5. Original'
    OBVIOUS
  <2>6. Agree'
    OBVIOUS
  <2>7. Other'
    OBVIOUS
  <2> QED
    BY <2>1, <2>2, <2>3, <2>4, <2>5, <2>6, <2>7
<1>5. CASE Enter
  <2> DEFINE e == [kind |-> IF ledger = <<>> THEN "file_replaced" ELSE "file_written",
                   sha |-> raw, backup |-> IF ledger = <<>> THEN disk ELSE None]
  <2>1. /\ ledger' = Append(ledger, e) /\ pc' = "replace"
        /\ UNCHANGED <<disk, backups, aside, installed, raw, todo, latest, own, edited,
                       torn, skipped, other, acts, installs, kills>>
    BY <1>5, ManagedIsListed DEF Enter, AddEntry, Goto, owner, apart
  <2>2. pc = "enter" /\ disk # None /\ raw # None /\ e \in Entry
    BY <1>5 DEF Enter
  <2>3. /\ ledger' \in Seq(Entry) /\ ledger' # <<>>
        /\ Len(ledger') = Len(ledger) + 1 /\ ledger'[Len(ledger) + 1] = e
        /\ \A i \in 1 .. Len(ledger) : ledger'[i] = ledger[i]
        /\ ledger = <<>> => ledger'[1] = e
        /\ ledger # <<>> => Len(ledger) > 0 /\ ledger'[1] = ledger[1]
    BY <2>1, <2>2, Appended
  <2>4. /\ e.sha = raw
        /\ ledger = <<>> => e.kind = "file_replaced" /\ e.backup = disk
        /\ ledger # <<>> => e.kind = "file_written"
    OBVIOUS
  <2> HIDE DEF e
  <2>5. Types'
    BY <2>1, <2>3
  <2>6. Flags'
    BY <2>1
  <2>7. Shape'
    BY <2>1, <2>2, <2>3, <2>4
  <2>8. Where'
    BY <2>1, <2>2, <2>3, <2>4
  <2>9. Original'
    BY <2>1, <2>2, <2>3, <2>4
  <2>10. Agree'
    BY <2>1, <2>2, <2>3, <2>4
  <2>11. Other'
    BY <2>1, <2>2
  <2> QED
    BY <2>5, <2>6, <2>7, <2>8, <2>9, <2>10, <2>11
<1>6. CASE ReplaceFile
  <2> USE <1>6 DEF ReplaceFile, Goto, owner, apart
  <2>1. Types'
    OBVIOUS
  <2>2. Flags'
    BY Zenon
  <2>3. Shape'
    OBVIOUS
  <2>4. Where'
    OBVIOUS
  <2>5. Original'
    OBVIOUS
  <2>6. Agree'
    OBVIOUS
  <2>7. Other'
    OBVIOUS
  <2> QED
    BY <2>1, <2>2, <2>3, <2>4, <2>5, <2>6, <2>7
<1>7. CASE MakeOther
  <2> USE <1>7 DEF MakeOther, Missing, Goto, files, owner
  <2>1. Types'
    OBVIOUS
  <2>2. Flags'
    BY Zenon
  <2>3. Shape'
    OBVIOUS
  <2>4. Where'
    OBVIOUS
  <2>5. Original'
    OBVIOUS
  <2>6. Agree'
    OBVIOUS
  <2>7. Other'
    OBVIOUS
  <2> QED
    BY <2>1, <2>2, <2>3, <2>4, <2>5, <2>6, <2>7
<1>8. CASE NoteOther
  <2> USE <1>8 DEF NoteOther, Goto, files, owner
  <2>1. Types'
    OBVIOUS
  <2>2. Flags'
    BY Zenon
  <2>3. Shape'
    OBVIOUS
  <2>4. Where'
    OBVIOUS
  <2>5. Original'
    OBVIOUS
  <2>6. Agree'
    OBVIOUS
  <2>7. Other'
    OBVIOUS
  <2> QED
    BY <2>1, <2>2, <2>3, <2>4, <2>5, <2>6, <2>7
<1>9. CASE Uninstall
  <2> DEFINE n == Len(ledger)
  <2>1. /\ pc = "idle" /\ installed /\ pc' = "undo" /\ latest' = LastWritten
        /\ todo' = Reverse(ledger)
        /\ other' = [other EXCEPT !.todo = other.noted, !.failed = FALSE] /\ skipped' = FALSE
        /\ UNCHANGED <<disk, ledger, backups, aside, installed, raw, own, edited, torn,
                       acts, installs, kills>>
    BY <1>9 DEF Uninstall, Goto, owner
  <2>2. /\ todo' \in Seq(Entry) /\ Len(todo') = n /\ n \in Nat
        /\ \A i \in 1 .. n : todo'[i] = ledger[n - i + 1]
    <3>1. ledger \in Seq(Entry)
      OBVIOUS
    <3> HIDE DEF IInv, Types, Flags, Shape, Where, Original, Agree, Other, Entry
    <3>2. /\ Reverse(ledger) \in Seq(Entry) /\ Len(Reverse(ledger)) = n
          /\ \A i \in 1 .. n : Reverse(ledger)[i] = ledger[n - i + 1]
      BY <3>1, Backwards
    <3> QED
      BY <2>1, <3>1, <3>2, LenProperties
  <2>3. ledger # <<>> => n > 0 /\ n \in 1 .. n /\ todo'[n] = First
    BY <2>2
  <2>4. \A i \in 1 .. n : todo'[i].kind # "file_written" => todo'[i] = First
    <3> SUFFICES ASSUME NEW i \in 1 .. n, ledger[n - i + 1].kind # "file_written"
                 PROVE  ledger[n - i + 1] = First
      BY <2>2
    <3>1. n - i + 1 \notin 2 .. n /\ n - i + 1 \in 1 .. n
      <4>1. \A j \in 2 .. n : ledger[j].kind = "file_written"
        OBVIOUS
      <4>2. n \in Nat
        BY <2>2
      <4> HIDE DEF IInv, Types, Flags, Shape, Where, Original, Agree, Other, n
      <4> QED
        BY <4>1, <4>2
    <3> QED
      BY <2>2, <3>1
  <2>5. Types'
    <3>1. latest' \in KitContent \cup {None}
      BY <2>1, LastIsTheKits
    <3> QED
      BY <2>1, <2>2, <3>1
  <2>6. Flags'
    <3>1. other' \in [there : BOOLEAN, noted : BOOLEAN, todo : BOOLEAN,
                      failed : BOOLEAN, owners : BOOLEAN, clear : BOOLEAN]
      BY <2>1
    <3> QED
      BY <2>1, <3>1
  <2>7. Shape'
    BY <2>1
  <2>8. Where'
    <3>1. \A i \in 1 .. n : todo'[i].kind # "file_written" => ledger # <<>>
      BY <2>2
    <3> QED
      BY <2>1, <2>2, <2>4, <3>1
  <2>9. Original'
    BY <2>1
  <2>10. Agree'
    BY <2>1, <2>2, <2>3
  <2>11. Other'
    BY <2>1
  <2> QED
    BY <2>5, <2>6, <2>7, <2>8, <2>9, <2>10, <2>11
<1>10. CASE UndoEntry
  <2> DEFINE e == Head(todo)
  <2>1. /\ pc = "undo" /\ todo # <<>> /\ todo' = Tail(todo)
        /\ UNCHANGED <<pc, ledger, backups, installed, raw, latest, own, edited, torn, skipped,
                       other, acts, installs, kills>>
    BY <1>10 DEF UndoEntry, owner, apart
  <2>2. /\ e \in Entry /\ e = todo[1] /\ todo' \in Seq(Entry)
        /\ Len(todo) \in Nat /\ Len(todo) > 0 /\ Len(todo') = Len(todo) - 1
        /\ \A i \in 1 .. Len(todo') : todo'[i] = todo[i + 1]
    <3>1. todo \in Seq(Entry) /\ todo # <<>> /\ todo' = Tail(todo)
      BY <2>1
    <3> HIDE DEF IInv, Types, Flags, Shape, Where, Original, Agree, Other, Entry
    <3>2. /\ e \in Entry /\ Tail(todo) \in Seq(Entry) /\ Len(Tail(todo)) = Len(todo) - 1
          /\ \A i \in 1 .. Len(Tail(todo)) : Tail(todo)[i] = todo[i + 1]
      BY <3>1, HeadTailProperties
    <3>3. Len(todo) \in Nat /\ Len(todo) > 0
      BY <3>1, LenProperties, EmptySeq
    <3>4. e = todo[1]
      BY <3>1
    <3> QED
      BY <3>1, <3>2, <3>3, <3>4
  <2>3. e.kind # "file_written" => ledger # <<>> /\ e = First
    BY <2>1, <2>2
  <2>4. e.kind \in {"file_created", "file_replaced", "file_written"}
    BY <2>2
  <2>5. /\ e.kind = "file_created" =>
             disk' = None /\ aside' = IF disk # None /\ Changed THEN aside \cup {disk} ELSE aside
        /\ e.kind = "file_replaced" =>
             IF disk # None /\ Changed THEN aside' = aside \cup {e.backup} /\ disk' = disk
                                       ELSE disk' = e.backup /\ aside' = aside
        /\ e.kind = "file_written" => disk' = disk /\ aside' = aside
    BY <1>10 DEF UndoEntry, UndoCreated, UndoReplaced
  <2>6. Changed <=> disk # LastWritten
    BY <2>1 DEF Changed
  <2> HIDE DEF e
  <2>7. Types'
    BY <2>1, <2>2, <2>3, <2>4, <2>5
  <2>8. Flags'
    BY <2>1
  <2>9. Shape'
    BY <2>1
  <2>10. Where'
    BY <2>1, <2>2
  <2>11. Original'
    BY <2>1, <2>2, <2>3, <2>4, <2>5
  <2>12. Agree'
    <3>1. own' = own /\ LastWritten' = LastWritten /\ First' = First
      BY <2>1
    <3> SUFFICES ASSUME ~torn PROVE Agree'
      BY <2>1
    <3>2. CASE e.kind = "file_written"
      <4>1. \A i \in 1 .. Len(todo) :
              todo[i].kind # "file_written" =>
                i - 1 \in 1 .. Len(todo') /\ todo'[i - 1] = todo[i]
        BY <2>2, <3>2
      <4> QED
        <5>1. (\E i \in 1 .. Len(todo) : todo[i].kind # "file_written")
               => \E i \in 1 .. Len(todo') : todo'[i].kind # "file_written"
          BY <4>1
        <5> QED
          BY <2>1, <2>5, <3>1, <3>2, <5>1
    <3>3. CASE e.kind = "file_created"
      BY <2>1, <2>3, <2>5, <3>3
    <3>4. CASE e.kind = "file_replaced"
      <4>1. LastWritten \in KitContent
        BY <2>3, <3>4, LastIsTheKits
      <4> QED
        BY <2>1, <2>3, <2>5, <2>6, <3>4, <4>1
    <3> QED
      BY <2>4, <3>2, <3>3, <3>4
  <2>13. Other'
    BY <2>1
  <2> QED
    BY <2>7, <2>8, <2>9, <2>10, <2>11, <2>12, <2>13
<1>11. CASE UndoOther
  <2> USE <1>11 DEF UndoOther, files, owner
  <2>1. Types'
    OBVIOUS
  <2>2. Flags'
    BY Zenon
  <2>3. Shape'
    OBVIOUS
  <2>4. Where'
    OBVIOUS
  <2>5. Original'
    OBVIOUS
  <2>6. Agree'
    OBVIOUS
  <2>7. Other'
    OBVIOUS
  <2> QED
    BY <2>1, <2>2, <2>3, <2>4, <2>5, <2>6, <2>7
<1>19. CASE PassOver
  <2>1. /\ pc = "undo" /\ todo # <<>> /\ todo' = Tail(todo) /\ skipped' = TRUE
        /\ kills < MaxKills /\ kills' = kills + 1
        /\ UNCHANGED <<pc, disk, ledger, backups, aside, installed, raw, latest, own,
                       edited, torn, other, acts, installs>>
    BY <1>19 DEF PassOver
  <2>2. /\ todo' \in Seq(Entry) /\ Len(todo) \in Nat /\ Len(todo') = Len(todo) - 1
        /\ \A i \in 1 .. Len(todo') : todo'[i] = todo[i + 1]
    <3>1. todo \in Seq(Entry) /\ todo # <<>> /\ todo' = Tail(todo)
      BY <2>1
    <3> HIDE DEF IInv, Types, Flags, Shape, Where, Original, Agree, Other, Entry
    <3>2. /\ Tail(todo) \in Seq(Entry) /\ Len(Tail(todo)) = Len(todo) - 1
          /\ \A i \in 1 .. Len(Tail(todo)) : Tail(todo)[i] = todo[i + 1]
      BY <3>1, HeadTailProperties
    <3> QED
      BY <3>1, <3>2, LenProperties
  <2>3. Types'
    BY <2>1, <2>2
  <2>4. Flags'
    BY <2>1
  <2>5. Shape' /\ Original' /\ Other'
    BY <2>1
  <2>6. Where'
    BY <2>1, <2>2
  <2>7. Agree'
    BY <2>1
  <2> QED
    BY <2>3, <2>4, <2>5, <2>6, <2>7
<1>20. CASE UndoOtherFails
  <2> USE <1>20 DEF UndoOtherFails, files, owner
  <2>1. Types'
    OBVIOUS
  <2>2. Flags'
    BY Zenon
  <2>3. Shape'
    OBVIOUS
  <2>4. Where'
    OBVIOUS
  <2>5. Original'
    OBVIOUS
  <2>6. Agree'
    OBVIOUS
  <2>7. Other'
    OBVIOUS
  <2> QED
    BY <2>1, <2>2, <2>3, <2>4, <2>5, <2>6, <2>7
<1>12. CASE RemoveHostJson
  <2> USE <1>12 DEF RemoveHostJson, Goto, owner, apart
  <2>1. Types'
    OBVIOUS
  <2>2. Flags'
    BY Zenon
  <2>3. Shape'
    OBVIOUS
  <2>4. Where'
    OBVIOUS
  <2>5. Original'
    OBVIOUS
  <2>6. Agree'
    OBVIOUS
  <2>7. Other'
    OBVIOUS
  <2> QED
    BY <2>1, <2>2, <2>3, <2>4, <2>5, <2>6, <2>7
<1>13. CASE CopyState
  <2> USE <1>13 DEF CopyState, Goto, owner, apart
  <2>1. Types'
    OBVIOUS
  <2>2. Flags'
    BY Zenon
  <2>3. Shape'
    OBVIOUS
  <2>4. Where'
    OBVIOUS
  <2>5. Original'
    OBVIOUS
  <2>6. Agree'
    OBVIOUS
  <2>7. Other'
    OBVIOUS
  <2> QED
    BY <2>1, <2>2, <2>3, <2>4, <2>5, <2>6, <2>7
<1>14. CASE Forget
  <2> USE <1>14 DEF Forget, Goto
  <2>1. Types'
    OBVIOUS
  <2>2. Flags'
    BY Zenon
  <2>3. Shape'
    OBVIOUS
  <2>4. Where'
    OBVIOUS
  <2>5. Original'
    OBVIOUS
  <2>6. Agree'
    OBVIOUS
  <2>7. Other'
    OBVIOUS
  <2> QED
    BY <2>1, <2>2, <2>3, <2>4, <2>5, <2>6, <2>7
<1>15. CASE Kill
  <2> USE <1>15 DEF Kill, Goto
  <2>1. Types'
    OBVIOUS
  <2>2. Flags'
    BY Zenon
  <2>3. Shape'
    OBVIOUS
  <2>4. Where'
    OBVIOUS
  <2>5. Original'
    OBVIOUS
  <2>6. Agree'
    OBVIOUS
  <2>7. Other'
    OBVIOUS
  <2> QED
    BY <2>1, <2>2, <2>3, <2>4, <2>5, <2>6, <2>7
<1>16. ASSUME NEW c \in OwnerContent \cup {None}, OwnerLeaves(c) PROVE IInv'
  <2> USE <1>16 DEF OwnerLeaves
  <2>1. Types'
    BY ManagedIsListed
  <2>2. Flags'
    BY Zenon
  <2>3. Shape'
    BY ManagedIsListed
  <2>4. Where'
    BY ManagedIsListed
  <2>5. Original'
    BY ManagedIsListed
  <2>6. Agree'
    BY ManagedIsListed
  <2>7. Other'
    BY ManagedIsListed
  <2> QED
    BY <2>1, <2>2, <2>3, <2>4, <2>5, <2>6, <2>7
<1>17. CASE OwnerTurns
  <2> USE <1>17 DEF OwnerTurns, files, owner
  <2>1. Types'
    OBVIOUS
  <2>2. Flags'
    BY Zenon
  <2>3. Shape'
    OBVIOUS
  <2>4. Where'
    OBVIOUS
  <2>5. Original'
    OBVIOUS
  <2>6. Agree'
    OBVIOUS
  <2>7. Other'
    OBVIOUS
  <2> QED
    BY <2>1, <2>2, <2>3, <2>4, <2>5, <2>6, <2>7
<1>18. CASE UNCHANGED vars
  <2> USE <1>18 DEF vars, owner, apart
  <2>1. Types'
    OBVIOUS
  <2>2. Flags'
    BY Zenon
  <2>3. Shape'
    OBVIOUS
  <2>4. Where'
    OBVIOUS
  <2>5. Original'
    OBVIOUS
  <2>6. Agree'
    OBVIOUS
  <2>7. Other'
    OBVIOUS
  <2> QED
    BY <2>1, <2>2, <2>3, <2>4, <2>5, <2>6, <2>7
<1> QED
  BY <1>1, <1>2, <1>3, <1>4, <1>5, <1>6, <1>7, <1>8, <1>9, <1>10, <1>11, <1>12, <1>13, <1>14, <1>15, <1>16, <1>17, <1>18, <1>19, <1>20
     DEF Next, Install, Undo

(* The invariant holds in every reachable state.                           *)
LEMMA InvAlways == ASSUME EndsWhole PROVE Spec => []IInv
<1>1. Init => IInv
  <2> SUFFICES ASSUME Init PROVE IInv
    OBVIOUS
  <2> USE ConstantsAssumption DEF Init, Content
  <2>1. Types
    BY EmptySeq DEF Types, Entry
  <2>2. Flags
    <3>1. PICK there \in BOOLEAN :
            other = [there |-> there, noted |-> FALSE, todo |-> FALSE,
                     failed |-> FALSE, owners |-> there, clear |-> TRUE]
      BY Zenon
    <3> QED
      BY <3>1, Zenon DEF Flags
  <2>3. ledger = <<>> /\ Len(ledger) = 0
    OBVIOUS
  <2>4. Shape /\ Where /\ Original /\ Other
    BY <2>3 DEF Shape, Where, Original, Other, UninstallLabels
  <2>5. Agree
    BY <2>3 DEF Agree
  <2> QED
    BY <2>1, <2>2, <2>4, <2>5 DEF IInv
<1>2. IInv /\ [Next]_vars => IInv'
  BY InvStep
<1> QED
  BY <1>1, <1>2, PTL DEF Spec

-----------------------------------------------------------------------------
(***************************************************************************)
(* What the owner had before the kit came is in place, backed up or put    *)
(* aside at every moment, whatever is installed, killed or uninstalled,    *)
(* torn ledger or not.                                                     *)
(***************************************************************************)
THEOREM OriginalSurvives == ASSUME EndsWhole PROVE Spec => []OriginalKept
<1>1. IInv => OriginalKept
  <2> SUFFICES ASSUME IInv, ~edited, own # None PROVE own \in {disk} \cup backups \cup aside
    BY DEF OriginalKept
  <2>1. CASE ledger = <<>>
    BY <2>1 DEF IInv, Original
  <2>2. CASE ledger # <<>>
    BY <2>2 DEF IInv, Shape, Original
  <2> QED
    BY <2>1, <2>2
<1> QED
  BY <1>1, InvAlways, PTL

(***************************************************************************)
(* An uninstall that is through has put everything back that no kill tore  *)
(* from its entry and whose undo did not fail: the file as it was, the     *)
(* other thing as he left it.                                              *)
(***************************************************************************)
THEOREM UninstallReverses == ASSUME EndsWhole PROVE Spec => []Reversed
<1>1. IInv => Reversed
  BY DEF IInv, Flags, Where, Original, Agree, Other, Reversed, Uninstalled
<1> QED
  BY <1>1, InvAlways, PTL

(***************************************************************************)
(* After it no content of the kit's is at the path, of whatever version,   *)
(* unless a kill tore the two apart or the entry was passed over.          *)
(***************************************************************************)
THEOREM KitIsGone == ASSUME EndsWhole PROVE Spec => []NothingOfTheKitLeft
<1>1. IInv => NothingOfTheKitLeft
  BY DEF IInv, Agree, NothingOfTheKitLeft, Uninstalled
<1> QED
  BY <1>1, InvAlways, PTL

(***************************************************************************)
(* No step of an uninstall loses what the owner made of a file of the      *)
(* kit's: the step that takes the file away has seen that it is not what   *)
(* was written last, and puts it aside.                                    *)
(***************************************************************************)
THEOREM EditsAreKept == ASSUME EndsWhole PROVE Spec => UninstallKeepsEdits
<1> DEFINE Kept == (pc \in UninstallLabels /\ disk = own /\ own # None)
                     => own \in {disk'} \cup aside'
<1>1. ASSUME IInv, [Next]_vars PROVE [Kept]_vars
  <2> SUFFICES ASSUME Next, pc \in UninstallLabels, disk = own, own # None
               PROVE  own \in {disk'} \cup aside'
    BY <1>1
  <2>1. CASE UndoEntry
    <3> DEFINE e == Head(todo)
    <3>1. pc = "undo" /\ todo # <<>> /\ todo \in Seq(Entry)
      BY <1>1, <2>1 DEF UndoEntry, IInv, Types
    <3>2. e = todo[1] /\ 1 \in 1 .. Len(todo) /\ e \in Entry
      <4>1. Len(todo) \in Nat \ {0}
        BY <3>1, EmptySeq
      <4> QED
        BY <3>1, <4>1, HeadTailProperties
    <3>3. e.kind # "file_written" => ledger # <<>> /\ e = First
      BY <1>1, <3>1, <3>2 DEF IInv, Where
    <3>4. CASE e.kind = "file_created"
      <4>1. disk' = None
            /\ aside' = IF disk # None /\ Changed THEN aside \cup {disk} ELSE aside
        BY <2>1, <3>4 DEF UndoEntry, UndoCreated
      <4>2. edited /\ own \notin KitContent
        BY <1>1, <3>3, <3>4 DEF IInv, Original, Where
      <4>3. latest \in KitContent \cup {None}
        BY <1>1 DEF IInv, Types
      <4> QED
        BY <4>1, <4>2, <4>3 DEF Changed
    <3>5. CASE e.kind = "file_replaced"
      <4>1. IF disk # None /\ Changed THEN disk' = disk
                                      ELSE disk' = e.backup /\ aside' = aside
        BY <2>1, <3>5 DEF UndoEntry, UndoReplaced
      <4>2. CASE edited
        <5>1. own \notin KitContent /\ latest \in KitContent \cup {None}
          BY <1>1, <4>2 DEF IInv, Types, Where
        <5> QED
          BY <4>1, <5>1 DEF Changed
      <4>3. CASE ~edited
        BY <1>1, <3>3, <3>5, <4>1, <4>3 DEF IInv, Original
      <4> QED
        BY <4>2, <4>3
    <3>6. CASE e.kind = "file_written"
      BY <2>1, <3>6 DEF UndoEntry
    <3> QED
      BY <3>2, <3>4, <3>5, <3>6 DEF Entry
  <2>2. CASE \/ PassOver \/ UndoOther \/ UndoOtherFails \/ RemoveHostJson
             \/ CopyState \/ Forget \/ Kill
    BY <2>2 DEF PassOver, UndoOther, UndoOtherFails, RemoveHostJson, CopyState, Forget, Kill, files
  <2>3. pc \notin {"idle"} \cup InstallLabels
    BY DEF UninstallLabels, InstallLabels
  <2>4. CASE Install \/ Uninstall
    BY <2>3, <2>4 DEF Install, Create, Record, Backup, Enter, ReplaceFile, MakeOther,
         NoteOther, Uninstall, InstallLabels
  <2>5. CASE \/ \E c \in KitContent : InstallFile(c)
             \/ \E c \in OwnerContent \cup {None} : OwnerLeaves(c)
             \/ OwnerTurns
    BY <2>3, <2>5 DEF InstallFile, OwnerLeaves, OwnerTurns
  <2> QED
    BY <2>1, <2>2, <2>4, <2>5 DEF Next, Undo
<1>2. Spec => [][Kept]_vars
  BY <1>1, InvAlways, PTL DEF Spec
<1> QED
  BY <1>2 DEF UninstallKeepsEdits

=============================================================================
