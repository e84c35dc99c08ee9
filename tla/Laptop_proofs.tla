---------------------------- MODULE Laptop_proofs ---------------------------
(***************************************************************************)
(* Proofs about what a laptop and the server do together.  Bridge, for     *)
(* sessions of any length and contents, any number of changes, cuts and    *)
(* kills, as long as one push is over, its receiver included, before the   *)
(* next one starts.  Pairing, for any number of laptops, connections,      *)
(* sessions, wrong codes, key sets and kills, as long as no forget-device  *)
(* runs while a request is being handled.  The two are not composed.       *)
(***************************************************************************)
EXTENDS Bridge, Pairing, SequenceTheorems, TLAPS

(***************************************************************************)
(* The inductive invariant.  Only the push under way changes the inbox and *)
(* the saved state, so what it planned from is still there when its bytes  *)
(* arrive, unless another file has taken the name meanwhile, or the file   *)
(* was rewritten; then nothing is claimed of the inbox until the new file  *)
(* is saved as delivered.  Between two pushes a rewritten file either      *)
(* shows in the hash of what was delivered, or that hash covers all of it. *)
(***************************************************************************)
Alone == \A p, q \in Pushes : ~Rests(p) /\ ~Rests(q) => p = q

Entry == [size : Nat, mtime : Nat, ino : Nat, tail : Seq(Block) \cup {Absent}]
Item  == [size : Nat, mtime : Nat, ino : Nat, gen : Nat, offset : Nat]

Types ==
  /\ TypeOK
  /\ loaded \in [Pushes -> {Absent} \cup Entry]
  /\ item \in [Pushes -> Item]
  /\ payload \in [Pushes -> Seq(Block)]

(* The inbox holds a beginning of the file as it is now,                   *)
Fresh == inbox.data # Absent /\ IsPrefix(inbox.data, file.data)

(* or the bytes that the laptop remembers, which are all in their hash,    *)
Covered ==
  /\ inbox.data # Absent
  /\ state.size <= TailBlocks /\ TailHash(inbox.data, state.size) = state.tail

(* or the hash shows that the file is no longer what was delivered.        *)
Differs ==
  Len(file.data) >= state.size /\ TailHash(file.data, state.size) # state.tail

Saved ==
  /\ state # Absent => state.ino <= file.ino /\ state.mtime <= file.mtime
  /\ ~blind /\ Remembers => Fresh \/ Covered \/ Differs
  /\ Remembers /\ state.mtime = file.mtime =>
       /\ state.size = Len(file.data)
       /\ ~blind => Fresh /\ state.size <= Len(inbox.data)

(* A file that was never changed but by appending.                         *)
Beginning ==
  /\ file.gen = 0 => file.ino = 0 /\ ~blind
  /\ file.gen = 0 /\ inbox.data # Absent => IsPrefix(inbox.data, file.data)

(* A push that has read the state: it saves that one or a newer one.       *)
Planned(p) == client[p] \in {"send", "answers"} \/ server[p] # "none"

PlannedFrom(p) ==
  /\ item[p].ino <= file.ino /\ item[p].gen <= file.gen /\ item[p].mtime <= file.mtime
  /\ item[p].gen = file.gen => item[p].ino = file.ino
  /\ item[p].mtime = file.mtime =>
       item[p].gen = file.gen /\ item[p].size = Len(file.data)
  /\ ~blind /\ item[p].ino = file.ino => item[p].gen = file.gen
  /\ state # Absent => state.ino <= item[p].ino
  /\ Remembers => state.mtime # file.mtime
  /\ item[p].offset # 0 =>
       state # Absent /\ state.ino = item[p].ino /\ state.size = item[p].offset

(* As long as the file that was planned has the name and only grows, the   *)
(* bytes on the wire are its bytes, and an "ok" means that they are in the *)
(* inbox.                                                                  *)
StillThere(p) ==
  /\ item[p].size <= Len(file.data)
  /\ item[p].offset # 0 =>
       state.tail # Absent /\ TailHash(file.data, item[p].offset) = state.tail
  /\ server[p] # "none" =>
       /\ Len(payload[p]) = item[p].size - item[p].offset
       /\ \A i \in 1 .. Len(payload[p]) : payload[p][i] = file.data[item[p].offset + i]
  /\ server[p] = "append" => blind \/ Fresh
  /\ server[p] = "ok" =>
       /\ inbox.data # Absent /\ Len(inbox.data) = item[p].size
       /\ (item[p].offset # 0 /\ blind) \/ Fresh

UnderWay(p) ==
  /\ client[p] # "idle" => loaded[p] = state
  /\ client[p] = "send" => server[p] = "none"
  /\ Planned(p) => PlannedFrom(p)
  /\ Planned(p) /\ item[p].gen = file.gen => StillThere(p)
  /\ server[p] = "whole" => item[p].offset = 0
  /\ server[p] = "append" =>
       item[p].offset # 0 /\ Has(item[p].offset) /\ target[p] = inbox.ino

IInv ==
  /\ Types /\ Alone /\ Saved /\ Beginning
  /\ \A p \in Pushes : UnderWay(p)

(* What a file may contain.                                                *)
LEMMA DataIsSequences == Data \subseteq Seq(Block)
<1> SUFFICES ASSUME NEW d \in Data PROVE d \in Seq(Block)
  OBVIOUS
<1>1. CASE d = <<>>
  BY <1>1
<1>2. CASE \E n \in 1 .. MaxLen : d \in [1 .. n -> Block]
  BY <1>2, SeqDef, ConstantsAssumption
<1> QED
  BY <1>1, <1>2 DEF Data

(* The lesser of two numbers.                                              *)
LEMMA LesserOfTwo ==
  ASSUME NEW a \in Nat, NEW b \in Nat
  PROVE  Min({a, b}) = IF a <= b THEN a ELSE b
<1> DEFINE m == IF a <= b THEN a ELSE b
<1>1. m \in {a, b} /\ \A y \in {a, b} : m <= y
  OBVIOUS
<1>2. \A x \in {a, b} : (\A y \in {a, b} : x <= y) => x = m
  OBVIOUS
<1> HIDE DEF m
<1>3. Min({a, b}) \in {a, b} /\ \A y \in {a, b} : Min({a, b}) <= y
  BY <1>1, Zenon DEF Min
<1>4. Min({a, b}) = m
  BY <1>2, <1>3
<1> QED
  BY <1>4 DEF m

(* What a push reads of the file: the bytes from one place to another, as  *)
(* far as the file goes.                                                   *)
LEMMA BytesSelected ==
  ASSUME NEW d \in Seq(Block), NEW from \in Nat, NEW to \in Nat
  PROVE  /\ SelectBytes(d, from, to) \in Seq(Block)
         /\ from <= to /\ to <= Len(d) => Len(SelectBytes(d, from, to)) = to - from
         /\ \A i \in 1 .. Len(SelectBytes(d, from, to)) :
              SelectBytes(d, from, to)[i] = d[from + i]
<1> DEFINE m == IF Len(d) <= to THEN Len(d) ELSE to
           n == IF m >= from THEN m - from ELSE 0
           s == [i \in 1 .. n |-> d[from + i]]
<1>1. Len(d) \in Nat /\ m \in Nat /\ n \in Nat /\ m <= Len(d)
  OBVIOUS
<1>2. 1 .. (m - from) = 1 .. n
  BY <1>1
<1>3. SelectBytes(d, from, to) = s
  <2>1. Min({Len(d), to}) = m
    BY <1>1, LesserOfTwo
  <2> HIDE DEF m, n
  <2> QED
    BY <1>2, <2>1 DEF SelectBytes
<1>4. \A i \in 1 .. n : d[from + i] \in Block
  <2> SUFFICES ASSUME NEW i \in 1 .. n PROVE d[from + i] \in Block
    OBVIOUS
  <2>1. from + i \in 1 .. Len(d)
    BY <1>1
  <2> QED
    BY <2>1, ElementOfSeq
<1> HIDE DEF n
<1>5. s \in Seq(Block) /\ Len(s) = n
  BY <1>1, <1>4, IsASeq
<1>6. from <= to /\ to <= Len(d) => n = to - from
  BY <1>1 DEF n
<1> QED
  BY <1>3, <1>5, <1>6

(* A beginning, element by element.                                        *)
LEMMA PrefixElements ==
  ASSUME NEW s \in Seq(Block), NEW t \in Seq(Block)
  PROVE  IsPrefix(s, t) <=> Len(s) <= Len(t) /\ \A i \in 1 .. Len(s) : s[i] = t[i]
<1>1. Len(s) \in Nat /\ Len(t) \in Nat
  OBVIOUS
<1>2. SubSeq(s, 1, Len(s)) = s
  BY SubSeqFull
<1>3. ASSUME Len(s) <= Len(t)
      PROVE  /\ SubSeq(t, 1, Len(s)) \in Seq(Block)
             /\ Len(SubSeq(t, 1, Len(s))) = Len(s)
             /\ \A i \in 1 .. Len(s) : SubSeq(t, 1, Len(s))[i] = t[i]
  <2>1. \A i \in 1 .. Len(s) : t[i] \in Block
    BY <1>1, <1>3, ElementOfSeq
  <2> QED
    BY <1>1, <2>1, SubSeqProperties
<1>4. ASSUME Len(s) <= Len(t), \A i \in 1 .. Len(s) : s[i] = t[i]
      PROVE  SubSeq(t, 1, Len(s)) = s
  BY <1>3, <1>4, SeqEqual
<1> QED
  BY <1>2, <1>3, <1>4 DEF IsPrefix

(* A beginning of a file stays one when the file grows,                    *)
LEMMA PrefixOfGrown ==
  ASSUME NEW s \in Seq(Block), NEW t \in Seq(Block), NEW b \in Block, IsPrefix(s, t)
  PROVE  IsPrefix(s, Append(t, b))
<1>1. /\ Append(t, b) \in Seq(Block) /\ Len(Append(t, b)) = Len(t) + 1
      /\ \A i \in 1 .. Len(t) : Append(t, b)[i] = t[i]
  BY AppendProperties
<1>2. Len(s) <= Len(t) /\ \A i \in 1 .. Len(s) : s[i] = t[i]
  BY PrefixElements
<1>3. Len(s) \in Nat /\ Len(t) \in Nat
  OBVIOUS
<1>4. Len(s) <= Len(Append(t, b)) /\ \A i \in 1 .. Len(s) : s[i] = Append(t, b)[i]
  BY <1>1, <1>2, <1>3
<1> QED
  BY <1>1, <1>4, PrefixElements

(* and when the next bytes of the file are added to it.                    *)
LEMMA PrefixExtended ==
  ASSUME NEW s \in Seq(Block), NEW t \in Seq(Block), NEW g \in Seq(Block),
         IsPrefix(s, t), Len(s) + Len(g) <= Len(t),
         \A i \in 1 .. Len(g) : g[i] = t[Len(s) + i]
  PROVE  IsPrefix(s \o g, t)
<1>1. /\ s \o g \in Seq(Block) /\ Len(s \o g) = Len(s) + Len(g)
      /\ \A i \in 1 .. Len(s) + Len(g) : (s \o g)[i] =
           IF i <= Len(s) THEN s[i] ELSE g[i - Len(s)]
  BY ConcatProperties
<1>2. \A i \in 1 .. Len(s) : s[i] = t[i]
  BY PrefixElements
<1>3. Len(s) \in Nat /\ Len(g) \in Nat
  OBVIOUS
<1>4. \A i \in 1 .. Len(s) + Len(g) : (s \o g)[i] = t[i]
  BY <1>1, <1>2, <1>3
<1> QED
  BY <1>1, <1>4, PrefixElements

(* The hash of what was there is the same after the file has grown,        *)
LEMMA HashOfGrown ==
  ASSUME NEW d \in Seq(Block), NEW b \in Block, NEW e \in Nat, e <= Len(d)
  PROVE  TailHash(Append(d, b), e) = TailHash(d, e)
<1> DEFINE g == Append(d, b)
           m == IF e > TailBlocks THEN e - TailBlocks + 1 ELSE 1
<1>1. /\ g \in Seq(Block) /\ Len(g) = Len(d) + 1 /\ \A i \in 1 .. Len(d) : g[i] = d[i]
      /\ Len(d) \in Nat /\ m \in Nat \ {0}
  BY AppendProperties, ConstantsAssumption
<1> HIDE DEF g, m
<1>2. \A i \in m .. e : i \in 1 .. Len(d) /\ d[i] \in Block /\ g[i] = d[i]
  BY <1>1, ElementOfSeq
<1>3. SubSeq(g, m, e) = SubSeq(d, m, e)
  <2>1. /\ SubSeq(d, m, e) \in Seq(Block)
        /\ Len(SubSeq(d, m, e)) = IF m <= e THEN e - m + 1 ELSE 0
        /\ \A i \in 1 .. e - m + 1 : SubSeq(d, m, e)[i] = d[m + i - 1]
    BY <1>1, <1>2, SubSeqProperties
  <2>2. /\ SubSeq(g, m, e) \in Seq(Block)
        /\ Len(SubSeq(g, m, e)) = IF m <= e THEN e - m + 1 ELSE 0
        /\ \A i \in 1 .. e - m + 1 : SubSeq(g, m, e)[i] = g[m + i - 1]
    BY <1>1, <1>2, SubSeqProperties
  <2>3. Len(SubSeq(g, m, e)) = Len(SubSeq(d, m, e))
    BY <2>1, <2>2
  <2>4. \A i \in 1 .. Len(SubSeq(g, m, e)) : SubSeq(g, m, e)[i] = SubSeq(d, m, e)[i]
    <3> SUFFICES ASSUME NEW i \in 1 .. Len(SubSeq(g, m, e))
                 PROVE  SubSeq(g, m, e)[i] = SubSeq(d, m, e)[i]
      OBVIOUS
    <3>1. i \in 1 .. e - m + 1 /\ m + i - 1 \in m .. e
      BY <1>1, <2>2
    <3> QED
      BY <1>2, <2>1, <2>2, <3>1
  <2> QED
    BY <2>1, <2>2, <2>3, <2>4, SeqEqual
<1>4. ~(Len(g) < e) /\ ~(Len(d) < e)
  BY <1>1
<1>5. TailHash(g, e) = SubSeq(g, m, e) /\ TailHash(d, e) = SubSeq(d, m, e)
  BY <1>4, Zenon DEF TailHash, m
<1> QED
  BY <1>3, <1>5 DEF g

(* and a copy whose bytes are all in the hash is known by it.              *)
LEMMA HashOfAll ==
  ASSUME NEW s \in Seq(Block), NEW t \in Seq(Block), Len(s) <= Len(t),
         Len(s) <= TailBlocks, TailHash(s, Len(s)) = TailHash(t, Len(s))
  PROVE  IsPrefix(s, t)
<1>1. ~(Len(s) < Len(s)) /\ ~(Len(t) < Len(s)) /\ ~(Len(s) > TailBlocks)
  BY ConstantsAssumption
<1>2. TailHash(s, Len(s)) = SubSeq(s, 1, Len(s)) /\ TailHash(t, Len(s)) = SubSeq(t, 1, Len(s))
  BY <1>1, Zenon DEF TailHash
<1> QED
  BY <1>2 DEF IsPrefix

(* What a receiver has read is a beginning of what was put on the wire,    *)
(* and all of it if its length is right.                                   *)
LEMMA ReceivedIsBeginning ==
  ASSUME NEW p \in Pushes, payload[p] \in Seq(Block), NEW got \in Received(p)
  PROVE  /\ got \in Seq(Block) /\ Len(got) <= Len(payload[p])
         /\ \A i \in 1 .. Len(got) : got[i] = payload[p][i]
<1>1. CASE got = payload[p]
  BY <1>1
<1>2. ASSUME NEW n \in 0 .. Len(payload[p]), got = SubSeq(payload[p], 1, n)
      PROVE  /\ got \in Seq(Block) /\ Len(got) <= Len(payload[p])
             /\ \A i \in 1 .. Len(got) : got[i] = payload[p][i]
  <2>1. \A i \in 1 .. n : payload[p][i] \in Block
    BY ElementOfSeq
  <2>2. /\ SubSeq(payload[p], 1, n) \in Seq(Block)
        /\ Len(SubSeq(payload[p], 1, n)) = IF 1 <= n THEN n - 1 + 1 ELSE 0
        /\ \A i \in 1 .. n - 1 + 1 : SubSeq(payload[p], 1, n)[i] = payload[p][1 + i - 1]
    BY <2>1, SubSeqProperties
  <2> QED
    BY <1>2, <2>2
<1> QED
  BY <1>1, <1>2 DEF Received

(* While one push is under way, or about to start, the others rest.        *)
OthersRest(p) ==
  \A q \in Pushes \ {p} : client[q] = "idle" /\ server[q] = "none"

LEMMA OneAtATime ==
  ASSUME ~Overlap, IInv, NEW p \in Pushes, ~Rests(p) \/ MayStart(p)
  PROVE  OthersRest(p)
  BY DEF IInv, Alone, Rests, MayStart, OthersRest

(* A resting push has nothing under way: what holds of the one that works  *)
(* holds of all.                                                           *)
LEMMA OnlyOneWorks ==
  ASSUME NEW p \in Pushes, OthersRest(p)'
  PROVE  /\ Alone'
         /\ UnderWay(p)' => \A q \in Pushes : UnderWay(q)'
  BY DEF OthersRest, Alone, Rests, UnderWay, Planned

-----------------------------------------------------------------------------
(* The session file changes. *)

(* It grows: what was sent and what is saved stays a beginning of it.      *)
LEMMA AppendKeeps == IInv /\ AppendBlock => IInv'
<1> SUFFICES ASSUME IInv, NEW b \in Block, UNCHANGED blind,
                    Change(Append(file.data, b), file.ino, file.gen)
             PROVE  IInv'
  BY DEF AppendBlock
<1> DEFINE d == Append(file.data, b)
<1>1. /\ file' = [data |-> d, ino |-> file.ino, mtime |-> file.mtime + 1,
                  gen |-> file.gen]
      /\ UNCHANGED <<state, inbox, client, loaded, item, server, target, payload,
                     cuts, blind>>
  BY DEF Change
<1>2. /\ file \in [data : Seq(Block), ino : Nat, mtime : Nat, gen : Nat]
      /\ inbox.data \in Seq(Block) \cup {Absent}
      /\ state # Absent => state.size \in Nat /\ state.mtime \in Nat
      /\ \A p \in Pushes : item[p].size \in Nat /\ item[p].offset \in Nat
                           /\ item[p].offset <= item[p].size /\ item[p].mtime \in Nat
  BY DEF IInv, Types, TypeOK, Entry, Item
<1>3. /\ d \in Seq(Block) /\ Len(d) = Len(file.data) + 1 /\ Len(file.data) \in Nat
      /\ \A i \in 1 .. Len(file.data) : d[i] = file.data[i]
      /\ \A e \in Nat : e <= Len(file.data) => TailHash(d, e) = TailHash(file.data, e)
  BY <1>2, AppendProperties, HashOfGrown
<1> HIDE DEF d
<1>4. /\ file'.data = d /\ file'.ino = file.ino /\ file'.gen = file.gen
      /\ file'.mtime = file.mtime + 1 /\ file.mtime \in Nat
  BY <1>1, <1>2
<1>5. Types'
  <2>1. file' \in [data : Seq(Block), ino : Nat, mtime : Nat, gen : Nat]
    BY <1>1, <1>2, <1>3
  <2> QED
    BY <1>1, <2>1 DEF IInv, Types, TypeOK
<1>6. Alone'
  BY <1>1 DEF IInv, Alone, Rests
<1>7. Fresh => Fresh'
  BY <1>1, <1>2, <1>4, PrefixOfGrown DEF d, Fresh
<1>8. Saved'
  <2>1. state # Absent => state.ino <= file'.ino /\ state.mtime < file'.mtime
    BY <1>2, <1>4 DEF IInv, Saved
  <2>2. Remembers' = Remembers /\ Covered' = Covered
    BY <1>1, <1>4 DEF Remembers, Covered
  <2>3. Remembers /\ Differs => Differs'
    BY <1>1, <1>2, <1>3, <1>4 DEF Remembers, Differs
  <2>4. Remembers => state.mtime # file'.mtime
    BY <1>2, <1>4, <2>1 DEF Remembers
  <2>5. ~blind /\ Remembers => Fresh' \/ Covered' \/ Differs'
    BY <1>7, <2>2, <2>3 DEF IInv, Saved
  <2> QED
    BY <1>1, <1>2, <1>4, <2>1, <2>2, <2>4, <2>5 DEF Saved
<1>9. Beginning'
  BY <1>1, <1>4, <1>7 DEF IInv, Beginning, Fresh
<1>10. ASSUME NEW p \in Pushes PROVE UnderWay(p)'
  <2>1. UnderWay(p)
    BY DEF IInv
  <2>2. Planned(p)' = Planned(p) /\ (PlannedFrom(p) => PlannedFrom(p)')
    <3>1. Planned(p)' = Planned(p)
      BY <1>1 DEF Planned
    <3>2. state # Absent => state.mtime # file'.mtime
      BY <1>2, <1>4 DEF IInv, Saved
    <3>3. item[p].mtime <= file.mtime => item[p].mtime <= file'.mtime /\ item[p].mtime # file'.mtime
      BY <1>2, <1>4
    <3> QED
      BY <1>1, <1>4, <3>1, <3>2, <3>3 DEF PlannedFrom, Remembers
  <2>3. StillThere(p) => StillThere(p)'
    <3> SUFFICES ASSUME StillThere(p) PROVE StillThere(p)'
      OBVIOUS
    <3>1. item[p].size <= Len(d) /\ TailHash(d, item[p].offset) = TailHash(file.data, item[p].offset)
      BY <1>2, <1>3 DEF StillThere
    <3>2. server[p] # "none" => \A i \in 1 .. Len(payload[p]) :
            payload[p][i] = d[item[p].offset + i]
      <4> SUFFICES ASSUME server[p] # "none", NEW i \in 1 .. Len(payload[p])
                   PROVE  payload[p][i] = d[item[p].offset + i]
        OBVIOUS
      <4>1. /\ Len(payload[p]) = item[p].size - item[p].offset
            /\ item[p].size <= Len(file.data) /\ item[p].offset \in Nat /\ item[p].size \in Nat
        BY <1>2 DEF StillThere
      <4>2. item[p].offset + i \in 1 .. Len(file.data)
        BY <1>3, <4>1, SMTT(20)
      <4> QED
        BY <1>3, <4>2 DEF StillThere
    <3> QED
      BY <1>1, <1>4, <1>7, <3>1, <3>2 DEF StillThere
  <2> QED
    BY <1>1, <1>4, <2>1, <2>2, <2>3 DEF UnderWay, Has
<1> QED
  BY <1>5, <1>6, <1>8, <1>9, <1>10 DEF IInv

(* A change of another kind makes a file that nothing planned is about:    *)
(* the rest is what the laptop remembers of it.                            *)
LEMMA ChangeKeeps ==
  ASSUME IInv, NEW d \in Data, NEW i \in {file.ino, file.ino + 1},
         Change(d, i, file.gen + 1), blind' \in BOOLEAN, blind => blind',
         i = file.ino /\ ~blind' => \A p \in Pushes : Rests(p),
         ~blind' /\ state # Absent /\ state.ino = i => Covered' \/ Differs'
  PROVE  IInv'
<1>1. /\ file' = [data |-> d, ino |-> i, mtime |-> file.mtime + 1, gen |-> file.gen + 1]
      /\ UNCHANGED <<state, inbox, client, loaded, item, server, target, payload, cuts>>
  BY DEF Change
<1>2. d \in Seq(Block)
  BY DataIsSequences
<1>3. /\ file.ino \in Nat /\ file.mtime \in Nat /\ file.gen \in Nat
      /\ state # Absent => state.ino \in Nat /\ state.mtime \in Nat
      /\ \A p \in Pushes : item[p].ino \in Nat /\ item[p].mtime \in Nat /\ item[p].gen \in Nat
  BY DEF IInv, Types, TypeOK, Entry, Item
<1>4. /\ file'.ino = i /\ file'.mtime = file.mtime + 1 /\ file'.gen = file.gen + 1
      /\ i \in Nat /\ file.ino <= i /\ file'.gen # 0
  BY <1>1, <1>3
<1>5. Types'
  <2>1. file' \in [data : Seq(Block), ino : Nat, mtime : Nat, gen : Nat]
    BY <1>1, <1>2, <1>3
  <2> QED
    BY <1>1, <2>1 DEF IInv, Types, TypeOK, Entry, Item
<1>6. Alone' /\ Beginning'
  BY <1>1, <1>4 DEF IInv, Alone, Rests, Beginning
<1>7. state # Absent =>
        state.ino <= file'.ino /\ state.mtime <= file'.mtime /\ state.mtime # file'.mtime
  BY <1>3, <1>4 DEF IInv, Saved
<1>8. Saved'
  BY <1>1, <1>4, <1>7 DEF Saved, Remembers
<1>9. ASSUME NEW p \in Pushes PROVE UnderWay(p)'
  <2>1. UnderWay(p)
    BY DEF IInv
  <2>2. Planned(p) => PlannedFrom(p)' /\ item'[p].gen # file'.gen
    <3> SUFFICES ASSUME Planned(p) PROVE PlannedFrom(p)' /\ item'[p].gen # file'.gen
      OBVIOUS
    <3>1. PlannedFrom(p) /\ ~Rests(p)
      BY <2>1 DEF UnderWay, Planned, Rests
    <3>2. /\ item[p].ino <= i /\ item[p].gen <= file.gen + 1 /\ item[p].gen # file.gen + 1
          /\ item[p].mtime <= file.mtime + 1 /\ item[p].mtime # file.mtime + 1
      BY <1>3, <1>4, <3>1, SMTT(30) DEF PlannedFrom
    <3>3. ~blind' => item[p].ino # i
      BY <1>3, <1>4, <3>1 DEF PlannedFrom
    <3> QED
      BY <1>1, <1>4, <1>7, <3>1, <3>2, <3>3 DEF PlannedFrom, Remembers
  <2> QED
    BY <1>1, <2>1, <2>2 DEF UnderWay, Planned, Has
<1> QED
  BY <1>5, <1>6, <1>8, <1>9 DEF IInv

(* Another file takes the name: nothing saved or planned is about it.      *)
LEMMA ReplaceKeeps == IInv /\ Replace => IInv'
<1> SUFFICES ASSUME IInv, NEW d \in Data, UNCHANGED blind,
                    Change(d, file.ino + 1, file.gen + 1)
             PROVE  IInv'
  BY DEF Replace
<1>1. /\ file.ino \in Nat /\ blind \in BOOLEAN
      /\ state # Absent => state.ino \in Nat /\ state.ino <= file.ino
  BY DEF IInv, Types, TypeOK, Entry, Saved
<1> QED
  BY <1>1, ChangeKeeps

(* It is written anew: either the hash shows that, or the laptop is blind. *)
LEMMA RewriteKeeps == IInv /\ Rewrite => IInv'
<1> SUFFICES ASSUME IInv, NEW d \in Data, Change(d, file.ino, file.gen + 1),
                    blind' = (blind \/ ~Noticed(d))
             PROVE  IInv'
  BY DEF Rewrite
<1>1. file'.data = d /\ UNCHANGED <<state, inbox>> /\ blind \in BOOLEAN
  BY DEF Change, IInv, Types, TypeOK
<1>2. ~blind' => \A p \in Pushes : Rests(p)
  BY DEF Noticed
<1>3. ~blind' /\ Remembers => Covered' \/ Differs'
  BY <1>1 DEF Noticed, Covered, Differs
<1>4. blind' \in BOOLEAN /\ (blind => blind')
  BY <1>1
<1> QED
  BY <1>2, <1>3, <1>4, ChangeKeeps DEF Remembers

-----------------------------------------------------------------------------
(* The push *)

(* It plans from the state that is saved: what it will not send again is   *)
(* what that state says was delivered.                                     *)
LEMMA PlanKeeps ==
  ASSUME ~Overlap, IInv, NEW p \in Pushes, Plan(p) PROVE IInv'
<1> DEFINE new == [size |-> Len(file.data), mtime |-> file.mtime,
                   ino |-> file.ino, gen |-> file.gen,
                   offset |-> IF OnlyGrew THEN state.size ELSE 0]
<1>1. /\ MayStart(p) /\ loaded' = [loaded EXCEPT ![p] = state]
      /\ UNCHANGED <<file, state, inbox, server, target, payload, cuts, blind>>
      /\ \/ client' = [client EXCEPT ![p] = "save"] /\ item' = item
         \/ /\ client' = [client EXCEPT ![p] = "send"] /\ ~Unchanged
            /\ item' = [item EXCEPT ![p] = new]
  BY DEF Plan
<1>2. client[p] = "idle" /\ server[p] = "none"
  BY <1>1 DEF MayStart, Rests
<1> USE DEF Types, TypeOK, Entry, Item
<1>3. OthersRest(p)'
  BY <1>1, OneAtATime, ZenonT(40) DEF OthersRest, IInv
<1>4. /\ Len(file.data) \in Nat /\ state # Absent => state.size \in Nat
      /\ new.offset # 0 => OnlyGrew /\ new.offset = state.size
      /\ new.offset <= new.size /\ new.offset \in Nat
  BY SMTT(20) DEF IInv, OnlyGrew
<1>5. Types'
  <2>1. new \in Item /\ state \in {Absent} \cup Entry
    BY <1>4 DEF IInv
  <2>2. loaded' \in [Pushes -> {Absent} \cup Entry]
    BY <1>1, <2>1 DEF IInv
  <2>3. /\ item' \in [Pushes -> Item]
        /\ \A q \in Pushes : item'[q].offset <= item'[q].size
    <3> HIDE DEF new, Item
    <3>1. /\ item \in [Pushes -> Item]
          /\ \A q \in Pushes : item[q].offset <= item[q].size
      BY DEF IInv
    <3>2. ASSUME item' = [item EXCEPT ![p] = new]
          PROVE  /\ item' \in [Pushes -> Item]
                 /\ \A q \in Pushes : item'[q].offset <= item'[q].size
      BY <1>4, <2>1, <3>1, <3>2
    <3> QED
      BY <1>1, <3>1, <3>2
  <2>4. client' \in [Pushes -> {"idle", "send", "answers", "save"}]
    BY <1>1 DEF IInv
  <2> QED
    BY <1>1, <2>2, <2>3, <2>4 DEF IInv
<1>6. Saved' /\ Beginning'
  BY <1>1 DEF IInv, Saved, Beginning, Remembers, Fresh, Covered, Differs
<1>7. UnderWay(p)'
  <2>1. CASE client' = [client EXCEPT ![p] = "save"] /\ item' = item
    BY <1>1, <1>2, <2>1 DEF IInv, UnderWay, Planned
  <2>2. CASE /\ client' = [client EXCEPT ![p] = "send"] /\ ~Unchanged
             /\ item' = [item EXCEPT ![p] = new]
    <3>1. item'[p] = new /\ loaded'[p] = state /\ client'[p] = "send" /\ server'[p] = "none"
      BY <1>1, <1>2, <2>2 DEF IInv
    <3>2. PlannedFrom(p)'
      <4>1. Remembers => state.mtime # file.mtime
        BY <2>2 DEF IInv, Saved, Remembers, Unchanged
      <4>2. state # Absent => state.ino <= file.ino
        BY DEF IInv, Saved
      <4>3. new.offset # 0 => state # Absent /\ state.ino = file.ino /\ state.size = new.offset
        BY <1>4 DEF OnlyGrew
      <4> QED
        BY <1>1, <3>1, <4>1, <4>2, <4>3, SMTT(30) DEF IInv, PlannedFrom, Remembers
    <3>3. StillThere(p)'
      <4>1. new.offset # 0 => state.tail # Absent /\ TailHash(file.data, new.offset) = state.tail
        BY <1>4 DEF OnlyGrew
      <4> QED
        BY <1>1, <1>4, <3>1, <4>1 DEF IInv, StillThere
    <3> QED
      BY <1>1, <3>1, <3>2, <3>3 DEF UnderWay
  <2> QED
    BY <1>1, <2>1, <2>2
<1> QED
  BY <1>3, <1>5, <1>6, <1>7, OnlyOneWorks DEF IInv

(* It sends bytes of the file that has the name now: those it planned, if  *)
(* that is still the same file.                                            *)
LEMMA SendKeeps ==
  ASSUME ~Overlap, IInv, NEW p \in Pushes, Send(p) PROVE IInv'
<1> DEFINE bytes == SelectBytes(file.data, item[p].offset, item[p].size)
<1>1. /\ client[p] = "send" /\ payload' = [payload EXCEPT ![p] = bytes]
      /\ server' = [server EXCEPT ![p] = "start"]
      /\ client' = [client EXCEPT ![p] = IF Len(file.data) < item[p].size
                                         THEN "save" ELSE "answers"]
      /\ UNCHANGED <<file, state, inbox, loaded, item, target, cuts, blind>>
  BY DEF Send
<1>2. /\ file.data \in Seq(Block) /\ item[p].offset \in Nat /\ item[p].size \in Nat
      /\ item[p].offset <= item[p].size
  BY DEF IInv, Types, TypeOK, Entry, Item
<1>3. /\ bytes \in Seq(Block)
      /\ item[p].size <= Len(file.data) => Len(bytes) = item[p].size - item[p].offset
      /\ \A i \in 1 .. Len(bytes) : bytes[i] = file.data[item[p].offset + i]
  BY <1>2, BytesSelected
<1> HIDE DEF bytes
<1> USE DEF Types, TypeOK, Entry, Item
<1>4. OthersRest(p)'
  BY <1>1, OneAtATime, ZenonT(40) DEF OthersRest, IInv, Rests
<1>5. Types'
  BY <1>1, <1>3 DEF IInv
<1>6. Saved' /\ Beginning'
  BY <1>1 DEF IInv, Saved, Beginning, Remembers, Fresh, Covered, Differs
<1>7. UnderWay(p)'
  <2>1. UnderWay(p) /\ Planned(p)
    BY <1>1 DEF IInv, Planned
  <2>2. payload'[p] = bytes /\ server'[p] = "start" /\ client'[p] \in {"save", "answers"}
    BY <1>1 DEF IInv
  <2>3. PlannedFrom(p)'
    BY <1>1, <2>1 DEF UnderWay, PlannedFrom, Remembers
  <2>4. item[p].gen = file.gen => StillThere(p)'
    BY <1>1, <1>3, <2>1, <2>2 DEF UnderWay, StillThere
  <2> QED
    BY <1>1, <2>1, <2>2, <2>3, <2>4 DEF UnderWay
<1> QED
  BY <1>4, <1>5, <1>6, <1>7, OnlyOneWorks DEF IInv

(* It saves that the item was delivered when the server has said so.       *)
LEMMA UpdateKeeps ==
  ASSUME ~Overlap, IInv, NEW p \in Pushes, Update(p) PROVE IInv'
<1>1. /\ client[p] = "answers" /\ Answered(p) /\ state' = Updated(p)
      /\ client' = [client EXCEPT ![p] = "idle"] /\ server' = [server EXCEPT ![p] = "none"]
      /\ blind' = (blind /\ ~SentWhole(p))
      /\ UNCHANGED <<file, inbox, loaded, item, target, payload, cuts>>
  BY DEF Update
<1> USE DEF Types, TypeOK, Entry, Item
<1>2. OthersRest(p)'
  BY <1>1, OneAtATime, ZenonT(40) DEF OthersRest, IInv, Rests
<1>3. UnderWay(p) /\ Planned(p) /\ loaded[p] = state
  BY <1>1 DEF IInv, Planned, UnderWay
<1>4. UnderWay(p)'
  BY <1>1 DEF IInv, UnderWay, Planned
<1>5. CASE server[p] = "ok"
  <2>1. state' = Delivered(p)
    BY <1>1, <1>5 DEF Updated
  <2>2. TailHash(file.data, item[p].size) \in Seq(Block) \cup {Absent}
    <3> DEFINE from == IF item[p].size > TailBlocks THEN item[p].size - TailBlocks + 1 ELSE 1
    <3>1. /\ from \in Nat \ {0} /\ item[p].size \in Nat /\ Len(file.data) \in Nat
          /\ file.data \in Seq(Block)
      BY ConstantsAssumption, SMTT(20) DEF IInv
    <3> HIDE DEF from
    <3>2. ASSUME item[p].size <= Len(file.data)
          PROVE  SubSeq(file.data, from, item[p].size) \in Seq(Block)
      <4>1. \A i \in from .. item[p].size : file.data[i] \in Block
        BY <3>1, <3>2, ElementOfSeq
      <4> QED
        BY <3>1, <4>1, SubSeqProperties
    <3> QED
      BY <3>1, <3>2 DEF TailHash, from
  <2>3. Types'
    <3>1. state' \in Entry
      BY <1>1, <2>1, <2>2 DEF IInv, Delivered
    <3>2. /\ client' \in [Pushes -> {"idle", "send", "answers", "save"}]
          /\ server' \in [Pushes -> {"none", "start", "whole", "append", "ok",
                                    "resync", "rejected"}]
      BY <1>1 DEF IInv
    <3> QED
      BY <1>1, <3>1, <3>2 DEF IInv
  <2>4. PlannedFrom(p) /\ (item[p].gen = file.gen => StillThere(p))
    BY <1>3 DEF UnderWay
  <2>5. item[p].ino = file.ino /\ ~blind' => item[p].gen = file.gen
    BY <1>1, <2>4 DEF PlannedFrom, SentWhole
  <2>6. ~blind' /\ item[p].gen = file.gen => Fresh /\ Len(inbox.data) = item[p].size
    BY <1>1, <1>5, <2>4 DEF StillThere, SentWhole
  <2>7. state'.ino = item[p].ino /\ state'.mtime = item[p].mtime /\ state'.size = item[p].size
    BY <2>1 DEF Delivered
  <2>8. Fresh' = Fresh /\ (~blind => ~blind')
    BY <1>1 DEF Fresh
  <2>9. /\ state'.ino <= file'.ino /\ state'.mtime <= file'.mtime
        /\ ~blind' /\ Remembers' => Fresh'
    BY <1>1, <2>4, <2>5, <2>6, <2>7, <2>8 DEF PlannedFrom, Remembers
  <2>10. state'.mtime = file'.mtime =>
           /\ state'.size = Len(file'.data)
           /\ ~blind' => Fresh' /\ state'.size <= Len(inbox'.data)
    <3>1. item[p].size \in Nat
      BY DEF IInv
    <3> QED
      BY <1>1, <2>4, <2>6, <2>7, <2>8, <3>1 DEF PlannedFrom
  <2>11. Saved' /\ Beginning'
    BY <1>1, <2>8, <2>9, <2>10 DEF IInv, Saved, Beginning
  <2> QED
    BY <1>2, <1>4, <2>3, <2>11, OnlyOneWorks DEF IInv
<1>6. CASE server[p] # "ok"
  <2>1. state' \in {Absent, state}
    BY <1>1, <1>3, <1>6 DEF Updated, Answered
  <2>2. blind' = blind
    BY <1>1, <1>6 DEF SentWhole, IInv
  <2>3. Types'
    <3>1. /\ client' \in [Pushes -> {"idle", "send", "answers", "save"}]
          /\ server' \in [Pushes -> {"none", "start", "whole", "append", "ok",
                                    "resync", "rejected"}]
      BY <1>1 DEF IInv
    <3> QED
      BY <1>1, <2>1, <2>2, <3>1 DEF IInv
  <2>4. Saved' /\ Beginning'
    <3>1. Beginning' /\ Saved
      BY <1>1, <2>2 DEF IInv, Beginning
    <3>2. CASE state' = Absent
      <4>1. ~Remembers'
        BY <3>2 DEF Remembers
      <4> QED
        BY <3>1, <3>2, <4>1 DEF Saved
    <3>3. CASE state' = state
      BY <1>1, <2>2, <3>1, <3>3 DEF Saved, Remembers, Fresh, Covered, Differs
    <3> QED
      BY <2>1, <3>1, <3>2, <3>3
  <2> QED
    BY <1>2, <1>4, <2>3, <2>4, OnlyOneWorks DEF IInv
<1> QED
  BY <1>5, <1>6

(* A push that ends without an answer leaves the state as it loaded it.    *)
LEMMA EndKeeps ==
  ASSUME ~Overlap, IInv, NEW p \in Pushes, SaveAsLoaded(p) \/ Fail(p) PROVE IInv'
<1>1. /\ client[p] # "idle" /\ state' \in {state, loaded[p]}
      /\ client' = [client EXCEPT ![p] = "idle"]
      /\ server' = [server EXCEPT ![p] = "none"] \/ server' = server
      /\ cuts' = cuts \/ (cuts' = cuts + 1 /\ cuts < MaxCuts)
      /\ UNCHANGED <<file, inbox, loaded, item, target, payload, blind>>
  BY DEF SaveAsLoaded, Fail
<1>2. OthersRest(p)'
  <2>1. OthersRest(p)
    BY <1>1, OneAtATime DEF Rests
  <2>2. \A q \in Pushes \ {p} : client'[q] = client[q] /\ server'[q] = server[q]
    BY <1>1 DEF IInv, Types, TypeOK
  <2> QED
    BY <2>1, <2>2 DEF OthersRest
<1> USE DEF Types, TypeOK, Entry, Item
<1>3. state' = state
  BY <1>1 DEF IInv, UnderWay
<1>4. Types'
  <2>1. /\ client' \in [Pushes -> {"idle", "send", "answers", "save"}]
        /\ server' \in [Pushes -> {"none", "start", "whole", "append", "ok",
                                  "resync", "rejected"}]
    BY <1>1 DEF IInv
  <2>2. cuts' \in 0 .. MaxCuts
    BY <1>1, ConstantsAssumption, SMTT(20) DEF IInv
  <2> QED
    BY <1>1, <1>3, <2>1, <2>2 DEF IInv
<1>5. Saved' /\ Beginning'
  BY <1>1, <1>3 DEF IInv, Saved, Beginning, Remembers, Fresh, Covered, Differs
<1>6. UnderWay(p)'
  <2>1. UnderWay(p) /\ client'[p] = "idle" /\ server'[p] \in {"none", server[p]}
    BY <1>1 DEF IInv
  <2> QED
    BY <1>1, <1>3, <2>1 DEF UnderWay, Planned, PlannedFrom, StillThere, Remembers, Fresh, Has
<1> QED
  BY <1>2, <1>4, <1>5, <1>6, OnlyOneWorks DEF IInv

-----------------------------------------------------------------------------
(* The receiver *)

(* It opens the copy when it is as long as the place the tail goes to.     *)
LEMMA OpenKeeps ==
  ASSUME ~Overlap, IInv, NEW p \in Pushes, Open(p) PROVE IInv'
<1>1. /\ server[p] = "start"
      /\ server' = [server EXCEPT ![p] = IF item[p].offset = 0 THEN "whole"
                       ELSE IF Has(item[p].offset) THEN "append" ELSE "resync"]
      /\ target' = [target EXCEPT ![p] = inbox.ino]
      /\ UNCHANGED <<file, state, inbox, client, loaded, item, payload, cuts, blind>>
  BY DEF Open, AppendsTo
<1> USE DEF Types, TypeOK
<1>2. OthersRest(p)'
  BY <1>1, OneAtATime DEF OthersRest, IInv, Rests
<1>3. Types'
  <2>1. server' \in [Pushes -> {"none", "start", "whole", "append", "ok",
                               "resync", "rejected"}]
    BY <1>1 DEF IInv
  <2>2. target' \in [Pushes -> Nat]
    BY <1>1 DEF IInv
  <2> QED
    BY <1>1, <2>1, <2>2 DEF IInv
<1>4. Saved' /\ Beginning'
  BY <1>1 DEF IInv, Saved, Beginning, Remembers, Fresh, Covered, Differs
<1>5. UnderWay(p)'
  <2>1. UnderWay(p) /\ Planned(p)
    BY <1>1 DEF IInv, Planned
  <2>2. /\ server'[p] \in {"whole", "append", "resync"} /\ target'[p] = inbox.ino
        /\ server'[p] = "whole" => item[p].offset = 0
        /\ server'[p] = "append" => item[p].offset # 0 /\ Has(item[p].offset)
    BY <1>1 DEF IInv
  <2>3. PlannedFrom(p)'
    BY <1>1, <2>1 DEF UnderWay, PlannedFrom, Remembers
  <2>4. ASSUME item[p].gen = file.gen, item[p].offset # 0, Has(item[p].offset), ~blind
        PROVE  Fresh
    <3>1. /\ StillThere(p) /\ state # Absent /\ state.ino = file.ino
          /\ state.size = item[p].offset
      BY <2>1, <2>4 DEF UnderWay, PlannedFrom
    <3>2. /\ inbox.data \in Seq(Block) /\ file.data \in Seq(Block)
          /\ Len(inbox.data) = state.size /\ state.size <= Len(file.data)
      <4>1. item[p].offset \in Nat /\ item[p].size \in Nat /\ item[p].offset <= item[p].size
        BY DEF IInv, Item
      <4> QED
        BY <2>4, <3>1, <4>1, SMTT(20) DEF IInv, Has, StillThere
    <3>3. Fresh \/ Covered \/ Differs
      BY <2>4, <3>1 DEF IInv, Saved, Remembers
    <3>4. ~Differs
      BY <2>4, <3>1 DEF StillThere, Differs
    <3>5. Covered => IsPrefix(inbox.data, file.data)
      BY <2>4, <3>1, <3>2, HashOfAll DEF Covered, StillThere
    <3> QED
      BY <2>4, <3>3, <3>4, <3>5 DEF Has, Fresh
  <2>5. item[p].gen = file.gen => StillThere(p)'
    BY <1>1, <2>1, <2>2, <2>4 DEF UnderWay, StillThere, Fresh
  <2> QED
    BY <1>1, <2>1, <2>2, <2>3, <2>5 DEF UnderWay, Has
<1> QED
  BY <1>2, <1>3, <1>4, <1>5, OnlyOneWorks DEF IInv

(* A whole file replaces the copy when all of it has come: then it is the  *)
(* file that was planned, or that file is gone.                            *)
LEMMA ReceiveWholeKeeps ==
  ASSUME ~Overlap, IInv, NEW p \in Pushes, ReceiveWhole(p) PROVE IInv'
<1> USE DEF Types, TypeOK
<1>1. PICK got \in Received(p) :
        IF Complete(p, got)
        THEN /\ inbox' = [data |-> got, ino |-> inbox.ino + 1]
             /\ server' = [server EXCEPT ![p] = "ok"]
        ELSE inbox' = inbox /\ server' = [server EXCEPT ![p] = "rejected"]
  BY DEF ReceiveWhole
<1>2. /\ server[p] = "whole"
      /\ UNCHANGED <<file, state, client, loaded, item, target, payload, cuts, blind>>
  BY DEF ReceiveWhole
<1>3. OthersRest(p)'
  BY <1>1, <1>2, OneAtATime, ZenonT(40) DEF OthersRest, IInv, Rests
<1>4. UnderWay(p) /\ Planned(p)
  BY <1>2 DEF IInv, Planned
<1>5. /\ got \in Seq(Block) /\ Len(got) <= Len(payload[p])
      /\ \A i \in 1 .. Len(got) : got[i] = payload[p][i]
  BY ReceivedIsBeginning DEF IInv
<1>6. CASE ~Complete(p, got)
  <2>1. inbox' = inbox /\ server' = [server EXCEPT ![p] = "rejected"]
    BY <1>1, <1>6
  <2>2. server' \in [Pushes -> {"none", "start", "whole", "append", "ok",
                               "resync", "rejected"}]
    BY <2>1 DEF IInv
  <2>3. Types' /\ Saved' /\ Beginning'
    BY <1>2, <2>1, <2>2 DEF IInv, Saved, Beginning, Remembers, Fresh, Covered, Differs
  <2>4. UnderWay(p)'
    <3>1. server'[p] = "rejected"
      BY <2>1 DEF IInv
    <3> QED
      BY <1>2, <1>4, <2>1, <3>1 DEF UnderWay, PlannedFrom, StillThere, Remembers, Fresh
  <2> QED
    BY <1>3, <2>3, <2>4, OnlyOneWorks DEF IInv
<1>7. CASE Complete(p, got)
  <2>1. /\ inbox' = [data |-> got, ino |-> inbox.ino + 1]
        /\ server' = [server EXCEPT ![p] = "ok"]
    BY <1>1, <1>7
  <2>2. server'[p] = "ok" /\ inbox'.data = got /\ got # Absent
    BY <1>5, <2>1, ConstantsAssumption DEF IInv
  <2>3. /\ file.data \in Seq(Block) /\ item[p].size \in Nat /\ item[p].ino \in Nat
        /\ item[p].offset \in Nat /\ file.ino \in Nat
        /\ item[p].gen \in Nat /\ file.gen \in Nat
        /\ state # Absent => state.size \in Nat /\ state.ino \in Nat
    BY DEF IInv
  <2>5. ASSUME item[p].gen = file.gen
        PROVE  Len(got) = item[p].size /\ IsPrefix(got, file.data)
    <3>1. StillThere(p) /\ item[p].offset = 0
      BY <1>2, <1>4, <2>5 DEF UnderWay, PlannedFrom, StillThere
    <3>2. Len(got) = item[p].size
      BY <1>7, <2>3, <3>1 DEF Complete
    <3>3. \A i \in 1 .. Len(got) : got[i] = file.data[i]
      BY <1>2, <1>5, <2>3, <3>1 DEF StillThere
    <3> QED
      BY <1>5, <2>3, <3>1, <3>2, <3>3, PrefixElements DEF StillThere
  <2>6. file.gen = 0 \/ (~blind /\ Remembers) => item[p].gen = file.gen
    BY <1>4, <2>3 DEF UnderWay, PlannedFrom, Remembers
  <2>7. Types'
    <3>1. inbox' \in [data : Seq(Block) \cup {Absent}, ino : Nat]
      BY <1>5, <2>1, SMTT(20) DEF IInv
    <3>2. server' \in [Pushes -> {"none", "start", "whole", "append", "ok",
                                 "resync", "rejected"}]
      BY <2>1 DEF IInv
    <3> QED
      BY <1>2, <3>1, <3>2 DEF IInv
  <2>8. Saved' /\ Beginning'
    <3>1. Remembers' = Remembers /\ (Remembers => state.mtime # file.mtime)
      BY <1>2, <1>4 DEF UnderWay, PlannedFrom, Remembers
    <3>2. item[p].gen = file.gen => Fresh'
      BY <1>2, <2>2, <2>5 DEF Fresh
    <3>3. file.gen = 0 => file.ino = 0 /\ ~blind
      BY DEF IInv, Beginning
    <3>4. Saved'
      BY <1>2, <2>6, <3>1, <3>2 DEF IInv, Saved
    <3> QED
      BY <1>2, <2>2, <2>5, <2>6, <3>3, <3>4 DEF Beginning
  <2>9. UnderWay(p)'
    <3>1. PlannedFrom(p)'
      BY <1>2, <1>4 DEF UnderWay, PlannedFrom, Remembers
    <3>2. item[p].gen = file.gen => StillThere(p)'
      BY <1>2, <1>4, <2>2, <2>5 DEF UnderWay, StillThere, Remembers, Fresh
    <3> QED
      BY <1>2, <1>4, <2>2, <3>1, <3>2 DEF UnderWay
  <2> QED
    BY <1>3, <2>7, <2>8, <2>9, OnlyOneWorks DEF IInv
<1> QED
  BY <1>6, <1>7

(* A tail goes to the end of the copy it was planned for, whole or in      *)
(* part.                                                                   *)
LEMMA ReceiveTailKeeps ==
  ASSUME ~Overlap, IInv, NEW p \in Pushes, ReceiveTail(p) PROVE IInv'
<1> USE DEF Types, TypeOK
<1>1. PICK got \in Received(p) :
        /\ inbox' = IF target[p] = inbox.ino
                    THEN [inbox EXCEPT !.data = @ \o got] ELSE inbox
        /\ server' = [server EXCEPT ![p] = IF Complete(p, got) THEN "ok" ELSE "resync"]
  BY DEF ReceiveTail
<1>2. /\ server[p] = "append"
      /\ UNCHANGED <<file, state, client, loaded, item, target, payload, cuts, blind>>
  BY DEF ReceiveTail
<1>3. OthersRest(p)'
  BY <1>1, <1>2, OneAtATime DEF OthersRest, IInv, Rests
<1>4. /\ UnderWay(p) /\ PlannedFrom(p)
      /\ item[p].offset # 0 /\ Has(item[p].offset) /\ target[p] = inbox.ino
  BY <1>2 DEF IInv, Planned, UnderWay
<1>5. /\ got \in Seq(Block) /\ Len(got) <= Len(payload[p])
      /\ \A i \in 1 .. Len(got) : got[i] = payload[p][i]
  BY ReceivedIsBeginning DEF IInv
<1>6. /\ file.data \in Seq(Block) /\ inbox.data \in Seq(Block)
      /\ Len(inbox.data) = item[p].offset
      /\ item[p].size \in Nat /\ item[p].offset \in Nat /\ Len(got) \in Nat
      /\ item[p].gen \in Nat /\ file.gen \in Nat
      /\ item[p].ino \in Nat /\ file.ino \in Nat
      /\ state # Absent => state.size \in Nat /\ state.ino \in Nat
  BY <1>4, <1>5, SMTT(20) DEF IInv, Has
<1> DEFINE data == inbox.data \o got
<1>7. data \in Seq(Block) /\ Len(data) = item[p].offset + Len(got) /\ data # Absent
  <2>1. data \in Seq(Block) /\ Len(data) = Len(inbox.data) + Len(got)
    BY <1>5, <1>6, ConcatProperties
  <2> HIDE DEF data
  <2> QED
    BY <1>6, <2>1, ConstantsAssumption
<1>8. inbox' = [inbox EXCEPT !.data = data] /\ inbox'.data = data
  BY <1>1, <1>4 DEF IInv
<1> HIDE DEF data
<1>9. file.gen = 0 \/ (~blind /\ Remembers) => item[p].gen = file.gen
  BY <1>4, <1>6 DEF PlannedFrom, Remembers
<1>10. ASSUME item[p].gen = file.gen, ~blind PROVE IsPrefix(data, file.data)
  <2>1. StillThere(p)
    BY <1>2, <1>4, <1>10 DEF UnderWay, Planned
  <2>2. IsPrefix(inbox.data, file.data)
    BY <1>2, <1>10, <2>1 DEF StillThere, Fresh
  <2>3. Len(inbox.data) + Len(got) <= Len(file.data)
    <3>1. /\ item[p].size <= Len(file.data)
          /\ Len(payload[p]) = item[p].size - item[p].offset
      BY <1>2, <2>1 DEF StillThere
    <3>2. Len(got) <= item[p].size - item[p].offset /\ Len(file.data) \in Nat
      BY <1>5, <1>6, <3>1
    <3> QED
      BY <1>6, <3>1, <3>2
  <2>4. \A i \in 1 .. Len(got) : got[i] = file.data[Len(inbox.data) + i]
    <3> SUFFICES ASSUME NEW i \in 1 .. Len(got)
                 PROVE  got[i] = file.data[Len(inbox.data) + i]
      OBVIOUS
    <3>1. i \in 1 .. Len(payload[p]) /\ got[i] = payload[p][i]
      BY <1>2, <1>5, <1>6, <2>1, SMTT(20) DEF StillThere, IInv
    <3>2. payload[p][i] = file.data[item[p].offset + i]
      BY <1>2, <2>1, <3>1 DEF StillThere
    <3> QED
      BY <1>6, <3>1, <3>2
  <2> QED
    BY <1>5, <1>6, <2>1, <2>2, <2>3, <2>4, PrefixExtended DEF data
<1>11. Types'
  <2>1. inbox' \in [data : Seq(Block) \cup {Absent}, ino : Nat]
    BY <1>7, <1>8 DEF IInv
  <2>2. server' \in [Pushes -> {"none", "start", "whole", "append", "ok",
                               "resync", "rejected"}]
    BY <1>1 DEF IInv
  <2> QED
    BY <1>2, <2>1, <2>2 DEF IInv
<1>12. item[p].gen = file.gen /\ ~blind => Fresh'
  BY <1>2, <1>7, <1>8, <1>10 DEF Fresh
<1>13. Saved' /\ Beginning'
  <2>1. Remembers' = Remembers /\ (Remembers => state.mtime # file.mtime)
    BY <1>2, <1>4 DEF PlannedFrom, Remembers
  <2>2. file.gen = 0 => file.ino = 0 /\ ~blind
    BY DEF IInv, Beginning
  <2>3. Saved'
    BY <1>2, <1>9, <1>12, <2>1 DEF IInv, Saved
  <2> QED
    BY <1>2, <1>8, <1>9, <1>10, <2>2, <2>3 DEF Beginning
<1>14. UnderWay(p)'
  <2>1. server'[p] \in {"ok", "resync"} /\ (server'[p] = "ok" <=> Complete(p, got))
    BY <1>1 DEF IInv
  <2>2. PlannedFrom(p)'
    BY <1>2, <1>4 DEF PlannedFrom, Remembers
  <2>3. item[p].gen = file.gen => StillThere(p)'
    <3> SUFFICES ASSUME item[p].gen = file.gen PROVE StillThere(p)'
      OBVIOUS
    <3>1. server'[p] = "ok" => Len(data) = item[p].size
      BY <1>6, <1>7, <2>1 DEF Complete
    <3>2. StillThere(p)
      BY <1>2, <1>4 DEF UnderWay, Planned
    <3> QED
      BY <1>2, <1>4, <1>7, <1>8, <1>12, <2>1, <3>1, <3>2 DEF StillThere
  <2> QED
    BY <1>2, <1>4, <2>1, <2>2, <2>3 DEF UnderWay
<1> QED
  BY <1>3, <1>11, <1>13, <1>14, OnlyOneWorks DEF IInv

(* Nobody reads the answer of a receiver whose laptop is gone.             *)
LEMMA HangupKeeps ==
  ASSUME ~Overlap, IInv, NEW p \in Pushes, Hangup(p) PROVE IInv'
<1>1. /\ server' = [server EXCEPT ![p] = "none"] /\ Answered(p) /\ client[p] = "idle"
      /\ UNCHANGED <<file, state, inbox, client, loaded, item, target, payload, cuts, blind>>
  BY DEF Hangup
<1> USE DEF Types, TypeOK
<1>2. OthersRest(p)'
  BY <1>1, OneAtATime DEF OthersRest, IInv, Rests, Answered
<1>3. Types'
  <2>1. server' \in [Pushes -> {"none", "start", "whole", "append", "ok",
                               "resync", "rejected"}]
    BY <1>1 DEF IInv
  <2> QED
    BY <1>1, <2>1 DEF IInv
<1>4. Saved' /\ Beginning'
  BY <1>1 DEF IInv, Saved, Beginning, Remembers, Fresh, Covered, Differs
<1>5. UnderWay(p)'
  BY <1>1 DEF IInv, UnderWay, Planned
<1> QED
  BY <1>2, <1>3, <1>4, <1>5, OnlyOneWorks DEF IInv

-----------------------------------------------------------------------------
(* The invariant holds in every reachable state.                           *)
LEMMA InvAlways == ASSUME ~Overlap PROVE Spec => []IInv
<1>1. Init => IInv
  <2> SUFFICES ASSUME Init PROVE IInv
    OBVIOUS
  <2>1. PICK d \in Data : file = [data |-> d, ino |-> 0, mtime |-> 0, gen |-> 0]
    BY DEF Init
  <2>2. d \in Seq(Block)
    BY DataIsSequences
  <2>3. Types
    <3>1. file \in [data : Seq(Block), ino : Nat, mtime : Nat, gen : Nat]
      BY <2>1, <2>2
    <3>2. <<>> \in Seq(Block) /\ NoItem \in Item
      BY EmptySeq DEF NoItem, Item
    <3>3. \A p \in Pushes : item[p].offset <= item[p].size
      BY DEF Init, NoItem
    <3>4. cuts \in 0 .. MaxCuts
      BY ConstantsAssumption DEF Init
    <3>5. /\ loaded \in [Pushes -> {Absent} \cup Entry] /\ item \in [Pushes -> Item]
          /\ payload \in [Pushes -> Seq(Block)]
      BY <3>2 DEF Init
    <3>6. /\ client \in [Pushes -> {"idle", "send", "answers", "save"}]
          /\ server \in [Pushes -> {"none", "start", "whole", "append", "ok",
                                   "resync", "rejected"}]
          /\ target \in [Pushes -> Nat]
      BY DEF Init
    <3>7. /\ inbox \in [data : Seq(Block) \cup {Absent}, ino : Nat] /\ state = Absent
          /\ blind \in BOOLEAN
      BY DEF Init
    <3> HIDE DEF Item
    <3>8. \A p \in Pushes : item[p] \in Item /\ payload[p] \in Seq(Block)
      BY <3>5
    <3> QED
      BY <3>1, <3>3, <3>4, <3>5, <3>6, <3>7, <3>8 DEF Types, TypeOK, Item
  <2>4. Alone /\ Saved /\ Beginning
    BY DEF Init, Alone, Rests, Saved, Beginning, Remembers, Fresh, Covered, Differs
  <2>5. \A p \in Pushes : UnderWay(p)
    BY DEF Init, UnderWay, Planned
  <2> QED
    BY <2>3, <2>4, <2>5 DEF IInv
<1>2. IInv /\ [Next]_vars => IInv'
  <2> SUFFICES ASSUME IInv, [Next]_vars PROVE IInv'
    OBVIOUS
  <2>1. CASE AppendBlock \/ Replace \/ Rewrite
    BY <2>1, AppendKeeps, ReplaceKeeps, RewriteKeeps
  <2>2. ASSUME NEW p \in Pushes, Push(p) PROVE IInv'
    BY <2>2, PlanKeeps, SendKeeps, UpdateKeeps, EndKeeps DEF Push
  <2>3. ASSUME NEW p \in Pushes, Receive(p) PROVE IInv'
    BY <2>3, OpenKeeps, ReceiveWholeKeeps, ReceiveTailKeeps, HangupKeeps DEF Receive
  <2>4. ASSUME NEW p \in Pushes, Fail(p) PROVE IInv'
    BY <2>4, EndKeeps
  <2>5. CASE UNCHANGED vars
    <3> USE <2>5 DEF vars
    <3>1. Types' /\ Alone' /\ Saved' /\ Beginning'
      BY DEF IInv, Types, TypeOK, Alone, Rests, Saved, Beginning, Remembers, Fresh, Covered, Differs
    <3>2. \A p \in Pushes : UnderWay(p)'
      BY DEF IInv, UnderWay, Planned, PlannedFrom, StillThere, Remembers, Fresh, Has
    <3> QED
      BY <3>1, <3>2 DEF IInv
  <2> QED
    BY <2>1, <2>2, <2>3, <2>4, <2>5 DEF Next
<1> QED
  BY <1>1, <1>2, PTL DEF Spec

(***************************************************************************)
(* With one push at a time, a file the laptop will not send again because  *)
(* its saved state says that all of it was delivered is in the inbox as it *)
(* is on the laptop: whatever was cut, killed, answered or replaced in     *)
(* between, and whatever the tails that travelled; unless the file was     *)
(* rewritten in place during a push, or under an equal hash, and was not   *)
(* delivered whole since.                                                  *)
(***************************************************************************)
THEOREM DeliveredIsThere == ASSUME ~Overlap PROVE Spec => []DeliveredMeansSame
<1>1. IInv => DeliveredMeansSame
  <2> SUFFICES ASSUME IInv, Unchanged, ~blind PROVE inbox.data = file.data
    BY DEF DeliveredMeansSame
  <2>1. Remembers /\ state.mtime = file.mtime /\ state.size = Len(file.data)
    BY DEF Unchanged, Remembers
  <2>2. Fresh /\ inbox.data # Absent /\ Len(file.data) <= Len(inbox.data)
    BY <2>1 DEF IInv, Saved, Fresh
  <2>3. inbox.data \in Seq(Block) /\ file.data \in Seq(Block)
    BY <2>2 DEF IInv, Types, TypeOK
  <2>4. Len(inbox.data) <= Len(file.data)
        /\ \A i \in 1 .. Len(inbox.data) : inbox.data[i] = file.data[i]
    BY <2>2, <2>3, PrefixElements DEF Fresh
  <2>5. Len(inbox.data) = Len(file.data)
    BY <2>2, <2>3, <2>4
  <2> QED
    BY <2>3, <2>4, <2>5, SeqEqual
<1> QED
  BY <1>1, InvAlways, PTL

(***************************************************************************)
(* With one push at a time, the inbox copy of a file that only grew        *)
(* is a beginning of it: no tail is stored twice, in the wrong    *)
(* place or after the wrong bytes.                                         *)
(***************************************************************************)
THEOREM CopyIsBeginning == ASSUME ~Overlap PROVE Spec => []InboxIsBeginning
<1>1. IInv => InboxIsBeginning
  BY DEF IInv, Beginning, InboxIsBeginning
<1> QED
  BY <1>1, InvAlways, PTL

-----------------------------------------------------------------------------
(***************************************************************************)
(* The inductive invariant of pairing.  Two files, the ledger and two      *)
(* folders of keys change one after the other; it says how far each party  *)
(* is with its own, and which key set the laptop will keep of a request    *)
(* that is not answered yet.                                               *)
(***************************************************************************)

(* The one who reads, changes and writes the server's files has read what  *)
(* is still there, and nobody else is at it; authorized_keys belongs to    *)
(* its owner but while they are at it, and after a kill just then.         *)
Reading ==
  /\ owned \/ torn \/ "own" \in {handler.at, forget.at}
  /\ forget.at = "own" => forget.owned \/ torn
  /\ Handling => forget.at = "idle"
  /\ handler.at = "writeKeys" => handler.keys = auth
  /\ handler.at = "record" => handler.devs = devices
  /\ forget.at = "keys" => forget.keys = auth
  /\ forget.at \in {"own", "devices"} => auth[forget.dev] = None
  /\ forget.at = "devices" => forget.devs = devices
  /\ forget.at # "idle" => forget.dev \in Devices /\ gone[forget.dev] = "begun"

(* A request in hand belongs to a session that has no result yet, and asks *)
(* for the key set that its laptop has staged.                             *)
Requests ==
  /\ handler.at # "listen" =>
       /\ session # None /\ session.result = None /\ ~session.failed
       /\ handler.conn \in Conns /\ conn[handler.conn] # None
  /\ \A c \in Conns : conn[c] # None =>
       /\ session # None
       /\ session.result = None =>
            /\ conn[c].key = staged[c[1]]
            /\ lap[c[1]] \in {"off", "asking"}
  /\ session # None /\ ~session.failed => session.attempts < MaxAttempts

(* Once its lines are written the device has the keys of its request.      *)
Written ==
  /\ handler.at \in {"own", "enter", "record"} =>
       auth[Device] = Request.key /\ gone[Device] = "no"
  /\ handler.at = "record" => Device \in ledgered

(* A laptop that replaces its keys was told that the staged ones are       *)
(* accepted; only a forget-device takes that back.                         *)
Replacing == \A d \in Devices :
  /\ lap[d] \in {"replacing", "moving"} =>
       /\ staged[d] # None /\ auth[d] \in {staged[d], None}
       /\ gone[d] = "no" => auth[d] = staged[d]
  /\ lap[d] = "moving" => kept[d] = None
  /\ kept[d] # None /\ staged[d] = None /\ gone[d] = "no" => auth[d] = kept[d]

(* What is listed has keys and an entry in the ledger; what was forgotten  *)
(* has no keys.                                                            *)
Listed ==
  /\ devices \subseteq ledgered
  /\ \A d \in devices : gone[d] # "begun" => auth[d] # None
  /\ \A d \in Devices : gone[d] = "done" => auth[d] = None

PairInv ==
  /\ PairTypeOK /\ Reading /\ Requests /\ Written /\ Replacing /\ Listed
  /\ NoOrphanKeys
-----------------------------------------------------------------------------
(* A request at the server is some laptop's, for a key set.                *)
LEMMA Asked ==
  ASSUME PairInv, NEW c \in Conns, conn[c] # None
  PROVE  /\ c[1] \in Devices /\ conn[c] \in Request_
         /\ conn[c].key \in 1 .. MaxKeys /\ conn[c].key # None
<1>1. c[1] \in Devices
  BY PairingAssumption
<1>2. conn[c] \in Request_
  BY DEF PairInv, PairTypeOK
<1> QED
  BY <1>1, <1>2, PairingAssumption DEF Request_

(* The request in hand is one of those, and its laptop still has the keys. *)
LEMMA InHand ==
  ASSUME PairInv, handler.at # "listen"
  PROVE  /\ session \in Session_ /\ session.result = None /\ ~session.failed
         /\ handler.conn \in Conns /\ Device \in Devices
         /\ Request \in Request_ /\ Request # None
         /\ Request.key \in 1 .. MaxKeys /\ Request.key = staged[Device]
         /\ staged[Device] # None /\ lap[Device] \in {"off", "asking"}
<1>1. /\ session # None /\ session.result = None /\ ~session.failed
      /\ handler.conn \in Conns /\ conn[handler.conn] # None
  BY DEF PairInv, Requests
<1>2. session \in Session_
  BY <1>1 DEF PairInv, PairTypeOK
<1>3. conn[handler.conn].key = staged[handler.conn[1]] /\ lap[handler.conn[1]] \in {"off", "asking"}
  BY <1>1 DEF PairInv, Requests
<1> QED
  BY <1>1, <1>2, <1>3, Asked DEF Request, Device

(* A request that another one does not touch stays as it was.              *)
LEMMA OthersRequest ==
  ASSUME PairInv, NEW c \in Conns, conn[c] # None, session.result = None
  PROVE  staged[c[1]] # None /\ staged[c[1]] = conn[c].key /\ lap[c[1]] \in {"off", "asking"}
  BY Asked DEF PairInv, Requests

-----------------------------------------------------------------------------
(* The laptop *)

(* It asks with the keys it has staged, or makes new ones.                 *)
LEMMA AskKeeps ==
  ASSUME PairInv, NEW c \in Conns, NEW code \in {0, sessions}, Ask(c, code)
  PROVE  PairInv'
<1> DEFINE d == c[1]
           r == [code |-> code, key |-> Staged(d), sent |-> FALSE,
                 open |-> TRUE, silent |-> FALSE]
<1>1. /\ lap[d] = "off" /\ session # None /\ conn[c] = None
      /\ staged[d] = None => made[d] < MaxKeys
      /\ staged' = [staged EXCEPT ![d] = Staged(d)]
      /\ made' = [made EXCEPT ![d] = IF staged[d] = None THEN @ + 1 ELSE @]
      /\ conn' = [conn EXCEPT ![c] = r] /\ lap' = [lap EXCEPT ![d] = "asking"]
      /\ UNCHANGED <<auth, devices, ledgered, owned, torn, sessions, session, handler, forget,
                     kept, gone, kills>>
  BY DEF Ask, serverDisk
<1>2. d \in Devices
  BY PairingAssumption
<1>3. Staged(d) \in 1 .. MaxKeys /\ (staged[d] # None => Staged(d) = staged[d])
  BY <1>1, <1>2, PairingAssumption DEF Staged, PairInv, PairTypeOK, Accepted, Keys
<1>4. r \in Request_ /\ r.key = Staged(d)
  BY <1>3, PairingAssumption DEF Request_, Codes, PairInv, PairTypeOK
<1> HIDE DEF r
<1>5. PairTypeOK'
  <2>1. conn' \in [Conns -> Request_ \cup {None}]
    BY <1>1, <1>4 DEF PairInv, PairTypeOK
  <2>2. staged' \in Accepted /\ made' \in [Devices -> 0 .. MaxKeys]
    BY <1>1, <1>2, <1>3, PairingAssumption DEF PairInv, PairTypeOK, Accepted, Keys
  <2>3. lap' \in [Devices -> {"off", "asking", "replacing", "moving"}]
    BY <1>1, <1>2 DEF PairInv, PairTypeOK
  <2> QED
    BY <1>1, <2>1, <2>2, <2>3 DEF PairInv, PairTypeOK
<1>6. /\ \A e \in Devices : /\ staged'[e] = IF e = d THEN Staged(d) ELSE staged[e]
                            /\ lap'[e] = IF e = d THEN "asking" ELSE lap[e]
      /\ \A b \in Conns : conn'[b] = IF b = c THEN r ELSE conn[b]
  BY <1>1 DEF PairInv, PairTypeOK, Accepted
<1>7. Staged(d) # None
  BY <1>3, PairingAssumption
<1>8. Reading' /\ Listed'
  BY <1>1 DEF PairInv, Reading, Listed, Handling
<1>9. Requests'
  <2>1. handler.at # "listen" => handler.conn # c
    BY <1>1 DEF PairInv, Requests
  <2>2. ASSUME NEW b \in Conns, conn'[b] # None, session.result = None
        PROVE  conn'[b].key = staged'[b[1]] /\ lap'[b[1]] \in {"off", "asking"}
    <3>1. CASE b = c
      BY <1>2, <1>4, <1>6, <3>1
    <3>2. CASE b # c
      <4>1. b[1] \in Devices /\ conn'[b] = conn[b]
        BY <1>6, <3>2, PairingAssumption
      <4>2. staged[b[1]] # None /\ staged[b[1]] = conn[b].key /\ lap[b[1]] \in {"off", "asking"}
        BY <2>2, <4>1, OthersRequest
      <4> QED
        BY <1>3, <1>6, <4>1, <4>2
    <3> QED
      BY <3>1, <3>2
  <2> QED
    BY <1>1, <1>6, <2>1, <2>2 DEF PairInv, Requests
<1>10. Written'
  <2>1. handler.at # "listen" => conn'[handler.conn] = conn[handler.conn]
    BY <1>1, <1>6 DEF PairInv, Requests
  <2> QED
    BY <1>1, <2>1 DEF PairInv, Written, Request, Device
<1>11. Replacing' /\ NoOrphanKeys'
  BY <1>1, <1>3, <1>6, <1>7 DEF PairInv, Replacing, NoOrphanKeys
<1> QED
  BY <1>5, <1>8, <1>9, <1>10, <1>11 DEF PairInv

(* Nobody listens, and the keys are made all the same.                     *)
LEMMA AskInVainKeeps ==
  ASSUME PairInv, NEW d \in Devices, AskInVain(d) PROVE PairInv'
<1>1. /\ lap[d] = "off" /\ session = None /\ staged[d] = None /\ made[d] < MaxKeys
      /\ staged' = [staged EXCEPT ![d] = made[d] + 1]
      /\ made' = [made EXCEPT ![d] = @ + 1]
      /\ UNCHANGED <<auth, devices, ledgered, owned, torn, sessions, session, handler, forget,
                     conn, lap, kept, gone, kills>>
  BY DEF AskInVain, serverDisk, Staged
<1>2. made[d] + 1 \in 1 .. MaxKeys /\ made[d] + 1 # None
  BY <1>1, PairingAssumption DEF PairInv, PairTypeOK
<1>3. PairTypeOK'
  <2>1. staged' \in Accepted /\ made' \in [Devices -> 0 .. MaxKeys]
    BY <1>1, <1>2, PairingAssumption DEF PairInv, PairTypeOK, Accepted, Keys
  <2> QED
    BY <1>1, <2>1 DEF PairInv, PairTypeOK
<1>4. Reading' /\ Requests' /\ Written' /\ Listed'
  BY <1>1 DEF PairInv, Reading, Requests, Written, Listed, Handling, Request, Device
<1>5. \A e \in Devices : staged'[e] = IF e = d THEN made[d] + 1 ELSE staged[e]
  BY <1>1 DEF PairInv, PairTypeOK, Accepted
<1>6. Replacing' /\ NoOrphanKeys'
  BY <1>1, <1>2, <1>5 DEF PairInv, Replacing, NoOrphanKeys
<1> QED
  BY <1>3, <1>4, <1>6 DEF PairInv

(* What changes of a request when it is sent or its laptop leaves: neither *)
(* its keys nor whether it is there.                                       *)
LEMMA ConnKeeps ==
  ASSUME PairInv, conn' \in [Conns -> Request_ \cup {None}],
         \A c \in Conns : IF conn[c] = None THEN conn'[c] = None
                          ELSE conn'[c] # None /\ conn'[c].key = conn[c].key,
         \/ lap' = lap
         \/ \E d \in Devices : lap' = [lap EXCEPT ![d] = "off"],
         kills' \in 0 .. MaxKills,
         UNCHANGED <<auth, devices, ledgered, owned, torn, sessions, session, handler, forget,
                     staged, kept, made, gone>>
  PROVE  PairInv'
<1>1. /\ lap' \in [Devices -> {"off", "asking", "replacing", "moving"}]
      /\ \A e \in Devices : lap'[e] \in {lap[e], "off"}
  BY DEF PairInv, PairTypeOK
<1>2. PairTypeOK'
  BY <1>1 DEF PairInv, PairTypeOK
<1>3. Reading' /\ Listed' /\ Replacing' /\ NoOrphanKeys'
  BY <1>1 DEF PairInv, Reading, Listed, Replacing, NoOrphanKeys, Handling
<1>4. Requests'
  <2>1. \A c \in Conns : c[1] \in Devices
    BY PairingAssumption
  <2> QED
    BY <1>1, <2>1 DEF PairInv, Requests
<1>5. Written'
  BY DEF PairInv, Written, Requests, Request, Device
<1> QED
  BY <1>2, <1>3, <1>4, <1>5 DEF PairInv

(* It sends what it asked with.                                            *)
LEMMA SendRequestKeeps ==
  ASSUME PairInv, NEW c \in Conns, SendRequest(c) PROVE PairInv'
<1> DEFINE r == [conn[c] EXCEPT !.sent = TRUE]
<1>1. /\ conn[c] # None /\ conn' = [conn EXCEPT ![c] = r]
      /\ UNCHANGED <<auth, devices, ledgered, owned, torn, sessions, session, handler, forget,
                     lap, staged, kept, made, gone, kills>>
  BY DEF SendRequest, serverDisk, laptop, held
<1>2. r \in Request_ /\ r.key = conn[c].key
  BY <1>1, Asked DEF Request_
<1>3. r # None
  BY <1>2, NoneAssumption
<1> HIDE DEF r
<1>4. /\ conn' \in [Conns -> Request_ \cup {None}]
      /\ \A b \in Conns : conn'[b] = IF b = c THEN r ELSE conn[b]
  BY <1>1, <1>2 DEF PairInv, PairTypeOK
<1>5. kills' \in 0 .. MaxKills
  BY <1>1 DEF PairInv, PairTypeOK
<1> QED
  BY <1>1, <1>2, <1>3, <1>4, <1>5, ConnKeeps

(* It tires of waiting, or is killed: nobody waits for the answer.         *)
LEMMA LeaveKeeps ==
  ASSUME PairInv, NEW d \in Devices, GiveUp(d) \/ KillLaptop(d) PROVE PairInv'
<1>1. PICK mute \in BOOLEAN :
        /\ conn' = [c \in Conns |->
             IF c[1] = d /\ conn[c] # None /\ conn[c].open
             THEN [conn[c] EXCEPT !.open = FALSE, !.silent = mute] ELSE conn[c]]
        /\ lap' = [lap EXCEPT ![d] = "off"]
  BY DEF GiveUp, KillLaptop, Leaves
<1>2. /\ kills' \in 0 .. MaxKills
      /\ UNCHANGED <<auth, devices, ledgered, owned, torn, sessions, session,
                     handler, forget, staged, kept, made, gone>>
  <2>1. kills \in 0 .. MaxKills /\ MaxKills \in Nat
    BY PairingAssumption DEF PairInv, PairTypeOK
  <2>2. CASE GiveUp(d)
    BY <2>1, <2>2 DEF GiveUp, serverDisk, held
  <2>3. CASE KillLaptop(d)
    <3>1. kills < MaxKills /\ kills' = kills + 1
      BY <2>3 DEF KillLaptop
    <3> QED
      BY <2>1, <2>3, <3>1 DEF KillLaptop, serverDisk, held
  <2> QED
    BY <2>2, <2>3
<1> DEFINE r(c) == IF c[1] = d /\ conn[c] # None /\ conn[c].open
                   THEN [conn[c] EXCEPT !.open = FALSE, !.silent = mute] ELSE conn[c]
<1>3. conn' = [c \in Conns |-> r(c)]
  BY <1>1
<1>4. ASSUME NEW c \in Conns
      PROVE  /\ r(c) \in Request_ \cup {None}
             /\ IF conn[c] = None THEN r(c) = None
                ELSE r(c) # None /\ r(c).key = conn[c].key
  <2>1. CASE conn[c] = None
    BY <2>1
  <2>2. CASE conn[c] # None
    <3>1. r(c) \in Request_ /\ r(c).key = conn[c].key
      BY <2>2, Asked DEF Request_
    <3> QED
      BY <2>2, <3>1, NoneAssumption
  <2> QED
    BY <2>1, <2>2
<1> HIDE DEF r
<1>5. conn' \in [Conns -> Request_ \cup {None}] /\ \A c \in Conns : conn'[c] = r(c)
  BY <1>3, <1>4
<1> QED
  BY <1>1, <1>2, <1>4, <1>5, ConnKeeps

(* It drops its old keys only when the server has accepted the new ones,   *)
LEMMA DropOldKeeps ==
  ASSUME PairInv, NEW d \in Devices, DropOld(d) PROVE PairInv'
<1>1. /\ lap[d] = "replacing"
      /\ kept' = [kept EXCEPT ![d] = None] /\ lap' = [lap EXCEPT ![d] = "moving"]
      /\ UNCHANGED <<auth, devices, ledgered, owned, torn, sessions, session, handler, forget,
                     conn, staged, made, gone, kills>>
  BY DEF DropOld, serverDisk
<1>2. /\ kept' \in Accepted /\ lap' \in [Devices -> {"off", "asking", "replacing", "moving"}]
      /\ \A e \in Devices : /\ kept'[e] = IF e = d THEN None ELSE kept[e]
                            /\ lap'[e] = IF e = d THEN "moving" ELSE lap[e]
  BY <1>1 DEF PairInv, PairTypeOK, Accepted, Keys
<1>3. PairTypeOK'
  BY <1>1, <1>2 DEF PairInv, PairTypeOK
<1>4. Reading' /\ Written' /\ Listed'
  BY <1>1 DEF PairInv, Reading, Written, Listed, Handling, Request, Device
<1>5. Requests'
  <2>1. \A c \in Conns : c[1] \in Devices
    BY PairingAssumption
  <2> QED
    BY <1>1, <1>2, <2>1 DEF PairInv, Requests
<1>6. Replacing' /\ NoOrphanKeys'
  BY <1>1, <1>2 DEF PairInv, Replacing, NoOrphanKeys
<1> QED
  BY <1>3, <1>4, <1>5, <1>6 DEF PairInv

(* and moves those in.                                                     *)
LEMMA KeepNewKeeps ==
  ASSUME PairInv, NEW d \in Devices, KeepNew(d) PROVE PairInv'
<1>1. /\ lap[d] = "moving"
      /\ kept' = [kept EXCEPT ![d] = staged[d]] /\ staged' = [staged EXCEPT ![d] = None]
      /\ lap' = [lap EXCEPT ![d] = "off"]
      /\ UNCHANGED <<auth, devices, ledgered, owned, torn, sessions, session, handler, forget,
                     conn, made, gone, kills>>
  BY DEF KeepNew, serverDisk
<1>2. /\ kept' \in Accepted /\ staged' \in Accepted
      /\ lap' \in [Devices -> {"off", "asking", "replacing", "moving"}]
      /\ \A e \in Devices : /\ kept'[e] = IF e = d THEN staged[d] ELSE kept[e]
                            /\ staged'[e] = IF e = d THEN None ELSE staged[e]
                            /\ lap'[e] = IF e = d THEN "off" ELSE lap[e]
  BY <1>1 DEF PairInv, PairTypeOK, Accepted, Keys
<1>3. PairTypeOK'
  BY <1>1, <1>2 DEF PairInv, PairTypeOK
<1>4. Reading' /\ Written' /\ Listed'
  BY <1>1 DEF PairInv, Reading, Written, Listed, Handling, Request, Device
<1>5. Requests'
  <2>1. \A c \in Conns : c[1] \in Devices
    BY PairingAssumption
  <2> QED
    BY <1>1, <1>2, <2>1 DEF PairInv, Requests
<1>6. Replacing' /\ NoOrphanKeys'
  BY <1>1, <1>2 DEF PairInv, Replacing, NoOrphanKeys
<1> QED
  BY <1>3, <1>4, <1>5, <1>6 DEF PairInv

-----------------------------------------------------------------------------
(* The server *)

(* A session opens; nobody is connected yet.                               *)
LEMMA OpenSessionKeeps == ASSUME PairInv, OpenSession PROVE PairInv'
<1> DEFINE new == [late |-> FALSE, attempts |-> 0, failed |-> FALSE, result |-> None]
<1>1. /\ session = None /\ sessions < MaxSessions /\ sessions' = sessions + 1
      /\ session' = new /\ handler' = Listening
      /\ UNCHANGED <<auth, devices, ledgered, owned, torn, forget, conn, lap, staged, kept, made,
                     gone, kills>>
  BY DEF OpenSession, serverDisk, laptop, held
<1>2. new \in Session_ /\ Listening \in Handler_
  BY PairingAssumption DEF Session_, Handler_, Listening
<1>3. PairTypeOK'
  <2>1. sessions' \in Codes /\ sessions \in Codes
    BY <1>1, PairingAssumption DEF PairInv, PairTypeOK, Codes
  <2>2. conn' \in [Conns -> Request_ \cup {None}]
    <3>1. \A c \in Conns : conn[c] = None
      BY <1>1 DEF PairInv, Requests
    <3> QED
      BY <1>1, <3>1 DEF PairInv, PairTypeOK
  <2> QED
    BY <1>1, <1>2, <2>1, <2>2 DEF PairInv, PairTypeOK
<1>4. handler'.at = "listen"
  BY <1>1 DEF Listening
<1>5. Reading' /\ Written' /\ Replacing' /\ Listed' /\ NoOrphanKeys'
  BY <1>1, <1>4 DEF PairInv, Reading, Requests, Written, Replacing, Listed,
     NoOrphanKeys, Handling
<1>6. Requests'
  BY <1>1, <1>4, PairingAssumption DEF PairInv, Requests
<1> QED
  BY <1>3, <1>5, <1>6 DEF PairInv

(* Its time passes, whatever the server is doing.                          *)
LEMMA ExpireKeeps == ASSUME PairInv, Expire PROVE PairInv'
<1>1. /\ session # None /\ session' = [session EXCEPT !.late = TRUE]
      /\ UNCHANGED <<auth, devices, ledgered, owned, torn, sessions, handler, forget, conn, lap,
                     staged, kept, made, gone, kills>>
  BY DEF Expire, serverDisk, laptop, held
<1>2. /\ session' \in Session_ /\ session'.result = session.result
      /\ session'.failed = session.failed /\ session'.attempts = session.attempts
  BY <1>1 DEF PairInv, PairTypeOK, Session_
<1>3. session' # None
  BY <1>2, NoneAssumption
<1>4. PairTypeOK'
  BY <1>1, <1>2 DEF PairInv, PairTypeOK
<1>5. /\ Reading' /\ Written' /\ Replacing' /\ Listed' /\ NoOrphanKeys'
  BY <1>1 DEF PairInv, Reading, Written, Replacing, Listed, NoOrphanKeys, Handling,
     Request, Device
<1>6. Requests'
  BY <1>1, <1>2, <1>3 DEF PairInv, Requests
<1> QED
  BY <1>4, <1>5, <1>6 DEF PairInv

(* The server takes a request while the session is not over.               *)
LEMMA AcceptKeeps ==
  ASSUME PairInv, NEW c \in Conns, Accept(c) PROVE PairInv'
<1>1. /\ session # None /\ handler.at = "listen" /\ ~Finished /\ conn[c] # None
      /\ handler' = [handler EXCEPT !.at = "body", !.conn = c]
      /\ UNCHANGED <<auth, devices, ledgered, owned, torn, sessions, session, forget, conn, lap,
                     staged, kept, made, gone, kills>>
  BY DEF Accept, serverDisk, laptop, held
<1>2. handler' \in Handler_ /\ handler'.at = "body" /\ handler'.conn = c
  BY <1>1 DEF PairInv, PairTypeOK, Handler_
<1>3. PairTypeOK'
  BY <1>1, <1>2 DEF PairInv, PairTypeOK
<1>4. Reading' /\ Written' /\ Replacing' /\ Listed' /\ NoOrphanKeys'
  BY <1>1, <1>2 DEF PairInv, Reading, Written, Replacing, Listed, NoOrphanKeys,
     Handling
<1>5. Requests'
  BY <1>1, <1>2 DEF PairInv, Requests, Finished
<1> QED
  BY <1>3, <1>4, <1>5 DEF PairInv

(* An answer that is no: the laptop keeps what it has.                     *)
LEMMA RefuseKeeps ==
  ASSUME PairInv, TooLate \/ BadRequest \/ WrongCode PROVE PairInv'
<1>1. /\ handler.at = "body" /\ handler' = Listening
      /\ conn' = [conn EXCEPT ![handler.conn] = None]
      /\ lap' \in {lap, [lap EXCEPT ![Device] = "off"]}
      /\ UNCHANGED <<auth, devices, ledgered, owned, torn, sessions, forget, staged, kept, made,
                     gone, kills>>
  <2>1. lap \in [Devices -> {"off", "asking", "replacing", "moving"}]
    BY DEF PairInv, PairTypeOK
  <2>2. handler.at = "body"
    BY DEF TooLate, BadRequest, WrongCode, Whole, CutShort
  <2>3. Answer("off")
    BY DEF TooLate, BadRequest, WrongCode
  <2>4. lap' \in {lap, [lap EXCEPT ![Device] = "off"]}
    BY <2>1, <2>3 DEF Answer
  <2> QED
    BY <2>2, <2>3, <2>4 DEF Answer, TooLate, BadRequest, WrongCode, serverDisk, held
<1>2. /\ session \in Session_ /\ session.result = None /\ ~session.failed
      /\ handler.conn \in Conns /\ Device \in Devices
      /\ session # None /\ session.attempts < MaxAttempts
  BY <1>1, InHand DEF PairInv, Requests
<1>3. /\ session' \in Session_ /\ session'.result = None
      /\ ~session'.failed => session'.attempts < MaxAttempts
  <2>1. CASE TooLate
    BY <1>2, <2>1 DEF TooLate, Session_
  <2>2. CASE BadRequest
    BY <1>2, <2>2 DEF BadRequest
  <2>3. CASE WrongCode
    <3> DEFINE n == session.attempts + 1
               over == n >= MaxAttempts
    <3>1. session' = [session EXCEPT !.attempts = n, !.failed = over]
      BY <2>3 DEF WrongCode
    <3>2. n \in 0 .. MaxAttempts /\ (~over => n < MaxAttempts)
      BY <1>2, PairingAssumption DEF Session_
    <3>3. over \in BOOLEAN
      OBVIOUS
    <3> HIDE DEF n, over
    <3> QED
      BY <1>2, <3>1, <3>2, <3>3 DEF Session_
  <2> QED
    BY <2>1, <2>2, <2>3
<1>4. session' # None /\ handler'.at = "listen" /\ handler' \in Handler_
  BY <1>1, <1>3, NoneAssumption DEF Listening, Handler_
<1>5. /\ conn' \in [Conns -> Request_ \cup {None}]
      /\ lap' \in [Devices -> {"off", "asking", "replacing", "moving"}]
      /\ \A c \in Conns : conn'[c] = IF c = handler.conn THEN None ELSE conn[c]
      /\ \A d \in Devices : lap'[d] \in {lap[d], "off"}
  BY <1>1, <1>2 DEF PairInv, PairTypeOK
<1>6. PairTypeOK'
  BY <1>1, <1>3, <1>4, <1>5 DEF PairInv, PairTypeOK
<1>7. Reading' /\ Written' /\ Replacing' /\ Listed' /\ NoOrphanKeys'
  BY <1>1, <1>4, <1>5 DEF PairInv, Reading, Written, Replacing, Listed, NoOrphanKeys,
     Handling
<1>8. Requests'
  <2>1. \A c \in Conns : c[1] \in Devices
    BY PairingAssumption
  <2> QED
    BY <1>1, <1>2, <1>3, <1>4, <1>5, <2>1 DEF PairInv, Requests
<1> QED
  BY <1>6, <1>7, <1>8 DEF PairInv

(* The right code: the server reads authorized_keys when no forget-device  *)
(* is at it.                                                               *)
LEMMA RightCodeKeeps == ASSUME ~ForgetOverlaps, PairInv, RightCode PROVE PairInv'
<1>1. /\ handler.at = "body" /\ forget.at = "idle"
      /\ handler' = [handler EXCEPT !.at = "writeKeys", !.keys = auth]
      /\ UNCHANGED <<auth, devices, ledgered, owned, torn, sessions, session, forget, conn, lap,
                     staged, kept, made, gone, kills>>
  BY DEF RightCode, Whole, serverDisk, laptop, held
<1>2. /\ handler' \in Handler_ /\ handler'.at = "writeKeys"
      /\ handler'.conn = handler.conn /\ handler'.keys = auth
  BY <1>1 DEF PairInv, PairTypeOK, Handler_
<1>3. PairTypeOK'
  BY <1>1, <1>2 DEF PairInv, PairTypeOK
<1>4. Reading' /\ Written' /\ Replacing' /\ Listed' /\ NoOrphanKeys'
  BY <1>1, <1>2 DEF PairInv, Reading, Written, Replacing, Listed, NoOrphanKeys,
     Handling
<1>5. Requests'
  BY <1>1, <1>2 DEF PairInv, Requests
<1> QED
  BY <1>3, <1>4, <1>5 DEF PairInv

(* The keys written are those the laptop has staged.                       *)
LEMMA WriteKeysKeeps == ASSUME PairInv, WriteKeys PROVE PairInv'
<1> DEFINE d == Device
           k == Request.key
<1>1. /\ handler.at = "writeKeys" /\ forget.at = "idle"
      /\ auth' = [auth EXCEPT ![d] = k] /\ gone' = [gone EXCEPT ![d] = "no"]
      /\ handler' = [handler EXCEPT !.at = "own", !.keys = None]
      /\ owned' = FALSE
      /\ UNCHANGED <<devices, ledgered, torn, sessions, session, forget, conn, lap,
                     staged, kept, made, kills>>
  BY DEF WriteKeys, laptop, held, PairInv, Reading, Handling
<1>2. /\ d \in Devices /\ k \in 1 .. MaxKeys /\ k = staged[d] /\ k # None
      /\ lap[d] \in {"off", "asking"}
  BY <1>1, InHand
<1>3. handler' \in Handler_ /\ handler'.at = "own" /\ handler'.conn = handler.conn
  BY <1>1 DEF PairInv, PairTypeOK, Handler_
<1>4. Device' = d /\ Request' = Request
  BY <1>1, <1>3 DEF Device, Request
<1> HIDE DEF d
<1>5. /\ auth' \in Accepted /\ gone' \in [Devices -> {"no", "begun", "done"}]
      /\ \A e \in Devices : /\ auth'[e] = IF e = d THEN k ELSE auth[e]
                            /\ gone'[e] = IF e = d THEN "no" ELSE gone[e]
  BY <1>1, <1>2, PairingAssumption DEF PairInv, PairTypeOK, Accepted, Keys
<1>6. PairTypeOK'
  BY <1>1, <1>3, <1>5 DEF PairInv, PairTypeOK
<1>7. Reading'
  BY <1>1, <1>3 DEF PairInv, Reading
<1>8. Requests'
  BY <1>1, <1>3 DEF PairInv, Requests
<1>9. Written'
  BY <1>2, <1>3, <1>4, <1>5 DEF Written
<1>10. Replacing' /\ NoOrphanKeys'
  BY <1>1, <1>2, <1>5 DEF PairInv, Replacing, NoOrphanKeys
<1>11. Listed'
  <2>1. \A e \in devices : e \in Devices
    BY DEF PairInv, PairTypeOK
  <2> QED
    BY <1>1, <1>2, <1>5, <2>1 DEF PairInv, Listed
<1> QED
  BY <1>6, <1>7, <1>8, <1>9, <1>10, <1>11 DEF PairInv

(* The file is its owner's again.                                          *)
LEMMA OwnKeysKeeps == ASSUME PairInv, OwnKeys PROVE PairInv'
<1>1. /\ handler.at = "own" /\ owned' = TRUE /\ torn' = FALSE /\ forget.at = "idle"
      /\ handler' = [handler EXCEPT !.at = "enter"]
      /\ UNCHANGED <<auth, devices, ledgered, sessions, session, forget, conn, lap,
                     staged, kept, made, gone, kills>>
  BY DEF OwnKeys, laptop, held, PairInv, Reading, Handling
<1>2. handler' \in Handler_ /\ handler'.at = "enter" /\ handler'.conn = handler.conn
  BY <1>1 DEF PairInv, PairTypeOK, Handler_
<1>3. PairTypeOK'
  BY <1>1, <1>2 DEF PairInv, PairTypeOK
<1>4. Reading' /\ Requests'
  BY <1>1, <1>2 DEF PairInv, Reading, Requests
<1>5. Written'
  BY <1>1, <1>2 DEF PairInv, Written, Request, Device
<1>6. Replacing' /\ Listed' /\ NoOrphanKeys'
  BY <1>1 DEF PairInv, Replacing, Listed, NoOrphanKeys
<1> QED
  BY <1>3, <1>4, <1>5, <1>6 DEF PairInv

(* The ledger is told before the device is listed.                         *)
LEMMA EnterKeeps == ASSUME PairInv, Enter PROVE PairInv'
<1>1. /\ handler.at = "enter" /\ ledgered' = ledgered \cup {Device}
      /\ handler' = [handler EXCEPT !.at = "record", !.devs = devices]
      /\ UNCHANGED <<auth, devices, owned, torn, sessions, session, forget, conn,
                     lap, staged, kept, made, gone, kills>>
  BY DEF Enter, laptop, held
<1>2. Device \in Devices
  BY <1>1, InHand
<1>3. /\ handler' \in Handler_ /\ handler'.at = "record"
      /\ handler'.conn = handler.conn /\ handler'.devs = devices
  BY <1>1 DEF PairInv, PairTypeOK, Handler_
<1>4. Device' = Device /\ Request' = Request
  BY <1>1, <1>3 DEF Device, Request
<1>5. PairTypeOK'
  BY <1>1, <1>2, <1>3 DEF PairInv, PairTypeOK
<1>6. Reading' /\ Replacing' /\ Listed' /\ NoOrphanKeys'
  BY <1>1, <1>3 DEF PairInv, Reading, Replacing, Listed, NoOrphanKeys, Handling
<1>7. Requests' /\ Written'
  BY <1>1, <1>3, <1>4 DEF PairInv, Requests, Written
<1> QED
  BY <1>5, <1>6, <1>7 DEF PairInv

(* The device is listed, and a laptop that still waits goes on.            *)
LEMMA RecordKeeps == ASSUME PairInv, Record PROVE PairInv'
<1> DEFINE d == Device
<1>1. /\ handler.at = "record" /\ devices' = devices \cup {d}
      /\ session' = [session EXCEPT !.result = d] /\ handler' = Listening
      /\ conn' = [conn EXCEPT ![handler.conn] = None]
      /\ lap' = [lap EXCEPT ![d] = IF Request.open THEN "replacing" ELSE @]
      /\ UNCHANGED <<auth, ledgered, owned, torn, sessions, forget, staged, kept, made, gone,
         kills>>
  BY DEF Record, Answer, held, PairInv, Reading
<1>2. /\ session \in Session_ /\ d \in Devices /\ handler.conn \in Conns
      /\ Request.key = staged[d] /\ staged[d] # None /\ lap[d] \in {"off", "asking"}
  BY <1>1, InHand
<1>3. auth[d] = staged[d] /\ gone[d] = "no" /\ d \in ledgered
  BY <1>1, <1>2 DEF PairInv, Written
<1>4. forget.at = "idle"
  BY <1>1 DEF PairInv, Reading, Handling
<1> HIDE DEF d
<1>5. /\ session' \in Session_ /\ session'.result = d /\ d # None
      /\ session'.failed = session.failed /\ session'.attempts = session.attempts
  BY <1>1, <1>2, PairingAssumption DEF Session_
<1>6. session' # None /\ handler'.at = "listen" /\ handler' \in Handler_
  BY <1>1, <1>5, NoneAssumption DEF Listening, Handler_
<1>7. /\ conn' \in [Conns -> Request_ \cup {None}]
      /\ \A c \in Conns : conn'[c] = IF c = handler.conn THEN None ELSE conn[c]
  BY <1>1, <1>2 DEF PairInv, PairTypeOK
<1>8. /\ lap' \in [Devices -> {"off", "asking", "replacing", "moving"}]
      /\ \A e \in Devices \ {d} : lap'[e] = lap[e]
      /\ lap'[d] # "moving"
  BY <1>1, <1>2 DEF PairInv, PairTypeOK
<1>9. PairTypeOK'
  BY <1>1, <1>2, <1>5, <1>6, <1>7, <1>8 DEF PairInv, PairTypeOK
<1>10. Reading' /\ Written' /\ NoOrphanKeys'
  BY <1>1, <1>4, <1>6 DEF PairInv, Reading, Written, NoOrphanKeys, Handling
<1>11. Requests'
  <2>1. session # None
    BY <1>2, NoneAssumption
  <2> QED
    BY <1>5, <1>6, <2>1 DEF PairInv, Requests
<1>12. Replacing'
  BY <1>1, <1>2, <1>3, <1>8 DEF PairInv, Replacing
<1>13. Listed'
  BY <1>1, <1>2, <1>3 DEF PairInv, Listed
<1> QED
  BY <1>9, <1>10, <1>11, <1>12, <1>13 DEF PairInv

(* The session ends, or its process is killed: whoever waited is told off. *)
LEMMA EndSessionKeeps == ASSUME PairInv, Close \/ KillServer PROVE PairInv'
<1>1. /\ session' = None /\ handler' = Listening
      /\ conn' = [c \in Conns |-> None]
      /\ lap' = [d \in Devices |-> IF lap[d] = "asking" THEN "off" ELSE lap[d]]
      /\ kills' = kills \/ (kills' = kills + 1 /\ kills < MaxKills)
      /\ torn' \in BOOLEAN /\ (torn => torn') /\ (handler.at = "own" => torn')
      /\ UNCHANGED <<auth, devices, ledgered, owned, sessions, forget, staged, kept, made,
         gone>>
  BY DEF Close, KillServer, Reset, serverDisk, held, PairInv, PairTypeOK
<1>2. handler'.at = "listen" /\ handler' \in Handler_
  BY <1>1 DEF Listening, Handler_
<1>3. PairTypeOK'
  <2>1. kills' \in 0 .. MaxKills
    BY <1>1, PairingAssumption DEF PairInv, PairTypeOK
  <2>2. lap' \in [Devices -> {"off", "asking", "replacing", "moving"}]
    BY <1>1 DEF PairInv, PairTypeOK
  <2> QED
    BY <1>1, <1>2, <2>1, <2>2 DEF PairInv, PairTypeOK
<1>4. Reading' /\ Requests' /\ Written' /\ Replacing' /\ Listed' /\ NoOrphanKeys'
  BY <1>1, <1>2 DEF PairInv, Reading, Requests, Written, Replacing, Listed,
     NoOrphanKeys,
     Handling
<1> QED
  BY <1>3, <1>4 DEF PairInv

-----------------------------------------------------------------------------
(* forget-device *)

(* The command reads what is there.                                        *)
LEMMA ForgetKeeps ==
  ASSUME ~ForgetOverlaps, PairInv, NEW d \in Devices, Forget(d) PROVE PairInv'
<1>1. /\ forget.at = "idle" /\ d \in devices /\ ~Handling
      /\ forget' = [at |-> "keys", dev |-> d, keys |-> auth, devs |-> None,
                    owned |-> FALSE]
      /\ gone' = [gone EXCEPT ![d] = "begun"]
      /\ UNCHANGED <<auth, devices, ledgered, owned, torn, sessions, session, handler, conn, lap,
                     staged, kept, made, kills>>
  BY DEF Forget, serverDisk, laptop, held
<1>2. /\ gone' \in [Devices -> {"no", "begun", "done"}] /\ forget' \in Forget_
      /\ \A e \in Devices : gone'[e] = IF e = d THEN "begun" ELSE gone[e]
  BY <1>1 DEF PairInv, PairTypeOK, Forget_
<1>3. PairTypeOK'
  BY <1>1, <1>2 DEF PairInv, PairTypeOK
<1>4. Reading' /\ Requests' /\ Written' /\ Replacing' /\ NoOrphanKeys'
  BY <1>1, <1>2 DEF PairInv, Reading, Requests, Written, Replacing, NoOrphanKeys,
     Handling
<1>5. Listed'
  BY <1>1, <1>2 DEF PairInv, PairTypeOK, Listed
<1> QED
  BY <1>3, <1>4, <1>5 DEF PairInv

(* The device's lines go, and nobody else's,                               *)
LEMMA ForgetKeysKeeps == ASSUME PairInv, ForgetKeys PROVE PairInv'
<1> DEFINE d == forget.dev
<1>1. /\ forget.at = "keys" /\ ~Handling /\ d \in Devices /\ gone[d] = "begun"
      /\ UNCHANGED <<devices, ledgered, torn, sessions, session, handler, conn, lap,
                     staged, kept, made, gone, kills>>
  BY DEF ForgetKeys, laptop, held, PairInv, Reading
<1>2. /\ forget' \in Forget_ /\ forget'.at \in {"own", "devices"} /\ forget'.dev = d
      /\ forget'.at = "devices" => forget'.devs = devices /\ owned' = owned
      /\ forget'.at = "own" => forget'.owned = owned
      /\ owned' \in BOOLEAN
      /\ auth' = IF auth[d] = None THEN auth ELSE [auth EXCEPT ![d] = None]
  <2>1. /\ forget \in Forget_ /\ forget.keys = auth /\ devices \subseteq Devices
        /\ owned \in BOOLEAN
    BY <1>1 DEF PairInv, PairTypeOK, Reading
  <2>2. CASE auth[d] = None
    <3>1. /\ forget' = [forget EXCEPT !.at = "devices", !.keys = None, !.devs = devices]
          /\ UNCHANGED <<auth, owned>>
      BY <2>1, <2>2 DEF ForgetKeys
    <3> QED
      BY <2>1, <2>2, <3>1 DEF Forget_
  <2>3. CASE auth[d] # None
    <3>1. /\ forget' = [forget EXCEPT !.at = "own", !.keys = None, !.owned = owned]
          /\ auth' = [auth EXCEPT ![d] = None] /\ owned' = FALSE
      BY <2>1, <2>3 DEF ForgetKeys
    <3> QED
      BY <2>1, <2>3, <3>1 DEF Forget_
  <2> QED
    BY <2>2, <2>3
<1>3. owned \/ torn
  BY <1>1 DEF PairInv, Reading, Handling
<1> HIDE DEF d
<1>4. /\ auth' \in Accepted
      /\ \A e \in Devices : auth'[e] = IF e = d THEN None ELSE auth[e]
  BY <1>1, <1>2 DEF PairInv, PairTypeOK, Accepted, Keys
<1>5. PairTypeOK'
  BY <1>1, <1>2, <1>4 DEF PairInv, PairTypeOK
<1>6. Reading' /\ Requests' /\ Written'
  BY <1>1, <1>2, <1>3, <1>4 DEF PairInv, Reading, Requests, Written, Handling
<1>7. Replacing' /\ NoOrphanKeys'
  BY <1>1, <1>4 DEF PairInv, Replacing, NoOrphanKeys
<1>8. Listed'
  <2>1. \A e \in devices : e \in Devices
    BY DEF PairInv, PairTypeOK
  <2> QED
    BY <1>1, <1>4, <2>1 DEF PairInv, Listed
<1> QED
  BY <1>5, <1>6, <1>7, <1>8 DEF PairInv

(* and the file is given back to its owner.                                *)
LEMMA OwnAsBeforeKeeps == ASSUME PairInv, OwnAsBefore PROVE PairInv'
<1>1. /\ forget.at = "own" /\ owned' = forget.owned
      /\ forget' = [forget EXCEPT !.at = "devices", !.devs = devices]
      /\ UNCHANGED <<auth, devices, ledgered, torn, sessions, session, handler, conn,
                     lap, staged, kept, made, gone, kills>>
  BY DEF OwnAsBefore, laptop, held
<1>2. /\ forget' \in Forget_ /\ forget'.at = "devices" /\ forget'.dev = forget.dev
      /\ forget'.devs = devices /\ owned' \in BOOLEAN
  BY <1>1 DEF PairInv, PairTypeOK, Forget_
<1>3. PairTypeOK'
  BY <1>1, <1>2 DEF PairInv, PairTypeOK
<1>4. Reading' /\ Requests' /\ Written'
  BY <1>1, <1>2 DEF PairInv, Reading, Requests, Written, Handling
<1>5. Replacing' /\ Listed' /\ NoOrphanKeys'
  BY <1>1 DEF PairInv, Replacing, Listed, NoOrphanKeys
<1> QED
  BY <1>3, <1>4, <1>5 DEF PairInv

(* Then it is not listed any more.                                         *)
LEMMA ForgetDeviceKeeps == ASSUME PairInv, ForgetDevice PROVE PairInv'
<1> DEFINE d == forget.dev
<1>1. /\ forget.at = "devices" /\ ~Handling /\ d \in Devices /\ gone[d] = "begun"
      /\ auth[d] = None
      /\ devices' = devices \ {d} /\ gone' = [gone EXCEPT ![d] = "done"]
      /\ forget' = Resting
      /\ UNCHANGED <<auth, ledgered, owned, torn, sessions, session, handler, conn, lap, staged,
                     kept, made, kills>>
  <2>1. /\ forget.at = "devices" /\ ~Handling /\ d \in Devices /\ gone[d] = "begun"
        /\ auth[d] = None
    BY DEF ForgetDevice, PairInv, Reading
  <2>2. gone' = [gone EXCEPT ![d] = "done"]
    BY <2>1 DEF ForgetDevice, PairInv, PairTypeOK
  <2> QED
    BY <2>1, <2>2 DEF ForgetDevice, laptop, held, PairInv, Reading
<1>2. forget' \in Forget_ /\ forget'.at = "idle"
  BY <1>1 DEF Forget_, Resting
<1> HIDE DEF d
<1>3. /\ gone' \in [Devices -> {"no", "begun", "done"}]
      /\ \A e \in Devices : gone'[e] = IF e = d THEN "done" ELSE gone[e]
  BY <1>1 DEF PairInv, PairTypeOK
<1>4. PairTypeOK'
  BY <1>1, <1>2, <1>3 DEF PairInv, PairTypeOK
<1>5. Reading' /\ Requests' /\ Written' /\ NoOrphanKeys'
  BY <1>1, <1>2 DEF PairInv, Reading, Requests, Written, NoOrphanKeys, Handling
<1>6. Replacing'
  BY <1>1, <1>3 DEF PairInv, Replacing
<1>7. Listed'
  <2>1. \A e \in devices : e \in Devices
    BY DEF PairInv, PairTypeOK
  <2> QED
    BY <1>1, <1>3, <2>1 DEF PairInv, Listed
<1> QED
  BY <1>4, <1>5, <1>6, <1>7 DEF PairInv

(* The command is killed.                                                  *)
LEMMA KillForgetKeeps == ASSUME PairInv, KillForget PROVE PairInv'
<1>1. /\ kills < MaxKills /\ kills' = kills + 1 /\ forget' = Resting
      /\ torn' = (torn \/ forget.at = "own")
      /\ UNCHANGED <<auth, devices, ledgered, owned, sessions, session, handler, conn, lap,
                     staged, kept, made, gone>>
  BY DEF KillForget, serverDisk, laptop, held
<1>2. forget' \in Forget_ /\ forget'.at = "idle" /\ kills' \in 0 .. MaxKills
  BY <1>1, PairingAssumption DEF Forget_, Resting, PairInv, PairTypeOK
<1>3. PairTypeOK'
  BY <1>1, <1>2 DEF PairInv, PairTypeOK
<1>4. Reading' /\ Requests' /\ Written' /\ Replacing' /\ Listed' /\ NoOrphanKeys'
  BY <1>1, <1>2 DEF PairInv, Reading, Requests, Written, Replacing, Listed,
     NoOrphanKeys,
     Handling, Request, Device
<1> QED
  BY <1>3, <1>4 DEF PairInv

-----------------------------------------------------------------------------
(* The invariant holds in every reachable state.                           *)
LEMMA PairAlways == ASSUME ~ForgetOverlaps PROVE PairSpec => []PairInv
<1>1. PairInit => PairInv
  <2> SUFFICES ASSUME PairInit PROVE PairInv
    OBVIOUS
  <2>1. /\ handler.at = "listen" /\ forget.at = "idle"
        /\ handler \in Handler_ /\ forget \in Forget_
    BY DEF PairInit, Listening, Resting, Handler_, Forget_
  <2>2. PairTypeOK
    <3>1. owned \in BOOLEAN /\ torn \in BOOLEAN
      BY DEF PairInit
    <3>2. 0 \in 0 .. MaxSessions /\ 0 \in 0 .. MaxKeys /\ 0 \in 0 .. MaxKills
      BY PairingAssumption
    <3> QED
      BY <2>1, <3>1, <3>2 DEF PairInit, PairTypeOK, Accepted, Keys, Codes
  <2>3. Reading /\ Requests /\ Written /\ Replacing /\ Listed /\ NoOrphanKeys
    BY <2>1 DEF PairInit, Reading, Requests, Written, Replacing, Listed,
       NoOrphanKeys, Handling
  <2> QED
    BY <2>2, <2>3 DEF PairInv
<1>2. PairInv /\ [PairNext]_pairVars => PairInv'
  <2> SUFFICES ASSUME PairInv, [PairNext]_pairVars PROVE PairInv'
    OBVIOUS
  <2>1. ASSUME NEW d \in Devices, Laptop(d) PROVE PairInv'
    <3>1. ASSUME NEW c \in ConnsOf(d), NEW code \in {0, sessions}, Ask(c, code)
          PROVE  PairInv'
      BY <3>1, AskKeeps DEF ConnsOf
    <3>2. CASE Waiting(d)
      BY <3>2, SendRequestKeeps, LeaveKeeps DEF Waiting, ConnsOf
    <3>3. CASE AskInVain(d) \/ DropOld(d) \/ KeepNew(d) \/ KillLaptop(d)
      BY <3>3, AskInVainKeeps, DropOldKeeps, KeepNewKeeps, LeaveKeeps
    <3> QED
      BY <2>1, <3>1, <3>2, <3>3 DEF Laptop
  <2>2. CASE OpenSession \/ Expire \/ KillServer
    BY <2>2, OpenSessionKeeps, ExpireKeeps, EndSessionKeeps
  <2>3. CASE Serving
    BY <2>3, AcceptKeeps, RefuseKeeps, RightCodeKeeps, WriteKeysKeeps, OwnKeysKeeps, EnterKeeps,
       RecordKeeps, EndSessionKeeps DEF Serving
  <2>4. ASSUME NEW d \in Devices, Forget(d) PROVE PairInv'
    BY <2>4, ForgetKeeps
  <2>5. CASE Forgetting \/ KillForget
    BY <2>5, ForgetKeysKeeps, OwnAsBeforeKeeps, ForgetDeviceKeeps, KillForgetKeeps
       DEF Forgetting
  <2>6. CASE UNCHANGED pairVars
    <3>1. UNCHANGED <<auth, devices, ledgered, owned, torn, sessions, session, handler, forget,
                    conn, lap, staged, kept, made, gone, kills>>
      BY <2>6 DEF pairVars, serverDisk, laptop, held
    <3>2. PairTypeOK' /\ Reading' /\ Requests' /\ Written'
      BY <3>1 DEF PairInv, PairTypeOK, Reading, Requests, Written, Handling, Request,
         Device
    <3>3. Replacing' /\ Listed' /\ NoOrphanKeys'
      BY <3>1 DEF PairInv, Replacing, Listed, NoOrphanKeys
    <3> QED
      BY <3>2, <3>3 DEF PairInv
  <2> QED
    BY <2>1, <2>2, <2>3, <2>4, <2>5, <2>6 DEF PairNext
<1> QED
  BY <1>1, <1>2, PTL DEF PairSpec

(* The state variables keep their types and the counters their bounds.     *)
THEOREM TypeCorrect == ASSUME ~ForgetOverlaps PROVE PairSpec => []PairTypeOK
<1>1. PairInv => PairTypeOK
  BY DEF PairInv
<1> QED
  BY <1>1, PairAlways, PTL

(***************************************************************************)
(* A key the server accepts under a laptop's name is always one which that *)
(* laptop holds, however many of its requests are late, lost or repeated   *)
(* and wherever either machine is killed: unless a forget-device runs in   *)
(* the middle of a request.                                                *)
(***************************************************************************)
THEOREM KeysAreHeld == ASSUME ~ForgetOverlaps PROVE PairSpec => []NoOrphanKeys
<1>1. PairInv => NoOrphanKeys
  BY DEF PairInv
<1> QED
  BY <1>1, PairAlways, PTL

(***************************************************************************)
(* A laptop that has replaced its keys logs in with them until its device  *)
(* is forgotten: it never drops keys that are accepted for keys that are   *)
(* not, and the file they are in belongs to its owner; but for the moment  *)
(* in which that is written, and after a kill at that moment.              *)
(***************************************************************************)
THEOREM PairedLogsIn == ASSUME ~ForgetOverlaps PROVE PairSpec => []PairedCanLogin
<1>1. PairInv => PairedCanLogin
  BY DEF PairInv, Replacing, Reading, PairedCanLogin
<1> QED
  BY <1>1, PairAlways, PTL

(***************************************************************************)
(* A listed device has keys and an entry in the ledger, whatever was       *)
(* killed between the three files; only a forget-device cut short leaves   *)
(* one listed without keys.  The keys of a forgotten device stay revoked   *)
(* until it pairs anew: other laptops' requests do not write them back.    *)
(***************************************************************************)
THEOREM ListAndKeysAgree == ASSUME ~ForgetOverlaps PROVE PairSpec => []ListMatchesKeys
<1>1. PairInv => ListMatchesKeys
  BY DEF PairInv, Listed, ListMatchesKeys
<1> QED
  BY <1>1, PairAlways, PTL

=============================================================================
