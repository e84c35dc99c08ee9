---------------------------- MODULE Notify_proofs ---------------------------
(***************************************************************************)
(* Proofs about Notify, for any number of messages, keys, deliverers and   *)
(* slips, with or without outages.                                         *)
(***************************************************************************)
EXTENDS Notify, FiniteSetTheorems, SequenceTheorems, WellFoundedInduction,
        TLAPS

(***************************************************************************)
(* What the listings of the deliverers hold: messages that were dropped,   *)
(* and at least one while a deliverer is at work on one.                   *)
(***************************************************************************)
AtWork == {"admitted", "unspool", "done"}

Shape ==
  /\ Len(kind) <= MaxMsgs
  /\ \A d \in Deliverers :
       /\ todo[d].retry \subseteq Dropped /\ todo[d].spool \subseteq Dropped
       /\ pc[d] \in AtWork => todo[d] # Empty

-----------------------------------------------------------------------------
(* Operators *)

(* A set of message numbers that is not empty has a least member. *)
LEMMA LeastIsFirst ==
  ASSUME NEW M, M \subseteq Nat, M # {}
  PROVE  Least(M) \in M /\ \A m \in M : Least(M) <= m
<1> DEFINE Before == {ss \in Nat \X Nat : ss[1] < ss[2]}
<1>1. IsWellFoundedOn(Before, Nat)
  BY NatLessThanWellFounded DEF OpToRel
<1>2. \E n \in M : \A m \in M : <<m, n>> \notin Before
  <2> HIDE DEF Before
  <2> QED
    BY <1>1, WFMin
<1>3. PICK n \in M : \A m \in M : <<m, n>> \notin Before
  BY <1>2
<1>4. \A m \in M : n <= m
  <2> SUFFICES ASSUME NEW m \in M PROVE n <= m
    OBVIOUS
  <2>1. m \in Nat /\ n \in Nat /\ <<m, n>> \notin Before
    BY <1>3
  <2>2. ~(m < n)
    BY <2>1
  <2> QED
    BY <2>1, <2>2
<1> QED
  BY <1>4 DEF Least

(* The file a deliverer is at is one of its listing. *)
LEMMA CurrentIsListed ==
  ASSUME TypeOK, NEW d \in Deliverers, todo[d] # Empty
  PROVE  Current(d) \in todo[d].retry \cup todo[d].spool
<1>1. /\ todo[d] \in [retry : SUBSET (1 .. MaxMsgs), spool : SUBSET (1 .. MaxMsgs)]
      /\ todo[d].retry \subseteq Nat /\ todo[d].spool \subseteq Nat
  BY ConstantsAssumption DEF TypeOK, Listing
<1>2. todo[d].retry # {} \/ todo[d].spool # {}
  BY <1>1 DEF Empty
<1>3. CASE FromRetry(d)
  BY <1>1, <1>3, LeastIsFirst DEF FromRetry, Current
<1>4. CASE ~FromRetry(d)
  BY <1>1, <1>2, <1>4, LeastIsFirst DEF FromRetry, Current
<1> QED
  BY <1>3, <1>4

(* Removing it takes nothing else away, from the disk or the listings. *)
LEMMA RemoveTakesCurrent ==
  ASSUME TypeOK, Shape, NEW d \in Deliverers, RemoveCurrent(d)
  PROVE  /\ retry' \subseteq retry /\ spool' \subseteq spool
         /\ spool \cup retry \subseteq spool' \cup retry' \cup {Current(d)}
         /\ todo' \in [Deliverers -> Listing]
         /\ \A e \in Deliverers : e # d => todo'[e] = todo[e]
         /\ todo'[d].retry \subseteq todo[d].retry
         /\ todo'[d].spool \subseteq todo[d].spool
<1> DEFINE m == Current(d)
<1> HIDE DEF m
<1>1. todo \in [Deliverers -> [retry : SUBSET (1 .. MaxMsgs),
                                spool : SUBSET (1 .. MaxMsgs)]]
  BY DEF TypeOK, Listing
<1>2. CASE FromRetry(d)
  <2>1. /\ retry' = retry \ {m} /\ UNCHANGED spool
        /\ todo' = [todo EXCEPT ![d].retry = @ \ {m}]
    BY <1>2 DEF RemoveCurrent, m
  <2> QED
    BY <1>1, <2>1 DEF Listing, m
<1>3. CASE ~FromRetry(d)
  <2>1. /\ spool' = spool \ {m} /\ UNCHANGED retry
        /\ todo' = [todo EXCEPT ![d].spool = @ \ {m}]
    BY <1>3 DEF RemoveCurrent, m
  <2> QED
    BY <1>1, <2>1 DEF Listing, m
<1> QED
  BY <1>2, <1>3

(* A deliverer's listing holds messages that were dropped. *)
LEMMA CurrentWasDropped ==
  ASSUME TypeOK, Shape, NEW d \in Deliverers, todo[d] # Empty
  PROVE  Current(d) \in Dropped
  BY CurrentIsListed DEF Shape

-----------------------------------------------------------------------------
(* Types *)

TypeInv == TypeOK /\ Shape

(* The first state has the types and the shape. *)
LEMMA TypeInit == Init => TypeInv
<1> SUFFICES ASSUME Init PROVE TypeInv
  OBVIOUS
<1>1. TypeOK
  BY ConstantsAssumption DEF Init, TypeOK, Listing, Empty
<1>2. Shape
  BY ConstantsAssumption DEF Init, Shape, Empty, AtWork
<1> QED
  BY <1>1, <1>2 DEF TypeInv

(* A message that is dropped into the spool makes room for one more. *)
LEMMA EnqueueGrows ==
  ASSUME TypeInv, NEW sev \in Severities, NEW key \in Keys \cup {NoKey},
         Enqueue(sev, key)
  PROVE  /\ kind' \in Seq([sev : Severities, key : Keys \cup {NoKey}])
         /\ Len(kind') = Len(kind) + 1 /\ Len(kind) \in Nat
         /\ Dropped \subseteq Dropped' /\ Len(kind) + 1 \in Dropped'
         /\ \A m \in Dropped : kind'[m] = kind[m]
         /\ Dropped' = Dropped \cup {Len(kind) + 1}
<1> DEFINE S == [sev : Severities, key : Keys \cup {NoKey}]
           e == [sev |-> sev, key |-> key]
<1>1. kind \in Seq(S) /\ e \in S /\ kind' = Append(kind, e)
  BY DEF TypeInv, TypeOK, Enqueue
<1> HIDE DEF S, e
<1>2. /\ kind' \in Seq(S) /\ Len(kind') = Len(kind) + 1 /\ Len(kind) \in Nat
      /\ \A m \in 1 .. Len(kind) : kind'[m] = kind[m]
  BY <1>1, AppendProperties, LenProperties
<1> QED
  BY <1>2 DEF Dropped, S

(* No step leaves them. *)
LEMMA TypeStep == TypeInv /\ [Next]_vars => TypeInv'
<1> SUFFICES ASSUME TypeInv, [Next]_vars PROVE TypeInv'
  OBVIOUS
<1> USE DEF TypeInv, dirs, workers, daily
<1>1. ASSUME NEW sev \in Severities, NEW key \in Keys \cup {NoKey},
             Enqueue(sev, key)
      PROVE  TypeInv'
  <2>1. /\ kind' \in Seq([sev : Severities, key : Keys \cup {NoKey}])
        /\ Len(kind') <= MaxMsgs
        /\ Dropped \subseteq Dropped' /\ spool' \subseteq Dropped'
    <3>1. /\ kind' \in Seq([sev : Severities, key : Keys \cup {NoKey}])
          /\ Len(kind') = Len(kind) + 1 /\ Len(kind) \in Nat
          /\ Dropped \subseteq Dropped' /\ Len(kind) + 1 \in Dropped'
      BY <1>1, EnqueueGrows
    <3>2. Len(kind) < MaxMsgs /\ spool' = spool \cup {Len(kind) + 1}
      BY <1>1 DEF Enqueue
    <3>3. Len(kind') <= MaxMsgs
      BY <3>1, <3>2, ConstantsAssumption
    <3> QED
      BY <3>1, <3>2, <3>3 DEF TypeOK
  <2>2. sent' \in Seq(Dropped')
    BY <1>1, <2>1, SeqMonotonic DEF Enqueue, TypeOK
  <2>3. TypeOK'
    BY <1>1, <2>1, <2>2 DEF Enqueue, TypeOK, Listing
  <2>4. Shape'
    BY <1>1, <2>1 DEF Enqueue, Shape, AtWork, Empty
  <2> QED
    BY <2>3, <2>4
<1>2. ASSUME NEW d \in Deliverers, Acquire(d) PROVE TypeInv'
  <2>1. UNCHANGED Dropped
    BY <1>2 DEF Acquire, Dropped
  <2>2. [retry |-> retry, spool |-> spool] \in Listing
    <3>1. Len(kind) \in Nat /\ Len(kind) <= MaxMsgs
      BY LenProperties DEF TypeOK, Shape
    <3>2. Dropped \subseteq 1 .. MaxMsgs
      BY <3>1, ConstantsAssumption DEF Dropped
    <3> QED
      BY <3>2 DEF TypeOK, Listing
  <2>3. todo' \in [Deliverers -> Listing]
    BY <1>2, <2>2 DEF Acquire, TypeOK
  <2>4. TypeOK'
    BY <1>2, <2>1, <2>3 DEF Acquire, TypeOK, Goto
  <2>5. Shape'
    BY <1>2, <2>1 DEF Acquire, TypeOK, Shape, AtWork, Goto, Empty
  <2> QED
    BY <2>4, <2>5
<1>3. ASSUME NEW d \in Deliverers, Invalid(d) PROVE TypeInv'
  <2>1. UNCHANGED <<Dropped, pc, kind>> /\ pc[d] = "take"
    BY <1>3 DEF Invalid, Dropped
  <2>2. TypeOK'
    BY <1>3, <2>1, RemoveTakesCurrent DEF Invalid, TypeOK
  <2>3. Shape'
    BY <1>3, <2>1, RemoveTakesCurrent DEF Invalid, Shape, AtWork
  <2> QED
    BY <2>2, <2>3
<1>4. ASSUME NEW d \in Deliverers, Suppress(d) PROVE TypeInv'
  <2>1. UNCHANGED <<Dropped, pc, kind>> /\ pc[d] = "take" /\ todo[d] # Empty
    BY <1>4 DEF Suppress, Dropped, More
  <2>2. Current(d) \in Dropped
    BY <2>1, CurrentWasDropped
  <2>3. TypeOK'
    BY <1>4, <2>1, <2>2, RemoveTakesCurrent DEF Suppress, TypeOK
  <2>4. Shape'
    BY <1>4, <2>1, RemoveTakesCurrent DEF Suppress, Shape, AtWork
  <2> QED
    BY <2>3, <2>4
<1>5. ASSUME NEW d \in Deliverers, Admit(d) PROVE TypeInv'
  <2>1. UNCHANGED Dropped /\ todo[d] # Empty
    BY <1>5 DEF Admit, Dropped, More
  <2>2. kind[Current(d)].key \in Keys \cup {NoKey}
    <3>1. Current(d) \in 1 .. Len(kind)
      BY <2>1, CurrentWasDropped DEF Dropped
    <3>2. kind[Current(d)] \in [sev : Severities, key : Keys \cup {NoKey}]
      BY <3>1, ElementOfSeq DEF TypeOK
    <3> QED
      BY <3>2
  <2>3. cooling' \subseteq Keys
    BY <1>5, <2>2 DEF Admit, Recorded, TypeOK
  <2>4. TypeOK'
    BY <1>5, <2>1, <2>3 DEF Admit, TypeOK, Goto
  <2>5. Shape'
    BY <1>5, <2>1 DEF Admit, TypeOK, Shape, AtWork, Goto
  <2> QED
    BY <2>4, <2>5
<1>6. ASSUME NEW d \in Deliverers, Info(d) PROVE TypeInv'
  <2>1. UNCHANGED Dropped /\ todo[d] # Empty
    BY <1>6 DEF Info, Dropped, Shape, AtWork
  <2>2. digest' \subseteq Dropped
    BY <1>6, <2>1, CurrentWasDropped DEF Info, TypeOK
  <2>3. TypeOK'
    BY <1>6, <2>1, <2>2 DEF Info, TypeOK, Goto
  <2>4. Shape'
    BY <1>6, <2>1 DEF Info, TypeOK, Shape, AtWork, Goto
  <2> QED
    BY <2>3, <2>4
<1>7. ASSUME NEW d \in Deliverers, Accept(d), todo[d] # Empty, UNCHANGED kind
      PROVE  sent' \in Seq(Dropped') /\ told' \in [Keys -> Nat]
  <2>1. sent' = Append(sent, Current(d)) /\ UNCHANGED Dropped
    BY <1>7 DEF Accept, Dropped
  <2>2. sent' \in Seq(Dropped')
    BY <1>7, <2>1, CurrentWasDropped, AppendProperties DEF TypeOK
  <2>3. told' \in [Keys -> Nat]
    BY <1>7 DEF Accept, TypeOK
  <2> QED
    BY <2>2, <2>3
<1>8. ASSUME NEW d \in Deliverers, SendOk(d) PROVE TypeInv'
  <2>1. UNCHANGED Dropped /\ todo[d] # Empty
    BY <1>8 DEF SendOk, Dropped, Shape, AtWork
  <2>2. sent' \in Seq(Dropped') /\ told' \in [Keys -> Nat]
    BY <1>7, <1>8, <2>1 DEF SendOk
  <2>3. TypeOK'
    BY <1>8, <2>1, <2>2 DEF SendOk, TypeOK, Goto
  <2>4. Shape'
    BY <1>8, <2>1 DEF SendOk, TypeOK, Shape, AtWork, Goto
  <2> QED
    BY <2>3, <2>4
<1>9. ASSUME NEW d \in Deliverers, SendFails(d) PROVE TypeInv'
  <2>1. UNCHANGED <<kind, Dropped>> /\ todo[d] # Empty
    BY <1>9 DEF SendFails, Dropped, Shape, AtWork
  <2>2. /\ sent' \in Seq(Dropped') /\ told' \in [Keys -> Nat]
        /\ slips' \in 0 .. MaxSlips
    BY <1>7, <1>9, <2>1, ConstantsAssumption DEF SendFails, TypeOK
  <2>3. \/ /\ pc' = [pc EXCEPT ![d] = "take"] /\ UNCHANGED retry
           /\ todo' = [todo EXCEPT ![d] = Empty]
        \/ /\ pc' = [pc EXCEPT ![d] = "unspool"] /\ UNCHANGED todo
           /\ retry' = retry \cup {Current(d)}
    BY <1>9, Zenon DEF SendFails, KeptForRetry, Goto
  <2>4. Empty \in Listing
    BY DEF Listing, Empty
  <2>5. Current(d) \in Dropped
    BY <2>1, CurrentWasDropped
  <2>6. /\ retry' \subseteq Dropped
        /\ pc' \in [Deliverers -> {"idle", "take", "admitted", "unspool", "done"}]
        /\ todo' \in [Deliverers -> Listing]
    BY <2>3, <2>4, <2>5 DEF TypeOK
  <2>7. UNCHANGED <<spool, cooling, digest, lock, flush, fread, mailed, dropped>>
    BY <1>9 DEF SendFails
  <2>8. TypeOK'
    BY <2>1, <2>2, <2>6, <2>7 DEF TypeOK
  <2>9. Shape'
    <3>1. /\ Empty.retry = {} /\ Empty.spool = {}
          /\ "take" \notin AtWork
      BY DEF Empty, AtWork
    <3>2. ASSUME NEW e \in Deliverers
          PROVE  /\ todo'[e].retry \subseteq Dropped
                 /\ todo'[e].spool \subseteq Dropped
                 /\ pc'[e] \in AtWork => todo'[e] # Empty
      <4>1. CASE e = d
        BY <2>1, <2>3, <3>1, <4>1 DEF TypeOK, Shape
      <4>2. CASE e # d
        BY <2>3, <4>2 DEF TypeOK, Shape
      <4> QED
        BY <4>1, <4>2
    <3> QED
      BY <2>1, <3>2 DEF Shape
  <2> QED
    BY <2>8, <2>9
<1>10. ASSUME NEW d \in Deliverers, Unspool(d) PROVE TypeInv'
  <2>1. UNCHANGED Dropped
    BY <1>10 DEF Unspool, Dropped
  <2>2. TypeOK'
    BY <1>10, <2>1 DEF Unspool, Abandoned, TypeOK, Goto, Listing, Empty
  <2>3. Shape'
    BY <1>10, <2>1 DEF Unspool, Abandoned, TypeOK, Shape, AtWork, Goto, Empty
  <2> QED
    BY <2>2, <2>3
<1>11. ASSUME NEW d \in Deliverers, Remove(d) PROVE TypeInv'
  <2>1. UNCHANGED <<Dropped, kind>> /\ RemoveCurrent(d)
    BY <1>11 DEF Remove, Dropped
  <2>2. TypeOK'
    BY <1>11, <2>1, RemoveTakesCurrent DEF Remove, TypeOK, Goto
  <2>3. Shape'
    BY <1>11, <2>1, RemoveTakesCurrent DEF Remove, TypeOK, Shape, AtWork, Goto
  <2> QED
    BY <2>2, <2>3
<1>12. ASSUME NEW d \in Deliverers, Release(d) PROVE TypeInv'
  BY <1>12 DEF Release, TypeOK, Shape, Dropped, AtWork, Goto
<1>13. ASSUME NEW d \in Deliverers, Crash(d) PROVE TypeInv'
  <2>1. UNCHANGED Dropped /\ slips' \in 0 .. MaxSlips
    BY <1>13, ConstantsAssumption DEF Crash, Dropped, TypeOK
  <2>2. TypeOK'
    BY <1>13, <2>1 DEF Crash, LockAfterCrash, TypeOK, Goto, Listing, Empty
  <2>3. Shape'
    BY <1>13, <2>1 DEF Crash, TypeOK, Shape, AtWork, Goto, Empty
  <2> QED
    BY <2>2, <2>3
<1>14. ASSUME NEW k \in Keys, CooldownEnds(k) PROVE TypeInv'
  BY <1>14 DEF CooldownEnds, TypeOK, Shape, Dropped, AtWork
<1>15. CASE FlushRead
  BY <1>15 DEF FlushRead, TypeOK, Shape, Dropped, AtWork
<1>16. CASE FlushSend
  BY <1>16 DEF FlushSend, TypeOK, Shape, Dropped, AtWork
<1>17. CASE FlushTruncate
  BY <1>17 DEF FlushTruncate, TypeOK, Shape, Dropped, AtWork
<1>18. CASE FlushDies
  BY <1>18, ConstantsAssumption DEF FlushDies, TypeOK, Shape, Dropped, AtWork
<1>19. CASE UNCHANGED vars
  BY <1>19 DEF vars, TypeOK, Shape, Dropped, AtWork
<1> QED
  BY <1>1, <1>2, <1>3, <1>4, <1>5, <1>6, <1>8, <1>9, <1>10, <1>11, <1>12,
     <1>13, <1>14, <1>15, <1>16, <1>17, <1>18, <1>19 DEF Next, Deliver

(* Every state variable has its type in every reachable state.             *)
THEOREM TypeCorrect == Spec => []TypeOK
<1>1. TypeInv => TypeOK
  BY DEF TypeInv
<1> QED
  BY <1>1, TypeInit, TypeStep, PTL DEF Spec

-----------------------------------------------------------------------------
(***************************************************************************)
(* Cooldowns.  Whoever is at work holds the lock, and so nobody else sends *)
(* a message with a key that was just found not to be cooling.             *)
(***************************************************************************)
KeyOf(d) == kind[Current(d)].key

CooldownInv ==
  /\ TypeInv
  /\ \A d \in Deliverers : pc[d] # "idle" => lock = d
  /\ \A k \in Keys : told[k] <= 1 /\ (told[k] = 1 => k \in cooling)
  /\ \A d \in Deliverers :
       pc[d] = "admitted" /\ KeyOf(d) \in Keys =>
         KeyOf(d) \in cooling /\ told[KeyOf(d)] = 0

(* The file a deliverer is at changes only with its listing. *)
LEMMA CurrentStays ==
  ASSUME NEW d \in Deliverers, todo'[d] = todo[d] PROVE Current(d)' = Current(d)
  BY DEF Current, FromRetry

(* No step lets a key through twice. *)
LEMMA CooldownStep == CooldownInv /\ [Next]_vars => CooldownInv'
<1> SUFFICES ASSUME CooldownInv, [Next]_vars PROVE CooldownInv'
  OBVIOUS
<1>1. TypeInv'
  BY TypeStep DEF CooldownInv
<1>2. ASSUME NEW sev \in Severities, NEW key \in Keys \cup {NoKey},
             Enqueue(sev, key)
      PROVE  CooldownInv'
  <2>1. UNCHANGED <<cooling, lock, pc, todo, told>>
    BY <1>2 DEF Enqueue, workers
  <2>2. ASSUME NEW d \in Deliverers, pc[d] = "admitted"
        PROVE  UNCHANGED KeyOf(d)
    <3>1. Current(d) \in Dropped
      BY <2>2, CurrentWasDropped DEF CooldownInv, TypeInv, Shape, AtWork
    <3>2. Current(d)' = Current(d)
      BY <2>1, CurrentStays
    <3>3. kind'[Current(d)] = kind[Current(d)]
      BY <1>2, <3>1, EnqueueGrows DEF CooldownInv
    <3> QED
      BY <3>2, <3>3 DEF KeyOf
  <2> QED
    BY <1>1, <2>1, <2>2 DEF CooldownInv
<1>3. ASSUME NEW d \in Deliverers, Acquire(d) PROVE CooldownInv'
  <2>1. /\ UNCHANGED <<kind, cooling, told>> /\ lock = NoOne /\ lock' = d
        /\ pc' = [pc EXCEPT ![d] = "take"]
    BY <1>3 DEF Acquire, LockFree, Goto
  <2>2. \A e \in Deliverers : pc[e] = "idle"
    BY <2>1, ConstantsAssumption DEF CooldownInv
  <2>3. \A e \in Deliverers : pc'[e] = IF e = d THEN "take" ELSE "idle"
    BY <2>1, <2>2 DEF CooldownInv, TypeInv, TypeOK
  <2> QED
    BY <1>1, <2>1, <2>3 DEF CooldownInv
<1>4. ASSUME NEW d \in Deliverers, NEW label,
             pc' = [pc EXCEPT ![d] = label], label # "admitted",
             UNCHANGED <<kind, cooling, told>>,
             lock' = IF label = "idle" THEN NoOne ELSE lock, pc[d] # "idle"
      PROVE  CooldownInv'
  <2>1. \A e \in Deliverers : pc[e] # "idle" => e = d
    BY <1>4 DEF CooldownInv
  <2>2. \A e \in Deliverers : pc'[e] = IF e = d THEN label ELSE pc[e]
    BY <1>4 DEF CooldownInv, TypeInv, TypeOK
  <2>3. \A e \in Deliverers : pc'[e] # "idle" => lock' = e
    BY <1>4, <2>1, <2>2 DEF CooldownInv
  <2>4. \A e \in Deliverers : pc'[e] # "admitted"
    BY <1>4, <2>1, <2>2
  <2> QED
    BY <1>1, <1>4, <2>3, <2>4 DEF CooldownInv
<1>5. ASSUME NEW d \in Deliverers, Invalid(d) \/ Suppress(d) PROVE CooldownInv'
  <2>1. UNCHANGED <<kind, cooling, told, lock, pc>> /\ pc[d] = "take"
    BY <1>5 DEF Invalid, Suppress
  <2>2. pc' = [pc EXCEPT ![d] = "take"]
    BY <2>1 DEF CooldownInv, TypeInv, TypeOK
  <2> QED
    BY <1>4, <2>1, <2>2
<1>6. ASSUME NEW d \in Deliverers, Admit(d) PROVE CooldownInv'
  <2>1. /\ UNCHANGED <<kind, todo, told, lock>> /\ pc[d] = "take"
        /\ KeyOf(d) \notin cooling /\ cooling' = Recorded(KeyOf(d))
        /\ pc' = [pc EXCEPT ![d] = "admitted"]
    BY <1>6 DEF Admit, Goto, KeyOf
  <2>2. \A e \in Deliverers : pc[e] # "idle" => e = d
    BY <2>1 DEF CooldownInv
  <2>3. \A e \in Deliverers : pc'[e] = IF e = d THEN "admitted" ELSE "idle"
    BY <2>1, <2>2 DEF CooldownInv, TypeInv, TypeOK
  <2>4. cooling \subseteq cooling' /\ (KeyOf(d) \in Keys => KeyOf(d) \in cooling')
    BY <2>1, ConstantsAssumption DEF Recorded
  <2>5. KeyOf(d) \in Keys => told[KeyOf(d)] = 0
    BY <2>1 DEF CooldownInv, TypeInv, TypeOK
  <2>6. KeyOf(d)' = KeyOf(d)
    BY <2>1, CurrentStays DEF KeyOf
  <2> QED
    BY <1>1, <2>1, <2>2, <2>3, <2>4, <2>5, <2>6 DEF CooldownInv
<1>7. ASSUME NEW d \in Deliverers, Info(d) PROVE CooldownInv'
  <2>1. pc' = [pc EXCEPT ![d] = "done"] /\ pc[d] = "admitted"
        /\ UNCHANGED <<kind, cooling, told, lock>>
    BY <1>7 DEF Info, Goto
  <2> QED
    BY <1>4, <2>1
<1>8. ASSUME NEW d \in Deliverers, NEW label, Accept(d), pc[d] = "admitted",
             pc' = [pc EXCEPT ![d] = label], label \notin {"admitted", "idle"},
             UNCHANGED <<kind, cooling, lock>>
      PROVE  CooldownInv'
  <2>1. \A e \in Deliverers : pc[e] # "idle" => e = d
    BY <1>8 DEF CooldownInv
  <2>2. \A e \in Deliverers : pc'[e] = IF e = d THEN label ELSE "idle"
    BY <1>8, <2>1 DEF CooldownInv, TypeInv, TypeOK
  <2>3. \A k \in Keys : told'[k] = told[k] + IF k = KeyOf(d) THEN 1 ELSE 0
    BY <1>8 DEF Accept, KeyOf
  <2>4. \A k \in Keys : told'[k] <= 1 /\ (told'[k] = 1 => k \in cooling')
    BY <1>8, <2>3, SMTT(20) DEF CooldownInv, TypeInv, TypeOK
  <2> QED
    BY <1>1, <1>8, <2>2, <2>4 DEF CooldownInv
<1>9. ASSUME NEW d \in Deliverers, SendOk(d) PROVE CooldownInv'
  <2>1. /\ pc' = [pc EXCEPT ![d] = "done"] /\ pc[d] = "admitted" /\ Accept(d)
        /\ UNCHANGED <<kind, cooling, lock>>
    BY <1>9 DEF SendOk, Goto
  <2>2. "done" \notin {"admitted", "idle"}
    OBVIOUS
  <2> QED
    BY <1>8, <2>1, <2>2
<1>10. ASSUME NEW d \in Deliverers, SendFails(d) PROVE CooldownInv'
  <2>1. PICK label \in {"take", "unspool"} : pc' = [pc EXCEPT ![d] = label]
    BY <1>10 DEF SendFails, Goto
  <2>2. /\ pc[d] = "admitted" /\ UNCHANGED <<kind, cooling, lock>>
        /\ Accept(d) \/ UNCHANGED told
    BY <1>10 DEF SendFails
  <2>3. label # "admitted" /\ label # "idle"
    BY <2>1
  <2> QED
    BY <1>4, <1>8, <2>1, <2>2, <2>3
<1>11. ASSUME NEW d \in Deliverers, Unspool(d) \/ Remove(d) PROVE CooldownInv'
  <2>1. /\ pc' = [pc EXCEPT ![d] = "take"] /\ pc[d] # "idle"
        /\ UNCHANGED <<kind, cooling, told, lock>>
    BY <1>11 DEF Unspool, Remove, Goto
  <2> QED
    BY <1>4, <2>1
<1>12. ASSUME NEW d \in Deliverers, Release(d) \/ Crash(d) PROVE CooldownInv'
  <2>1. /\ pc' = [pc EXCEPT ![d] = "idle"] /\ pc[d] # "idle" /\ lock' = NoOne
        /\ UNCHANGED <<kind, cooling, told>>
    BY <1>12 DEF Release, Crash, LockAfterCrash, Goto
  <2> QED
    BY <1>4, <2>1
<1>13. ASSUME NEW k \in Keys, CooldownEnds(k) PROVE CooldownInv'
  <2>1. /\ UNCHANGED <<kind, lock, pc, todo>> /\ lock = NoOne
        /\ told' = [told EXCEPT ![k] = 0] /\ cooling' = cooling \ {k}
    BY <1>13 DEF CooldownEnds, workers
  <2>2. \A d \in Deliverers : pc'[d] = "idle"
    BY <2>1, ConstantsAssumption DEF CooldownInv
  <2>3. \A j \in Keys : told'[j] <= 1 /\ (told'[j] = 1 => j \in cooling')
    BY <2>1 DEF CooldownInv, TypeInv, TypeOK
  <2> QED
    BY <1>1, <2>2, <2>3 DEF CooldownInv
<1>14. ASSUME UNCHANGED <<kind, cooling, lock, pc, todo, told>>
       PROVE  CooldownInv'
  <2>1. \A d \in Deliverers : UNCHANGED KeyOf(d)
    BY <1>14, CurrentStays DEF KeyOf
  <2> QED
    BY <1>1, <1>14, <2>1 DEF CooldownInv
<1>15. CASE FlushRead \/ FlushSend \/ FlushTruncate \/ FlushDies
  BY <1>14, <1>15 DEF FlushRead, FlushSend, FlushTruncate, FlushDies, workers
<1>16. CASE UNCHANGED vars
  BY <1>14, <1>16 DEF vars, workers
<1> QED
  BY <1>2, <1>3, <1>5, <1>6, <1>7, <1>9, <1>10, <1>11, <1>12, <1>13, <1>15,
     <1>16 DEF Next, Deliver

(***************************************************************************)
(* While a key's cooldown runs, the owner gets at most one urgent message  *)
(* with it, however many deliverers run, die or lose the channel's answer. *)
(***************************************************************************)
THEOREM CooldownHolds == Spec => []OncePerCooldown
<1>1. Init => CooldownInv
  <2> SUFFICES ASSUME Init PROVE CooldownInv
    OBVIOUS
  <2>1. TypeInv
    BY TypeInit
  <2>2. /\ \A d \in Deliverers : pc[d] = "idle"
        /\ \A k \in Keys : told[k] = 0
    BY DEF Init
  <2> QED
    BY <2>1, <2>2 DEF CooldownInv
<1>2. CooldownInv => OncePerCooldown
  BY DEF CooldownInv, OncePerCooldown
<1> QED
  BY <1>1, <1>2, CooldownStep, PTL DEF Spec

-----------------------------------------------------------------------------
(***************************************************************************)
(* Loss.  A message that counts is queued until it is settled, and what is *)
(* settled stays so.  The daily digest truncates its file without a lock:  *)
(* with it (Flushing) only urgent messages count.                          *)
(***************************************************************************)
Counts(m) ==
  kind[m].sev = "urgent" \/ (kind[m].sev = "info" /\ ~Flushing)

Settled(m) ==
  \/ m \in dropped
  \/ kind[m].sev = "urgent" /\ m \in SentSet
  \/ kind[m].sev = "info" /\ m \in digest \cup mailed

LossInv ==
  /\ TypeInv
  /\ ~Flushing => flush = "idle"
  /\ \A m \in Dropped : Counts(m) => m \in spool \cup retry \/ Settled(m)
  /\ \A d \in Deliverers, m \in Dropped :
       m = Current(d) /\ Counts(m) =>
         /\ pc[d] = "unspool" => m \in retry \/ Settled(m)
         /\ pc[d] = "done" => Settled(m)

(* What the channel accepts joins what it has accepted. *)
LEMMA AcceptAdds ==
  ASSUME TypeInv, NEW d \in Deliverers, todo[d] # Empty, Accept(d)
  PROVE  SentSet' = SentSet \cup {Current(d)}
<1> DEFINE c == Current(d)
<1>1. sent \in Seq(Dropped) /\ c \in Dropped /\ sent' = Append(sent, c)
  BY CurrentWasDropped DEF TypeInv, TypeOK, Accept
<1> HIDE DEF c
<1>2. /\ Len(sent') = Len(sent) + 1 /\ Len(sent) \in Nat
      /\ \A i \in 1 .. Len(sent) : sent'[i] = sent[i]
      /\ sent'[Len(sent) + 1] = c
  BY <1>1, AppendProperties, LenProperties
<1>3. 1 .. Len(sent') = (1 .. Len(sent)) \cup {Len(sent) + 1}
  BY <1>2
<1> QED
  BY <1>2, <1>3 DEF SentSet, c

(* A message that is in the spool or the retry directory and counts leaves *)
(* them only when it is settled; a settled one stays settled.              *)
Holds(m) ==
  /\ m \in Dropped' /\ kind'[m] = kind[m]
  /\ Settled(m) => Settled(m)'
  /\ m \in retry => m \in retry' \/ Settled(m)'
  /\ m \in spool => m \in spool' \cup retry' \/ Settled(m)'

(* No step drops a message that counts and is not settled. *)
LEMMA NothingSlips ==
  ASSUME LossInv, [Next]_vars, NEW m \in Dropped, Counts(m)
  PROVE  Holds(m)
<1> USE DEF LossInv, TypeInv, dirs, workers, daily
<1>1. ASSUME NEW sev \in Severities, NEW key \in Keys \cup {NoKey},
             Enqueue(sev, key)
      PROVE  Holds(m)
  <2>1. m \in Dropped' /\ kind'[m] = kind[m]
    BY <1>1, EnqueueGrows
  <2>2. UNCHANGED <<dropped, SentSet, digest, mailed, retry>> /\ spool \subseteq spool'
    BY <1>1 DEF Enqueue, SentSet
  <2> QED
    BY <2>1, <2>2 DEF Holds, Settled
<1>2. ASSUME NEW d \in Deliverers, RemoveCurrent(d), UNCHANGED kind,
             Settled(m) => Settled(m)',
             m = Current(d) => Settled(m)'
      PROVE  Holds(m)
  <2>1. spool \cup retry \subseteq spool' \cup retry' \cup {Current(d)}
    BY <1>2, RemoveTakesCurrent
  <2>2. retry \subseteq retry' \cup {Current(d)}
    BY <1>2 DEF RemoveCurrent
  <2> QED
    BY <1>2, <2>1, <2>2 DEF Holds, Dropped
<1>3. ASSUME UNCHANGED kind, UNCHANGED spool, retry \subseteq retry',
             dropped \subseteq dropped', SentSet \subseteq SentSet',
             digest \cup mailed \subseteq digest' \cup mailed'
      PROVE  Holds(m)
  BY <1>3 DEF Holds, Settled, Dropped
<1>4. ASSUME NEW d \in Deliverers, Invalid(d) PROVE Holds(m)
  <2>1. UNCHANGED <<kind, dropped, sent, digest, mailed>> /\ RemoveCurrent(d)
        /\ kind[Current(d)].sev = "invalid"
    BY <1>4 DEF Invalid
  <2>2. m # Current(d)
    BY <2>1 DEF Counts
  <2> QED
    BY <1>2, <2>1, <2>2 DEF Settled, SentSet
<1>5. ASSUME NEW d \in Deliverers, Suppress(d) PROVE Holds(m)
  <2>1. UNCHANGED <<kind, sent, digest, mailed>> /\ RemoveCurrent(d)
        /\ dropped' = dropped \cup {Current(d)}
    BY <1>5 DEF Suppress
  <2> QED
    BY <1>2, <2>1 DEF Settled, SentSet
<1>6. ASSUME NEW d \in Deliverers, Remove(d) PROVE Holds(m)
  <2>1. UNCHANGED <<kind, dropped, sent, digest, mailed>> /\ RemoveCurrent(d)
        /\ pc[d] = "done"
    BY <1>6 DEF Remove
  <2>2. Settled(m) => Settled(m)'
    BY <2>1 DEF Settled, SentSet
  <2>3. m = Current(d) => Settled(m)
    BY <2>1
  <2> QED
    BY <1>2, <2>1, <2>2, <2>3
<1>7. ASSUME NEW d \in Deliverers, Unspool(d) PROVE Holds(m)
  <2>1. UNCHANGED <<kind, retry, dropped, sent, digest, mailed>>
        /\ pc[d] = "unspool" /\ spool' = spool \ {Current(d)}
    BY <1>7 DEF Unspool
  <2>2. Settled(m) => Settled(m)'
    BY <2>1 DEF Settled, SentSet
  <2>3. m = Current(d) => m \in retry \/ Settled(m)
    BY <2>1
  <2> QED
    BY <2>1, <2>2, <2>3 DEF Holds, Dropped
<1>8. ASSUME NEW d \in Deliverers, SendOk(d) \/ SendFails(d) PROVE Holds(m)
  <2>1. todo[d] # Empty
    BY <1>8 DEF SendOk, SendFails, Shape, AtWork
  <2>2. SentSet \subseteq SentSet'
    BY <1>8, <2>1, AcceptAdds DEF SendOk, SendFails, SentSet
  <2>3. /\ UNCHANGED <<kind, spool, dropped, digest, mailed>>
        /\ retry \subseteq retry'
    BY <1>8 DEF SendOk, SendFails, KeptForRetry
  <2> QED
    BY <1>3, <2>2, <2>3
<1>9. ASSUME NEW d \in Deliverers,
             Acquire(d) \/ Admit(d) \/ Info(d) \/ Release(d) \/ Crash(d)
      PROVE  Holds(m)
  <2>1. UNCHANGED <<kind, spool, retry, dropped, SentSet, mailed>>
        /\ digest \subseteq digest'
    BY <1>9 DEF Acquire, Admit, Info, Release, Crash, SentSet
  <2> QED
    BY <1>3, <2>1
<1>10. ASSUME NEW k \in Keys, CooldownEnds(k) PROVE Holds(m)
  BY <1>3, <1>10 DEF CooldownEnds, SentSet
<1>11. CASE FlushRead \/ FlushSend \/ FlushDies
  BY <1>3, <1>11 DEF FlushRead, FlushSend, FlushDies, SentSet
<1>12. CASE FlushTruncate
  <2>1. UNCHANGED <<kind, spool, retry, dropped, SentSet>> /\ Flushing
    BY <1>12, ConstantsAssumption DEF FlushTruncate, SentSet
  <2> QED
    BY <2>1 DEF Holds, Settled, Counts, Dropped
<1>13. CASE UNCHANGED vars
  BY <1>3, <1>13 DEF vars, SentSet
<1> QED
  BY <1>1, <1>4, <1>5, <1>6, <1>7, <1>8, <1>9, <1>10, <1>11, <1>12, <1>13
     DEF Next, Deliver

(* What a message is does not change, and a new one is in the spool. *)
LEMMA KindStays ==
  ASSUME TypeInv, [Next]_vars
  PROVE  /\ \A m \in Dropped : m \in Dropped' /\ kind'[m] = kind[m]
         /\ \A m \in Dropped' : m \in Dropped \/ m \in spool'
<1>1. CASE UNCHANGED kind
  BY <1>1 DEF Dropped
<1>2. ASSUME NEW sev \in Severities, NEW key \in Keys \cup {NoKey},
             Enqueue(sev, key)
      PROVE  /\ \A m \in Dropped : m \in Dropped' /\ kind'[m] = kind[m]
             /\ \A m \in Dropped' : m \in Dropped \/ m \in spool'
  <2>1. Len(kind) + 1 \in spool'
    BY <1>2 DEF Enqueue
  <2> QED
    BY <1>2, <2>1, EnqueueGrows
<1> QED
  BY <1>1, <1>2 DEF Next, Deliver, Acquire, Invalid, Suppress, Admit, Info,
     SendOk, SendFails, Unspool, Remove, Release, Crash, CooldownEnds,
     FlushRead, FlushSend, FlushTruncate, FlushDies, vars

(* So what is queued or settled is accounted for after it. *)
LEMMA LossStep == LossInv /\ [Next]_vars => LossInv'
<1> SUFFICES ASSUME LossInv, [Next]_vars PROVE LossInv'
  OBVIOUS
<1>1. TypeInv /\ TypeInv'
  BY TypeStep DEF LossInv
<1>2. ~Flushing => flush' = "idle"
  BY DEF LossInv, Next, Deliver, Enqueue, Acquire, Invalid, Suppress, Admit,
     Info, SendOk, SendFails, Unspool, Remove, Release, Crash, CooldownEnds,
     FlushRead, FlushSend, FlushTruncate, FlushDies, vars, daily
<1>3. ASSUME NEW m \in Dropped', Counts(m)'
      PROVE  m \in spool' \cup retry' \/ Settled(m)'
  <2>1. CASE m \in Dropped
    <3>1. Counts(m)
      BY <1>1, <1>3, <2>1, KindStays DEF Counts
    <3> QED
      BY <2>1, <3>1, NothingSlips DEF Holds, LossInv
  <2> QED
    BY <1>1, <2>1, KindStays
<1>4. ASSUME NEW d \in Deliverers, NEW m \in Dropped', m = Current(d)', Counts(m)'
      PROVE  /\ pc'[d] = "unspool" => m \in retry' \/ Settled(m)'
             /\ pc'[d] = "done" => Settled(m)'
  <2>1. CASE pc'[d] \notin {"unspool", "done"}
    BY <2>1
  <2>2. CASE /\ pc[d] \in {"unspool", "done"}
             /\ pc'[d] = pc[d] /\ todo'[d] = todo[d]
    <3>1. m = Current(d)
      BY <1>4, <2>2, CurrentStays
    <3>2. m \in Dropped
      BY <1>1, <2>2, <3>1, CurrentWasDropped DEF TypeInv, Shape, AtWork
    <3>3. Counts(m)
      BY <1>1, <1>4, <3>2, KindStays DEF Counts
    <3> QED
      BY <2>2, <3>1, <3>2, <3>3, NothingSlips DEF LossInv, Holds
  <2>3. CASE pc[d] = "admitted" /\ todo'[d] = todo[d] /\ (Info(d) \/ SendOk(d) \/ SendFails(d))
    <3>1. m = Current(d) /\ todo[d] # Empty
      BY <1>1, <1>4, <2>3, CurrentStays DEF TypeInv, Shape, AtWork
    <3>2. UNCHANGED kind
      BY <2>3 DEF Info, SendOk, SendFails
    <3>3. CASE Info(d)
      BY <3>1, <3>2, <3>3 DEF Info, Settled
    <3>4. CASE SendOk(d)
      <4>1. m \in SentSet'
        BY <1>1, <3>1, <3>4, AcceptAdds DEF SendOk
      <4> QED
        BY <3>1, <3>2, <3>4, <4>1 DEF SendOk, Settled
    <3>5. CASE SendFails(d) /\ pc'[d] = "unspool"
      <4>1. ~FromRetry(d)
        BY <1>1, <3>5 DEF SendFails, Goto, TypeInv, TypeOK
      <4> QED
        BY <3>1, <3>5, <4>1 DEF SendFails, KeptForRetry
    <3>6. CASE SendFails(d) /\ pc'[d] # "unspool"
      BY <1>1, <3>6 DEF SendFails, Goto, TypeInv, TypeOK
    <3> QED
      BY <2>3, <3>3, <3>4, <3>5, <3>6
  <2>4. ASSUME NEW e \in Deliverers,
               Acquire(e) \/ Invalid(e) \/ Suppress(e) \/ Admit(e) \/ Unspool(e)
                 \/ Remove(e) \/ Release(e) \/ Crash(e)
        PROVE  \/ pc'[d] \notin {"unspool", "done"}
               \/ pc'[d] = pc[d] /\ todo'[d] = todo[d]
    <3>1. CASE e # d
      <4>1. pc'[d] = pc[d]
        BY <1>1, <2>4, <3>1
           DEF Acquire, Invalid, Suppress, Admit, Unspool, Remove, Release,
               Crash, Goto, TypeInv, TypeOK
      <4>2. CASE Invalid(e) \/ Suppress(e) \/ Remove(e)
        BY <1>1, <3>1, <4>1, <4>2, RemoveTakesCurrent
           DEF Invalid, Suppress, Remove, TypeInv
      <4>3. CASE Acquire(e) \/ Admit(e) \/ Unspool(e) \/ Release(e) \/ Crash(e)
        BY <1>1, <3>1, <4>1, <4>3
           DEF Acquire, Admit, Unspool, Release, Crash, TypeInv, TypeOK
      <4> QED
        BY <2>4, <4>2, <4>3
    <3>2. CASE e = d
      BY <1>1, <2>4, <3>2
         DEF Acquire, Invalid, Suppress, Admit, Unspool, Remove, Release,
             Crash, Goto, TypeInv, TypeOK
    <3> QED
      BY <3>1, <3>2
  <2>5. ASSUME NEW e \in Deliverers, Info(e) \/ SendOk(e) \/ SendFails(e)
        PROVE  \/ pc'[d] \notin {"unspool", "done"}
               \/ pc'[d] = pc[d] /\ todo'[d] = todo[d]
               \/ /\ pc[d] = "admitted" /\ todo'[d] = todo[d]
                  /\ Info(d) \/ SendOk(d) \/ SendFails(d)
    <3>1. /\ pc[e] = "admitted"
          /\ \/ todo' = todo
             \/ todo' = [todo EXCEPT ![e] = Empty] /\ pc' = [pc EXCEPT ![e] = "take"]
          /\ \E l \in {"take", "unspool", "done"} : pc' = [pc EXCEPT ![e] = l]
      BY <2>5, Zenon DEF Info, SendOk, SendFails, Goto
    <3>2. CASE e # d
      BY <1>1, <3>1, <3>2 DEF TypeInv, TypeOK
    <3>3. CASE e = d
      BY <1>1, <2>5, <3>1, <3>3 DEF TypeInv, TypeOK
    <3> QED
      BY <3>2, <3>3
  <2>6. CASE UNCHANGED <<pc, todo>>
    BY <2>1, <2>2, <2>6
  <2> QED
    BY <2>1, <2>2, <2>3, <2>4, <2>5, <2>6
       DEF Next, Deliver, Enqueue, CooldownEnds, FlushRead, FlushSend,
           FlushTruncate, FlushDies, vars, workers
<1> QED
  BY <1>1, <1>2, <1>3, <1>4 DEF LossInv

(* At first there is nothing to lose. *)
LEMMA LossInit == Init => LossInv
<1> SUFFICES ASSUME Init PROVE LossInv
  OBVIOUS
<1>1. TypeInv
  BY TypeInit
<1>2. Dropped = {}
  BY DEF Init, Dropped
<1>3. flush = "idle"
  BY DEF Init
<1> QED
  BY <1>1, <1>2, <1>3 DEF LossInv

(* And so it stays. *)
LEMMA LossAlways == Spec => []LossInv
  BY LossInit, LossStep, PTL DEF Spec

(***************************************************************************)
(* An outage of the channel, or a deliverer that dies anywhere, loses no   *)
(* urgent message; the daily digest does not change that.                  *)
(***************************************************************************)
THEOREM NoUrgentLoss == Spec => []NothingUrgentLost
<1>1. LossInv => NothingUrgentLost
  BY DEF LossInv, NothingUrgentLost, Counts, Settled, Accounted
<1> QED
  BY <1>1, LossAlways, PTL

(***************************************************************************)
(* Neither is any other message lost as long as no digest run truncates    *)
(* the file.                                                               *)
(***************************************************************************)
THEOREM NoLoss == ASSUME ~Flushing PROVE Spec => []NothingLost
<1>1. LossInv => NothingLost
  <2> SUFFICES ASSUME LossInv, NEW m \in Dropped, kind[m].sev # "invalid"
               PROVE  m \in Accounted
    BY DEF NothingLost
  <2>1. kind[m].sev \in {"urgent", "info", "invalid"}
    <3>1. kind[m] \in [sev : Severities, key : Keys \cup {NoKey}]
      BY ElementOfSeq DEF LossInv, TypeInv, TypeOK, Dropped
    <3> QED
      BY <3>1, ConstantsAssumption
  <2> QED
    BY <2>1 DEF LossInv, Counts, Settled, Accounted
<1> QED
  BY <1>1, LossAlways, PTL

-----------------------------------------------------------------------------
(***************************************************************************)
(* The queue.  Whoever is at work has the whole retry directory in its     *)
(* listing, and of the spool all but what came after; and nothing in the   *)
(* spool is older than what waits for a retry.                             *)
(***************************************************************************)
Listed(d) ==
  pc[d] # "idle" /\ todo[d] # Empty =>
    /\ todo[d].retry = IF pc[d] = "unspool" THEN {} ELSE retry
    /\ todo[d].spool \subseteq spool
    /\ \A n \in todo[d].spool, m \in spool \ todo[d].spool : n < m

QueueInv ==
  /\ TypeInv
  /\ \A d \in Deliverers : pc[d] # "idle" => lock = d
  /\ \A d \in Deliverers : Listed(d)
  /\ \A r \in retry, s \in spool : r <= s

(* The lock lets one deliverer work at a time. *)
LEMMA OneAtWork ==
  ASSUME QueueInv, NEW d \in Deliverers, pc[d] # "idle"
  PROVE  \A e \in Deliverers : e # d => pc[e] = "idle"
  BY DEF QueueInv

(* What is queued are numbers of messages. *)
LEMMA QueuedAreNumbers ==
  ASSUME TypeInv
  PROVE  /\ spool \subseteq Nat /\ retry \subseteq Nat /\ Len(kind) \in Nat
         /\ \A m \in spool \cup retry : m <= Len(kind)
  BY LenProperties DEF TypeInv, TypeOK, Dropped

(* The file a deliverer is at is the oldest one queued. *)
LEMMA CurrentIsOldest ==
  ASSUME QueueInv, NEW d \in Deliverers, pc[d] # "idle", todo[d] # Empty
  PROVE  /\ Current(d) \in Nat
         /\ \A m \in spool : Current(d) <= m
         /\ \A m \in retry : pc[d] # "unspool" => Current(d) <= m
         /\ FromRetry(d) => pc[d] # "unspool" /\ Current(d) \in retry
         /\ ~FromRetry(d) =>
              /\ Current(d) \in spool /\ Current(d) \in todo[d].spool
              /\ todo[d].retry = {} /\ (pc[d] # "unspool" => retry = {})
<1>1. /\ spool \subseteq Nat /\ retry \subseteq Nat
      /\ todo[d].retry \subseteq Nat /\ todo[d].spool \subseteq Nat
      /\ todo[d].retry # {} \/ todo[d].spool # {}
  BY QueuedAreNumbers DEF QueueInv, TypeInv, TypeOK, Listing, Empty
<1>2. /\ todo[d].retry = IF pc[d] = "unspool" THEN {} ELSE retry
      /\ todo[d].spool \subseteq spool
      /\ \A n \in todo[d].spool, m \in spool \ todo[d].spool : n < m
      /\ \A r \in retry, s \in spool : r <= s
  BY DEF QueueInv, Listed
<1>3. CASE FromRetry(d)
  <2>1. /\ Current(d) \in todo[d].retry
        /\ \A m \in todo[d].retry : Current(d) <= m
    BY <1>1, <1>3, LeastIsFirst DEF Current, FromRetry
  <2> QED
    BY <1>1, <1>2, <1>3, <2>1
<1>4. CASE ~FromRetry(d)
  <2>1. /\ Current(d) \in todo[d].spool /\ todo[d].retry = {}
        /\ \A m \in todo[d].spool : Current(d) <= m
    BY <1>1, <1>4, LeastIsFirst DEF Current, FromRetry
  <2>2. \A m \in spool : Current(d) <= m
    <3> SUFFICES ASSUME NEW m \in spool PROVE Current(d) <= m
      OBVIOUS
    <3>1. CASE m \in todo[d].spool
      BY <2>1, <3>1
    <3>2. CASE m \notin todo[d].spool
      <4>1. Current(d) < m /\ Current(d) \in Nat /\ m \in Nat
        BY <1>1, <1>2, <2>1, <3>2
      <4> QED
        BY <4>1
    <3> QED
      BY <3>1, <3>2
  <2> QED
    BY <1>1, <1>2, <1>4, <2>1, <2>2
<1> QED
  BY <1>3, <1>4

(* Nothing a step does disturbs that order. *)
LEMMA QueueStep == QueueInv /\ [Next]_vars => QueueInv'
<1> SUFFICES ASSUME QueueInv, [Next]_vars PROVE QueueInv'
  OBVIOUS
<1> USE DEF dirs, workers, daily
<1>1. TypeInv /\ TypeInv'
  BY TypeStep DEF QueueInv
<1>2. /\ pc \in [Deliverers -> {"idle", "take", "admitted", "unspool", "done"}]
      /\ todo \in [Deliverers -> [retry : SUBSET (1 .. MaxMsgs),
                                  spool : SUBSET (1 .. MaxMsgs)]]
  BY <1>1 DEF TypeInv, TypeOK, Listing
<1>3. ASSUME NEW d \in Deliverers, \A e \in Deliverers : e # d => pc'[e] = "idle",
             pc'[d] # "idle" => lock' = d, Listed(d)',
             \A r \in retry', s \in spool' : r <= s
      PROVE  QueueInv'
  BY <1>1, <1>3 DEF QueueInv, Listed
<1>4. ASSUME NEW sev \in Severities, NEW key \in Keys \cup {NoKey},
             Enqueue(sev, key)
      PROVE  QueueInv'
  <2>1. /\ spool' = spool \cup {Len(kind) + 1}
        /\ UNCHANGED <<retry, lock, pc, todo>>
    BY <1>4 DEF Enqueue
  <2>2. \A m \in spool \cup retry : m < Len(kind) + 1
    BY <1>1, QueuedAreNumbers
  <2>3. ASSUME NEW d \in Deliverers PROVE Listed(d)'
    <3> SUFFICES ASSUME pc[d] # "idle", todo[d] # Empty
                 PROVE  /\ todo[d].retry = IF pc[d] = "unspool" THEN {} ELSE retry
                        /\ todo[d].spool \subseteq spool'
                        /\ \A n \in todo[d].spool, m \in spool' \ todo[d].spool :
                             n < m
      BY <2>1 DEF Listed
    <3> QED
      BY <2>1, <2>2 DEF QueueInv, Listed
  <2>4. \A r \in retry', s \in spool' : r <= s
    <3> SUFFICES ASSUME NEW r \in retry, NEW s \in spool' PROVE r <= s
      BY <2>1
    <3>1. CASE s \in spool
      BY <3>1 DEF QueueInv
    <3>2. CASE s = Len(kind) + 1
      BY <1>1, <2>2, <3>2, QueuedAreNumbers
    <3> QED
      BY <2>1, <3>1, <3>2
  <2> QED
    BY <1>1, <2>1, <2>3, <2>4 DEF QueueInv
<1>5. ASSUME NEW d \in Deliverers, Acquire(d) PROVE QueueInv'
  <2>1. /\ lock = NoOne /\ lock' = d /\ UNCHANGED <<retry, spool>>
        /\ pc' = [pc EXCEPT ![d] = "take"]
        /\ todo' = [todo EXCEPT ![d] = [retry |-> retry, spool |-> spool]]
    BY <1>5 DEF Acquire, LockFree, Goto
  <2>2. \A e \in Deliverers : pc[e] = "idle"
    BY <2>1, ConstantsAssumption DEF QueueInv
  <2>3. /\ pc'[d] = "take" /\ todo'[d].retry = retry' /\ todo'[d].spool = spool'
        /\ \A e \in Deliverers : e # d => pc'[e] = "idle"
    BY <1>2, <2>1, <2>2
  <2>4. Listed(d)'
    BY <2>3 DEF Listed
  <2> QED
    BY <1>3, <2>1, <2>3, <2>4 DEF QueueInv
<1>6. ASSUME NEW d \in Deliverers, pc[d] \in {"take", "done"}, todo[d] # Empty,
             RemoveCurrent(d), UNCHANGED lock,
             pc'[d] = "take", \A e \in Deliverers : e # d => pc'[e] = pc[e]
      PROVE  QueueInv'
  <2>1. \A e \in Deliverers : e # d => pc'[e] = "idle"
    BY <1>6, OneAtWork
  <2>2. /\ todo[d].retry = retry /\ todo[d].spool \subseteq spool
        /\ \A n \in todo[d].spool, m \in spool \ todo[d].spool : n < m
        /\ \A r \in retry, s \in spool : r <= s
    BY <1>6 DEF QueueInv, Listed
  <2>3. \/ /\ retry' = retry \ {Current(d)} /\ UNCHANGED spool
           /\ todo'[d].retry = todo[d].retry \ {Current(d)}
           /\ todo'[d].spool = todo[d].spool
        \/ /\ spool' = spool \ {Current(d)} /\ UNCHANGED retry
           /\ todo'[d].spool = todo[d].spool \ {Current(d)}
           /\ todo'[d].retry = todo[d].retry
    <3> DEFINE m == Current(d)
    <3> HIDE DEF m
    <3>1. \/ /\ retry' = retry \ {m} /\ UNCHANGED spool
             /\ todo' = [todo EXCEPT ![d].retry = @ \ {m}]
          \/ /\ spool' = spool \ {m} /\ UNCHANGED retry
             /\ todo' = [todo EXCEPT ![d].spool = @ \ {m}]
      BY <1>6 DEF RemoveCurrent, m
    <3>2. \/ /\ retry' = retry \ {m} /\ UNCHANGED spool
             /\ todo'[d].retry = todo[d].retry \ {m}
             /\ todo'[d].spool = todo[d].spool
          \/ /\ spool' = spool \ {m} /\ UNCHANGED retry
             /\ todo'[d].spool = todo[d].spool \ {m}
             /\ todo'[d].retry = todo[d].retry
      BY <1>2, <3>1
    <3> QED
      BY <3>2 DEF m
  <2>4. /\ todo'[d].retry = retry' /\ todo'[d].spool \subseteq spool'
        /\ \A n \in todo'[d].spool, m \in spool' \ todo'[d].spool : n < m
        /\ \A r \in retry', s \in spool' : r <= s
    BY <2>2, <2>3
  <2>5. Listed(d)'
    BY <1>6, <2>4 DEF Listed
  <2> QED
    BY <1>3, <1>6, <2>1, <2>4, <2>5 DEF QueueInv
<1>7. ASSUME NEW d \in Deliverers, Invalid(d) \/ Suppress(d) \/ Remove(d)
      PROVE  QueueInv'
  <2>1. /\ pc[d] \in {"take", "done"} /\ todo[d] # Empty /\ RemoveCurrent(d)
        /\ UNCHANGED lock
        /\ pc'[d] = "take" /\ \A e \in Deliverers : e # d => pc'[e] = pc[e]
    BY <1>1, <1>2, <1>7 DEF Invalid, Suppress, Remove, More, Goto, TypeInv,
       Shape, AtWork
  <2> QED
    BY <1>6, <2>1
<1>8. ASSUME NEW d \in Deliverers, Admit(d) \/ Info(d) \/ SendOk(d)
      PROVE  QueueInv'
  <2>1. /\ UNCHANGED <<spool, retry, lock, todo>> /\ pc[d] \in {"take", "admitted"}
        /\ pc'[d] \in {"admitted", "done"}
        /\ \A e \in Deliverers : e # d => pc'[e] = pc[e]
    BY <1>2, <1>8 DEF Admit, Info, SendOk, Goto
  <2>2. \A e \in Deliverers : e # d => pc'[e] = "idle"
    BY <2>1, OneAtWork
  <2>3. Listed(d)'
    BY <2>1 DEF QueueInv, Listed
  <2> QED
    BY <1>3, <2>1, <2>2, <2>3 DEF QueueInv
<1>9. ASSUME NEW d \in Deliverers, SendFails(d) PROVE QueueInv'
  <2>1. pc[d] = "admitted" /\ todo[d] # Empty /\ UNCHANGED <<spool, lock>>
    BY <1>1, <1>9 DEF SendFails, TypeInv, Shape, AtWork
  <2>2. \A e \in Deliverers : e # d => pc[e] = "idle"
    BY <2>1, OneAtWork
  <2>3. CASE FromRetry(d)
    <3>1. /\ pc' = [pc EXCEPT ![d] = "take"] /\ UNCHANGED retry
          /\ todo' = [todo EXCEPT ![d] = Empty]
      BY <1>9, <2>3, Zenon DEF SendFails, Goto
    <3>2. /\ todo'[d] = Empty /\ \A e \in Deliverers : e # d => pc'[e] = "idle"
      BY <1>2, <2>2, <3>1
    <3> QED
      BY <1>3, <2>1, <3>1, <3>2 DEF QueueInv, Listed
  <2>4. CASE ~FromRetry(d)
    <3>1. /\ pc' = [pc EXCEPT ![d] = "unspool"] /\ UNCHANGED todo
          /\ retry' = retry \cup {Current(d)}
      BY <1>9, <2>4, Zenon DEF SendFails, KeptForRetry, Goto
    <3>2. /\ pc'[d] = "unspool"
          /\ \A e \in Deliverers : e # d => pc'[e] = "idle"
      BY <1>2, <2>2, <3>1
    <3>3. /\ retry = {} /\ todo[d].retry = {}
          /\ \A m \in spool : Current(d) <= m
      BY <2>1, <2>4, CurrentIsOldest
    <3>4. \A r \in retry', s \in spool' : r <= s
      BY <2>1, <3>1, <3>3
    <3>5. Listed(d)'
      BY <2>1, <3>1, <3>2, <3>3 DEF QueueInv, Listed
    <3> QED
      BY <1>3, <2>1, <3>2, <3>4, <3>5 DEF QueueInv
  <2> QED
    BY <2>3, <2>4
<1>10. ASSUME NEW d \in Deliverers, Unspool(d) \/ Release(d) \/ Crash(d)
       PROVE  QueueInv'
  <2>1. /\ pc[d] # "idle" /\ UNCHANGED retry /\ spool' \subseteq spool
        /\ \A e \in Deliverers : e # d => pc'[e] = pc[e]
    BY <1>2, <1>10 DEF Unspool, Release, Crash, Goto
  <2>2. \/ pc'[d] = "idle"
        \/ pc'[d] = "take" /\ todo'[d] = Empty /\ UNCHANGED lock
    BY <1>2, <1>10 DEF Unspool, Release, Crash, Goto, Abandoned
  <2>3. \A e \in Deliverers : e # d => pc'[e] = "idle"
    BY <2>1, OneAtWork
  <2>4. Listed(d)' /\ (pc'[d] # "idle" => lock' = d)
    BY <2>1, <2>2 DEF QueueInv, Listed
  <2>5. \A r \in retry', s \in spool' : r <= s
    BY <2>1 DEF QueueInv
  <2> QED
    BY <1>3, <2>3, <2>4, <2>5
<1>11. ASSUME UNCHANGED <<spool, retry, lock, pc, todo>> PROVE QueueInv'
  BY <1>1, <1>11 DEF QueueInv, Listed
<1>12. ASSUME NEW k \in Keys, CooldownEnds(k) PROVE QueueInv'
  BY <1>11, <1>12 DEF CooldownEnds
<1>13. CASE FlushRead \/ FlushSend \/ FlushTruncate \/ FlushDies
  BY <1>11, <1>13 DEF FlushRead, FlushSend, FlushTruncate, FlushDies
<1>14. CASE UNCHANGED vars
  BY <1>11, <1>14 DEF vars
<1> QED
  BY <1>4, <1>5, <1>7, <1>8, <1>9, <1>10, <1>12, <1>13, <1>14 DEF Next, Deliver

-----------------------------------------------------------------------------
(***************************************************************************)
(* Order.  What is queued and was never sent is newer than all that was    *)
(* sent; so each message sent repeats one, or is the newest so far.        *)
(***************************************************************************)
NewestOrRepeat(j) ==
  \/ \E h \in 1 .. Len(sent) : h < j /\ sent[h] = sent[j]
  \/ \A i \in 1 .. Len(sent) : i < j => sent[i] <= sent[j]

OrderInv ==
  /\ QueueInv
  /\ \A n \in SentSet, m \in spool \cup retry : m \in SentSet \/ n < m
  /\ \A j \in 1 .. Len(sent) : NewestOrRepeat(j)

(* A message offered to the channel is the oldest one queued, and stays    *)
(* queued.                                                                 *)
LEMMA OfferedIsOldest ==
  ASSUME QueueInv, NEW d \in Deliverers, SendOk(d) \/ SendFails(d)
  PROVE  /\ pc[d] = "admitted" /\ todo[d] # Empty
         /\ Current(d) \in spool \cup retry
         /\ \A m \in spool \cup retry : Current(d) <= m
         /\ spool' \cup retry' = spool \cup retry
         /\ Accept(d) \/ UNCHANGED sent
<1>1. pc[d] = "admitted" /\ todo[d] # Empty
  BY DEF SendOk, SendFails, QueueInv, TypeInv, Shape, AtWork
<1>2. /\ Current(d) \in spool \cup retry
      /\ \A m \in spool \cup retry : Current(d) <= m
  BY <1>1, CurrentIsOldest
<1>3. /\ UNCHANGED spool
      /\ UNCHANGED retry \/ retry' = retry \cup {Current(d)}
      /\ Accept(d) \/ UNCHANGED sent
  BY DEF SendOk, SendFails, KeptForRetry, dirs
<1> QED
  BY <1>1, <1>2, <1>3

(* Accepting the oldest message queued keeps the order. *)
LEMMA AcceptKeepsOrder ==
  ASSUME OrderInv, QueueInv', NEW d \in Deliverers, Accept(d), todo[d] # Empty,
         Current(d) \in spool \cup retry,
         \A m \in spool \cup retry : Current(d) <= m,
         spool' \cup retry' = spool \cup retry
  PROVE  OrderInv'
<1> DEFINE c == Current(d)
<1>1. /\ sent \in Seq(Nat) /\ c \in Nat /\ sent' = Append(sent, c)
      /\ SentSet' = SentSet \cup {c} /\ SentSet \subseteq Nat
      /\ c \in spool \cup retry /\ spool \cup retry \subseteq Nat
      /\ spool' \cup retry' = spool \cup retry
  <2>1. sent \in Seq(Dropped) /\ Dropped \subseteq Nat /\ TypeInv
    BY DEF OrderInv, QueueInv, TypeInv, TypeOK, Dropped
  <2>2. sent \in Seq(Nat)
    BY <2>1, SeqMonotonic
  <2>3. SentSet \subseteq Nat
    BY <2>2, ElementOfSeq DEF SentSet
  <2> QED
    BY <2>1, <2>2, <2>3, AcceptAdds, QueuedAreNumbers DEF Accept
<1>2. \A m \in spool \cup retry : c <= m
  OBVIOUS
<1>3. \A n \in SentSet, m \in spool \cup retry : m \in SentSet \/ n < m
  BY DEF OrderInv
<1> HIDE DEF c
<1>4. /\ Len(sent') = Len(sent) + 1 /\ Len(sent) \in Nat
      /\ \A i \in 1 .. Len(sent) : sent'[i] = sent[i]
      /\ sent'[Len(sent) + 1] = c
  BY <1>1, AppendProperties, LenProperties
<1>5. \A n \in SentSet', m \in spool' \cup retry' : m \in SentSet' \/ n < m
  <2> SUFFICES ASSUME NEW n \in SentSet \cup {c}, NEW m \in spool \cup retry,
                      m \notin SentSet \cup {c}
               PROVE  n < m
    BY <1>1
  <2>1. CASE n \in SentSet
    BY <1>3, <2>1
  <2>2. CASE n = c
    BY <1>1, <1>2, <2>2
  <2> QED
    BY <2>1, <2>2
<1>6. ASSUME NEW j \in 1 .. Len(sent') PROVE NewestOrRepeat(j)'
  <2>1. CASE j \in 1 .. Len(sent)
    <3>1. NewestOrRepeat(j)
      BY <2>1 DEF OrderInv
    <3>2. \A i \in 1 .. Len(sent') : i < j => i \in 1 .. Len(sent)
      BY <1>4, <2>1
    <3>3. CASE \E h \in 1 .. Len(sent) : h < j /\ sent[h] = sent[j]
      <4>1. \E h \in 1 .. Len(sent') : h < j /\ sent'[h] = sent'[j]
        BY <1>4, <2>1, <3>3
      <4> QED
        BY <4>1 DEF NewestOrRepeat
    <3>4. CASE \A i \in 1 .. Len(sent) : i < j => sent[i] <= sent[j]
      <4>1. \A i \in 1 .. Len(sent') : i < j => sent'[i] <= sent'[j]
        BY <1>4, <2>1, <3>2, <3>4
      <4> QED
        BY <4>1 DEF NewestOrRepeat
    <3> QED
      BY <3>1, <3>3, <3>4 DEF NewestOrRepeat
  <2>2. CASE j = Len(sent) + 1
    <3>1. CASE c \in SentSet
      <4>1. PICK h \in 1 .. Len(sent) : sent[h] = c
        BY <3>1 DEF SentSet
      <4>2. h \in 1 .. Len(sent') /\ h < j /\ sent'[h] = sent'[j]
        BY <1>4, <2>2, <4>1
      <4> QED
        BY <4>2 DEF NewestOrRepeat
    <3>2. CASE c \notin SentSet
      <4>1. \A n \in SentSet : n < c
        BY <1>1, <1>3, <3>2
      <4>2. \A i \in 1 .. Len(sent) : sent[i] <= c
        <5> SUFFICES ASSUME NEW i \in 1 .. Len(sent) PROVE sent[i] <= c
          OBVIOUS
        <5>1. sent[i] \in SentSet
          BY DEF SentSet
        <5> QED
          BY <1>1, <4>1, <5>1
      <4>3. \A i \in 1 .. Len(sent') : i < j => sent'[i] <= sent'[j]
        BY <1>4, <2>2, <4>2
      <4> QED
        BY <4>3 DEF NewestOrRepeat
    <3> QED
      BY <3>1, <3>2
  <2> QED
    BY <1>4, <2>1, <2>2
<1> QED
  BY <1>5, <1>6 DEF OrderInv

(* No step disturbs it. *)
LEMMA OrderStep == OrderInv /\ [Next]_vars => OrderInv'
<1> SUFFICES ASSUME OrderInv, [Next]_vars PROVE OrderInv'
  OBVIOUS
<1> USE DEF dirs, workers, daily
<1>1. QueueInv /\ QueueInv'
  BY QueueStep DEF OrderInv
<1>2. ASSUME UNCHANGED sent, spool' \cup retry' \subseteq spool \cup retry
      PROVE  OrderInv'
  BY <1>1, <1>2 DEF OrderInv, NewestOrRepeat, SentSet
<1>3. ASSUME NEW sev \in Severities, NEW key \in Keys \cup {NoKey},
             Enqueue(sev, key)
      PROVE  OrderInv'
  <2>1. /\ UNCHANGED <<sent, retry>> /\ spool' = spool \cup {Len(kind) + 1}
    BY <1>3 DEF Enqueue
  <2>2. \A n \in SentSet : n < Len(kind) + 1
    <3>1. sent \in Seq(Dropped) /\ Len(kind) \in Nat
      BY <1>1, LenProperties DEF QueueInv, TypeInv, TypeOK
    <3>2. SentSet \subseteq Dropped
      BY <3>1, ElementOfSeq DEF SentSet
    <3> QED
      BY <3>1, <3>2 DEF Dropped
  <2>3. \A n \in SentSet, m \in spool' \cup retry' : m \in SentSet \/ n < m
    BY <2>1, <2>2 DEF OrderInv
  <2> QED
    BY <1>1, <2>1, <2>3 DEF OrderInv, NewestOrRepeat, SentSet
<1>4. ASSUME NEW d \in Deliverers, SendOk(d) \/ SendFails(d) PROVE OrderInv'
  <2>1. CASE UNCHANGED sent
    BY <1>1, <1>2, <1>4, <2>1, OfferedIsOldest
  <2>2. CASE Accept(d)
    BY <1>1, <1>4, <2>2, OfferedIsOldest, AcceptKeepsOrder
  <2> QED
    BY <1>1, <1>4, <2>1, <2>2, OfferedIsOldest
<1>5. ASSUME NEW d \in Deliverers, Invalid(d) \/ Suppress(d) \/ Remove(d)
      PROVE  OrderInv'
  <2>1. RemoveCurrent(d) /\ UNCHANGED sent
    BY <1>5 DEF Invalid, Suppress, Remove
  <2>2. spool' \subseteq spool /\ retry' \subseteq retry
    BY <2>1 DEF RemoveCurrent
  <2> QED
    BY <1>2, <2>1, <2>2
<1>6. ASSUME NEW d \in Deliverers,
             Acquire(d) \/ Admit(d) \/ Info(d) \/ Unspool(d) \/ Release(d) \/ Crash(d)
      PROVE  OrderInv'
  BY <1>2, <1>6 DEF Acquire, Admit, Info, Unspool, Release, Crash
<1>7. ASSUME NEW k \in Keys, CooldownEnds(k) PROVE OrderInv'
  BY <1>2, <1>7 DEF CooldownEnds
<1>8. CASE FlushRead \/ FlushSend \/ FlushTruncate \/ FlushDies
  BY <1>2, <1>8 DEF FlushRead, FlushSend, FlushTruncate, FlushDies
<1>9. CASE UNCHANGED vars
  BY <1>2, <1>9 DEF vars
<1> QED
  BY <1>3, <1>4, <1>5, <1>6, <1>7, <1>8, <1>9 DEF Next, Deliver

(* Nothing is queued, sent or at work in the first state. *)
LEMMA QueueInit == Init => QueueInv /\ sent = <<>> /\ SentSet = {}
  BY TypeInit, LenProperties DEF Init, QueueInv, Listed, SentSet

(***************************************************************************)
(* Setting aside repeats, the owner gets urgent messages in the order of   *)
(* their names, through outages and deliverers dying between any two       *)
(* steps.  The first of the sends of a message is no repeat, so it came    *)
(* after nothing newer.                                                    *)
(***************************************************************************)
THEOREM OrderHolds == Spec => []OrderPreserved
<1>1. Init => OrderInv
  BY QueueInit DEF OrderInv
<1>2. OrderInv => OrderPreserved
  <2> SUFFICES ASSUME OrderInv, NEW i \in 1 .. Len(sent), NEW j \in 1 .. Len(sent),
                      i < j, sent[j] < sent[i]
               PROVE  \E h \in 1 .. i : sent[h] = sent[j]
    BY DEF OrderPreserved
  <2> DEFINE Sends == {h \in 1 .. Len(sent) : sent[h] = sent[j]}
             first == Least(Sends)
  <2>1. Sends \subseteq Nat /\ Sends # {} /\ Len(sent) \in Nat
    <3>1. sent \in Seq(Dropped)
      BY DEF OrderInv, QueueInv, TypeInv, TypeOK
    <3>2. Len(sent) \in Nat /\ j \in Sends
      BY <3>1, LenProperties
    <3> QED
      BY <3>2
  <2>2. first \in Sends /\ \A h \in Sends : first <= h
    BY <2>1, LeastIsFirst
  <2>3. first \in 1 .. Len(sent) /\ sent[first] = sent[j]
    BY <2>2
  <2>4. \A h \in 1 .. Len(sent) : sent[h] = sent[first] => first <= h
    BY <2>2, <2>3
  <2> HIDE DEF first, Sends
  <2>5. NewestOrRepeat(first)
    BY <2>3 DEF OrderInv
  <2>6. \A h \in 1 .. Len(sent) : h < first => sent[h] <= sent[first]
    <3>1. ~ \E h \in 1 .. Len(sent) : h < first /\ sent[h] = sent[first]
      BY <2>1, <2>3, <2>4
    <3> QED
      BY <2>5, <3>1 DEF NewestOrRepeat
  <2>7. sent[i] \in Nat /\ sent[j] \in Nat
    <3>1. sent \in Seq(Dropped) /\ Dropped \subseteq Nat
      BY DEF OrderInv, QueueInv, TypeInv, TypeOK, Dropped
    <3> QED
      BY <3>1, ElementOfSeq
  <2>8. ~ (i < first)
    BY <2>3, <2>6, <2>7
  <2>9. first \in 1 .. i
    BY <2>1, <2>3, <2>8
  <2> QED
    BY <2>3, <2>9
<1> QED
  BY <1>1, <1>2, OrderStep, PTL DEF Spec

-----------------------------------------------------------------------------
(***************************************************************************)
(* Repeats.  A copy of a message that waits in a directory will be sent,   *)
(* but for the one a deliverer has dealt with and is about to delete.      *)
(* What was sent and what waits exceeds the different messages among them  *)
(* by the slips, at most.                                                  *)
(***************************************************************************)
DealtWith(d) == pc[d] \in {"unspool", "done"}

SpoolCopies ==
  {m \in spool : \A d \in Deliverers : DealtWith(d) /\ ~FromRetry(d) => m # Current(d)}
RetryCopies ==
  {m \in retry : \A d \in Deliverers : DealtWith(d) /\ FromRetry(d) => m # Current(d)}

Paid(n, accepted, inSpool, inRetry, paid) ==
  n + Cardinality(inSpool) + Cardinality(inRetry)
    <= Cardinality(accepted \cup inSpool \cup inRetry) + paid

RepeatInv ==
  QueueInv /\ Paid(Len(sent), SentSet, SpoolCopies, RetryCopies, slips)

(* What one copy more or less, sent or kept, does to the account. *)
LEMMA Account ==
  ASSUME NEW n \in Nat, NEW p \in Nat, NEW A, NEW S, NEW R, NEW x,
         IsFiniteSet(A), IsFiniteSet(S), IsFiniteSet(R), Paid(n, A, S, R, p)
  PROVE  /\ Paid(n, A, S, R, p + 1)
         /\ Paid(n, A, S \ {x}, R, p) /\ Paid(n, A, S, R \ {x}, p)
         /\ Paid(n, A, S \cup {x}, R, p + 1) /\ Paid(n, A, S, R \cup {x}, p + 1)
         /\ x \notin A \cup S \cup R => Paid(n, A, S \cup {x}, R, p)
         /\ x \in S => /\ Paid(n + 1, A \cup {x}, S \ {x}, R, p)
                       /\ Paid(n, A, S \ {x}, R \cup {x}, p)
                       /\ Paid(n + 1, A \cup {x}, S \ {x}, R \cup {x}, p + 1)
         /\ x \in R => /\ Paid(n + 1, A \cup {x}, S, R \ {x}, p)
                       /\ Paid(n + 1, A \cup {x}, S, R, p + 1)
<1> DEFINE All == A \cup S \cup R
<1>1. /\ IsFiniteSet(All)
      /\ Cardinality(All) \in Nat /\ Cardinality(S) \in Nat /\ Cardinality(R) \in Nat
  BY FS_Union, FS_CardinalityType
<1>2. n + Cardinality(S) + Cardinality(R) <= Cardinality(All) + p
  BY DEF Paid
<1>3. /\ Cardinality(S \ {x}) = IF x \in S THEN Cardinality(S) - 1 ELSE Cardinality(S)
      /\ Cardinality(R \ {x}) = IF x \in R THEN Cardinality(R) - 1 ELSE Cardinality(R)
      /\ Cardinality(S \cup {x}) = IF x \in S THEN Cardinality(S) ELSE Cardinality(S) + 1
      /\ Cardinality(R \cup {x}) = IF x \in R THEN Cardinality(R) ELSE Cardinality(R) + 1
      /\ Cardinality(All \cup {x}) = IF x \in All THEN Cardinality(All) ELSE Cardinality(All) + 1
      /\ Cardinality(All \ {x}) = IF x \in All THEN Cardinality(All) - 1 ELSE Cardinality(All)
  BY <1>1, FS_AddElement, FS_RemoveElement
<1>4. /\ A \cup (S \cup {x}) \cup R = All \cup {x}
      /\ A \cup S \cup (R \cup {x}) = All \cup {x}
      /\ A \cup (S \ {x}) \cup R \in {All, All \ {x}}
      /\ A \cup S \cup (R \ {x}) \in {All, All \ {x}}
      /\ x \notin S => A \cup (S \ {x}) \cup R = All
      /\ x \notin R => A \cup S \cup (R \ {x}) = All
      /\ x \in S => /\ (A \cup {x}) \cup (S \ {x}) \cup R = All
                    /\ A \cup (S \ {x}) \cup (R \cup {x}) = All
                    /\ (A \cup {x}) \cup (S \ {x}) \cup (R \cup {x}) = All
      /\ x \in R => /\ (A \cup {x}) \cup S \cup (R \ {x}) = All
                    /\ (A \cup {x}) \cup S \cup R = All
      /\ x \in S \cup R => x \in All
  OBVIOUS
<1> DEFINE a == Cardinality(All)
           s == Cardinality(S)
           r == Cardinality(R)
<1> HIDE DEF All
<1>5. Paid(n, A, S, R, p + 1)
  <2>1. Cardinality(A \cup S \cup R) = a
    BY DEF All
  <2> QED
    BY <1>1, <1>2, <2>1 DEF Paid
<1>6. Paid(n, A, S \ {x}, R, p)
  <2>1. CASE x \notin S
    <3>1. S \ {x} = S
      BY <2>1
    <3> QED
      BY <3>1
  <2>2. CASE x \in S
    <3>1. Cardinality(S \ {x}) = s - 1
      BY <1>3, <2>2
    <3>2. Cardinality(A \cup (S \ {x}) \cup R) \in {a, a - 1}
      BY <1>3, <1>4, <2>2
    <3> QED
      BY <1>1, <1>2, <3>1, <3>2 DEF Paid
  <2> QED
    BY <2>1, <2>2
<1>7. Paid(n, A, S, R \ {x}, p)
  <2>1. CASE x \notin R
    <3>1. R \ {x} = R
      BY <2>1
    <3> QED
      BY <3>1
  <2>2. CASE x \in R
    <3>1. Cardinality(R \ {x}) = r - 1
      BY <1>3, <2>2
    <3>2. Cardinality(A \cup S \cup (R \ {x})) \in {a, a - 1}
      BY <1>3, <1>4, <2>2
    <3> QED
      BY <1>1, <1>2, <3>1, <3>2 DEF Paid
  <2> QED
    BY <2>1, <2>2
<1>8. Paid(n, A, S \cup {x}, R, p + 1) /\ Paid(n, A, S, R \cup {x}, p + 1)
  <2>1. /\ Cardinality(S \cup {x}) \in {s, s + 1}
        /\ Cardinality(R \cup {x}) \in {r, r + 1}
    BY <1>3
  <2>2. /\ Cardinality(A \cup (S \cup {x}) \cup R) \in {a, a + 1}
        /\ Cardinality(A \cup S \cup (R \cup {x})) \in {a, a + 1}
    BY <1>3, <1>4
  <2> QED
    BY <1>1, <1>2, <2>1, <2>2 DEF Paid
<1>9. ASSUME x \notin A \cup S \cup R PROVE Paid(n, A, S \cup {x}, R, p)
  <2>1. x \notin All /\ x \notin S
    BY <1>9 DEF All
  <2>2. Cardinality(S \cup {x}) = s + 1
    BY <1>3, <2>1
  <2>3. Cardinality(A \cup (S \cup {x}) \cup R) = a + 1
    BY <1>3, <1>4, <2>1
  <2> QED
    BY <1>1, <1>2, <2>2, <2>3 DEF Paid
<1>10. ASSUME x \in S
       PROVE  /\ Paid(n + 1, A \cup {x}, S \ {x}, R, p)
              /\ Paid(n, A, S \ {x}, R \cup {x}, p)
              /\ Paid(n + 1, A \cup {x}, S \ {x}, R \cup {x}, p + 1)
  <2>1. /\ Cardinality(S \ {x}) = s - 1
        /\ Cardinality(R \cup {x}) \in {r, r + 1}
    BY <1>3, <1>10
  <2>2. /\ Cardinality((A \cup {x}) \cup (S \ {x}) \cup R) = a
        /\ Cardinality(A \cup (S \ {x}) \cup (R \cup {x})) = a
        /\ Cardinality((A \cup {x}) \cup (S \ {x}) \cup (R \cup {x})) = a
    BY <1>4, <1>10
  <2> QED
    BY <1>1, <1>2, <2>1, <2>2 DEF Paid
<1>11. ASSUME x \in R
       PROVE  /\ Paid(n + 1, A \cup {x}, S, R \ {x}, p)
              /\ Paid(n + 1, A \cup {x}, S, R, p + 1)
  <2>1. Cardinality(R \ {x}) = r - 1
    BY <1>3, <1>11
  <2>2. /\ Cardinality((A \cup {x}) \cup S \cup (R \ {x})) = a
        /\ Cardinality((A \cup {x}) \cup S \cup R) = a
    BY <1>4, <1>11
  <2> QED
    BY <1>1, <1>2, <2>1, <2>2 DEF Paid
<1> QED
  BY <1>5, <1>6, <1>7, <1>8, <1>9, <1>10, <1>11

(* With one deliverer at work, all copies wait but the one it dealt with. *)
LEMMA CopiesNow ==
  ASSUME NEW d \in Deliverers, \A e \in Deliverers : e # d => pc[e] = "idle"
  PROVE  /\ SpoolCopies = IF DealtWith(d) /\ ~FromRetry(d)
                          THEN spool \ {Current(d)} ELSE spool
         /\ RetryCopies = IF DealtWith(d) /\ FromRetry(d)
                          THEN retry \ {Current(d)} ELSE retry
  BY DEF SpoolCopies, RetryCopies, DealtWith

(* The same of the next state. *)
LEMMA CopiesNext ==
  ASSUME NEW d \in Deliverers, \A e \in Deliverers : e # d => pc'[e] = "idle"
  PROVE  /\ SpoolCopies' = IF (DealtWith(d) /\ ~FromRetry(d))'
                           THEN spool' \ {Current(d)'} ELSE spool'
         /\ RetryCopies' = IF (DealtWith(d) /\ FromRetry(d))'
                           THEN retry' \ {Current(d)'} ELSE retry'
  BY DEF SpoolCopies, RetryCopies, DealtWith

(* What is counted is finite. *)
LEMMA CopiesAreFinite ==
  ASSUME QueueInv
  PROVE  /\ IsFiniteSet(SentSet) /\ IsFiniteSet(SpoolCopies)
         /\ IsFiniteSet(RetryCopies) /\ SentSet \subseteq Dropped
         /\ Len(sent) \in Nat /\ slips \in Nat
<1>1. /\ sent \in Seq(Dropped) /\ slips \in 0 .. MaxSlips
      /\ spool \subseteq Dropped /\ retry \subseteq Dropped
  BY DEF QueueInv, TypeInv, TypeOK
<1>2. Len(sent) \in Nat /\ slips \in Nat
  BY <1>1, LenProperties, ConstantsAssumption
<1>3. IsFiniteSet(Dropped)
  BY QueuedAreNumbers, FS_Interval DEF QueueInv, Dropped
<1>4. SentSet \subseteq Dropped
  BY <1>1, ElementOfSeq DEF SentSet
<1>5. SpoolCopies \subseteq Dropped /\ RetryCopies \subseteq Dropped
  BY <1>1 DEF SpoolCopies, RetryCopies
<1> QED
  BY <1>2, <1>3, <1>4, <1>5, FS_Subset

(* Every step keeps the account: a slip pays for the copy it leaves. *)
LEMMA RepeatStep == RepeatInv /\ [Next]_vars => RepeatInv'
<1> SUFFICES ASSUME RepeatInv, [Next]_vars
             PROVE  Paid(Len(sent), SentSet, SpoolCopies, RetryCopies, slips)'
  BY QueueStep DEF RepeatInv
<1> USE DEF dirs, workers, daily
<1> DEFINE n == Len(sent)
           A == SentSet
           S == SpoolCopies
           R == RetryCopies
           p == slips
<1>1. QueueInv /\ QueueInv' /\ TypeInv /\ Paid(n, A, S, R, p)
  BY QueueStep DEF RepeatInv, QueueInv
<1>2. /\ n \in Nat /\ p \in Nat
      /\ IsFiniteSet(A) /\ IsFiniteSet(S) /\ IsFiniteSet(R)
  BY <1>1, CopiesAreFinite
<1>3. /\ pc \in [Deliverers -> {"idle", "take", "admitted", "unspool", "done"}]
      /\ todo \in [Deliverers -> [retry : SUBSET (1 .. MaxMsgs),
                                  spool : SUBSET (1 .. MaxMsgs)]]
  BY <1>1 DEF TypeInv, TypeOK, Listing
<1>4. ASSUME Paid(n', A', S', R', p')
      PROVE  Paid(Len(sent), SentSet, SpoolCopies, RetryCopies, slips)'
  BY <1>4 DEF Paid
<1> HIDE DEF n, A, S, R, p
<1>5. ASSUME UNCHANGED <<spool, retry, pc, todo, sent>>,
             slips' = slips \/ slips' = slips + 1
      PROVE  Paid(n', A', S', R', p')
  <2>1. UNCHANGED <<n, A, S, R>>
    BY <1>5 DEF n, A, S, R, SentSet, SpoolCopies, RetryCopies, DealtWith,
       Current, FromRetry
  <2> QED
    BY <1>1, <1>2, <1>5, <2>1, Account DEF p
<1>6. ASSUME NEW sev \in Severities, NEW key \in Keys \cup {NoKey},
             Enqueue(sev, key)
      PROVE  Paid(n', A', S', R', p')
  <2> DEFINE new == Len(kind) + 1
  <2>1. /\ spool' = spool \cup {new} /\ UNCHANGED <<retry, pc, todo, sent, slips>>
    BY <1>6 DEF Enqueue
  <2>2. UNCHANGED <<n, A, R, p>>
    BY <2>1 DEF n, A, R, p, SentSet, RetryCopies, DealtWith, Current, FromRetry
  <2>3. new \notin Dropped /\ spool \subseteq Dropped /\ retry \subseteq Dropped
    BY <1>1, QueuedAreNumbers DEF Dropped, TypeInv, TypeOK
  <2>4. \A d \in Deliverers : DealtWith(d) => new # Current(d)
    BY <1>1, <2>3, CurrentWasDropped DEF DealtWith, TypeInv, Shape, AtWork
  <2>5. S' = S \cup {new}
    <3>1. \A d \in Deliverers : /\ Current(d)' = Current(d)
                                /\ FromRetry(d)' = FromRetry(d)
                                /\ DealtWith(d)' = DealtWith(d)
      BY <2>1 DEF Current, FromRetry, DealtWith
    <3> HIDE DEF new
    <3> QED
      BY <2>1, <2>4, <3>1 DEF S, SpoolCopies
  <2>6. new \notin A \cup S \cup R
    BY <1>1, <2>3, CopiesAreFinite DEF A, S, R, SpoolCopies, RetryCopies
  <2> HIDE DEF new
  <2> QED
    BY <1>1, <1>2, <2>2, <2>5, <2>6, Account
<1>7. ASSUME NEW d \in Deliverers, Acquire(d) PROVE Paid(n', A', S', R', p')
  <2>1. /\ lock = NoOne /\ pc' = [pc EXCEPT ![d] = "take"]
        /\ UNCHANGED <<spool, retry, sent, slips>>
    BY <1>7 DEF Acquire, LockFree, Goto
  <2>2. \A e \in Deliverers : pc[e] = "idle"
    BY <1>1, <2>1, ConstantsAssumption DEF QueueInv
  <2>3. pc'[d] = "take" /\ \A e \in Deliverers : e # d => pc'[e] = "idle"
    BY <1>3, <2>1, <2>2
  <2>4. S = spool /\ R = retry
    BY <2>2, CopiesNow DEF S, R, DealtWith
  <2>5. S' = spool' /\ R' = retry'
    BY <2>3, CopiesNext DEF S, R, DealtWith
  <2> QED
    BY <1>1, <2>1, <2>4, <2>5 DEF n, A, p, SentSet
<1>8. ASSUME NEW d \in Deliverers, Deliver(d) \/ Crash(d)
      PROVE  Paid(n', A', S', R', p')
  <2> DEFINE c == Current(d)
  <2>1. pc[d] # "idle"
    BY <1>8 DEF Deliver, Invalid, Suppress, Admit, Info, SendOk, SendFails,
       Unspool, Remove, Release, Crash
  <2>2. \A e \in Deliverers : e # d => pc[e] = "idle" /\ pc'[e] = "idle"
    <3>1. \A e \in Deliverers : e # d => pc[e] = "idle"
      BY <1>1, <2>1, OneAtWork
    <3>2. \E l : pc' = [pc EXCEPT ![d] = l] \/ pc' = pc
      BY <1>8, Zenon DEF Deliver, Invalid, Suppress, Admit, Info, SendOk,
         SendFails, Unspool, Remove, Release, Crash, Goto
    <3> QED
      BY <1>3, <3>1, <3>2
  <2>3. /\ S = IF DealtWith(d) /\ ~FromRetry(d) THEN spool \ {c} ELSE spool
        /\ R = IF DealtWith(d) /\ FromRetry(d) THEN retry \ {c} ELSE retry
    BY <2>2, CopiesNow DEF S, R
  <2>4. /\ S' = IF (DealtWith(d) /\ ~FromRetry(d))' THEN spool' \ {c'} ELSE spool'
        /\ R' = IF (DealtWith(d) /\ FromRetry(d))' THEN retry' \ {c'} ELSE retry'
    BY <2>2, CopiesNext DEF S, R
  <2>5. todo[d] # Empty =>
          /\ FromRetry(d) => c \in retry
          /\ ~FromRetry(d) => c \in spool
    BY <1>1, <2>1, CurrentIsOldest
  <2>6. todo'[d] = todo[d] => c' = c /\ FromRetry(d)' = FromRetry(d)
    BY CurrentStays DEF FromRetry
  <2>7. ASSUME Accept(d), todo[d] # Empty PROVE n' = n + 1 /\ A' = A \cup {c}
    <3>1. sent' = Append(sent, c) /\ sent \in Seq(Dropped) /\ c \in Dropped
      BY <1>1, <2>7, CurrentWasDropped DEF Accept, TypeInv, TypeOK
    <3> HIDE DEF c
    <3>2. n' = n + 1
      BY <3>1, AppendProperties DEF n
    <3> QED
      BY <1>1, <2>7, <3>2, AcceptAdds DEF A, c
  <2>8. UNCHANGED sent => UNCHANGED <<n, A>>
    BY DEF n, A, SentSet
  <2> HIDE DEF c
  <2>9. CASE Invalid(d) \/ Suppress(d) \/ Remove(d)
    <3>1. /\ UNCHANGED <<sent, slips>> /\ pc[d] \in {"take", "done"}
          /\ pc'[d] = "take" /\ RemoveCurrent(d)
      BY <1>3, <2>9 DEF Invalid, Suppress, Remove, Goto
    <3>2. IF FromRetry(d) THEN retry' = retry \ {c} /\ spool' = spool
                          ELSE spool' = spool \ {c} /\ retry' = retry
      BY <3>1 DEF RemoveCurrent, c
    <3>3. S' = spool' /\ R' = retry'
      BY <2>4, <3>1 DEF DealtWith
    <3>4. \/ S' = S \ {c} /\ R' = R
          \/ R' = R \ {c} /\ S' = S
          \/ S' = S /\ R' = R
      BY <2>3, <3>2, <3>3
    <3>5. Paid(n, A, S \ {c}, R, p) /\ Paid(n, A, S, R \ {c}, p)
      BY <1>1, <1>2, Account
    <3>6. UNCHANGED <<n, A, p>>
      BY <2>8, <3>1 DEF p
    <3> QED
      BY <1>1, <3>4, <3>5, <3>6
  <2>10. CASE Admit(d) \/ Release(d)
    <3>1. /\ UNCHANGED <<sent, slips, spool, retry>> /\ pc[d] = "take"
          /\ pc'[d] \in {"admitted", "idle"}
      BY <1>3, <2>10 DEF Admit, Release, Goto
    <3>2. S' = S /\ R' = R
      BY <2>3, <2>4, <3>1 DEF DealtWith
    <3> QED
      BY <1>1, <2>8, <3>1, <3>2 DEF p
  <2>11. CASE Info(d) \/ SendOk(d)
    <3>1. /\ UNCHANGED <<slips, spool, retry, todo>> /\ pc[d] = "admitted"
          /\ pc'[d] = "done" /\ todo[d] # Empty
          /\ UNCHANGED sent \/ Accept(d)
      BY <1>1, <1>3, <2>11 DEF Info, SendOk, Goto, TypeInv, Shape, AtWork
    <3>2. /\ DealtWith(d)' /\ ~DealtWith(d) /\ c' = c
          /\ FromRetry(d)' = FromRetry(d)
      BY <2>6, <3>1 DEF DealtWith
    <3>3. CASE FromRetry(d)
      <4>1. S' = S /\ R' = R \ {c} /\ c \in R
        BY <2>3, <2>4, <2>5, <3>1, <3>2, <3>3
      <4>2. /\ Paid(n, A, S, R \ {c}, p)
            /\ Paid(n + 1, A \cup {c}, S, R \ {c}, p)
        BY <1>1, <1>2, <4>1, Account
      <4>3. /\ UNCHANGED p
            /\ UNCHANGED <<n, A>> \/ (n' = n + 1 /\ A' = A \cup {c})
        BY <2>7, <2>8, <3>1 DEF p
      <4> QED
        BY <4>1, <4>2, <4>3
    <3>4. CASE ~FromRetry(d)
      <4>1. S' = S \ {c} /\ R' = R /\ c \in S
        BY <2>3, <2>4, <2>5, <3>1, <3>2, <3>4
      <4>2. /\ Paid(n, A, S \ {c}, R, p)
            /\ Paid(n + 1, A \cup {c}, S \ {c}, R, p)
        BY <1>1, <1>2, <4>1, Account
      <4>3. /\ UNCHANGED p
            /\ UNCHANGED <<n, A>> \/ (n' = n + 1 /\ A' = A \cup {c})
        BY <2>7, <2>8, <3>1 DEF p
      <4> QED
        BY <4>1, <4>2, <4>3
    <3> QED
      BY <3>3, <3>4
  <2>12. CASE SendFails(d)
    <3>1. /\ UNCHANGED spool /\ pc[d] = "admitted" /\ todo[d] # Empty
          /\ \/ UNCHANGED <<sent, slips>>
             \/ Accept(d) /\ slips' = slips + 1
      BY <1>1, <2>12 DEF SendFails, TypeInv, Shape, AtWork
    <3>2. S = spool /\ R = retry
      BY <2>3, <3>1 DEF DealtWith
    <3>3. CASE FromRetry(d)
      <4>1. /\ pc' = [pc EXCEPT ![d] = "take"] /\ UNCHANGED retry
        BY <2>12, <3>3, Zenon DEF SendFails, Goto
      <4>2. S' = S /\ R' = R /\ c \in R
        BY <1>3, <2>4, <2>5, <3>1, <3>2, <3>3, <4>1 DEF DealtWith
      <4>3. Paid(n + 1, A \cup {c}, S, R, p + 1)
        BY <1>1, <1>2, <4>2, Account
      <4>4. \/ UNCHANGED <<n, A, p>>
            \/ n' = n + 1 /\ A' = A \cup {c} /\ p' = p + 1
        BY <2>7, <2>8, <3>1 DEF p
      <4> QED
        BY <1>1, <4>2, <4>3, <4>4
    <3>4. CASE ~FromRetry(d)
      <4>1. /\ pc' = [pc EXCEPT ![d] = "unspool"] /\ UNCHANGED todo
            /\ retry' = retry \cup {c}
        BY <2>12, <3>4, Zenon DEF SendFails, KeptForRetry, Goto, c
      <4>2. DealtWith(d)' /\ c' = c /\ ~FromRetry(d)'
        BY <1>3, <2>6, <3>4, <4>1 DEF DealtWith
      <4>3. S' = S \ {c} /\ R' = R \cup {c} /\ c \in S
        BY <2>4, <2>5, <3>1, <3>2, <3>4, <4>1, <4>2
      <4>4. /\ Paid(n, A, S \ {c}, R \cup {c}, p)
            /\ Paid(n + 1, A \cup {c}, S \ {c}, R \cup {c}, p + 1)
        BY <1>1, <1>2, <4>3, Account
      <4>5. \/ UNCHANGED <<n, A, p>>
            \/ n' = n + 1 /\ A' = A \cup {c} /\ p' = p + 1
        BY <2>7, <2>8, <3>1 DEF p
      <4> QED
        BY <4>3, <4>4, <4>5
    <3> QED
      BY <3>3, <3>4
  <2>13. CASE Unspool(d)
    <3>1. /\ UNCHANGED <<retry, sent, slips>> /\ spool' = spool \ {c}
          /\ pc[d] = "unspool" /\ pc'[d] = "take"
      BY <1>3, <2>13 DEF Unspool, Goto, c
    <3>2. ~FromRetry(d)
      BY <1>1, <2>1, <3>1, CurrentIsOldest DEF TypeInv, Shape, AtWork
    <3>3. S' = S /\ R' = R
      BY <2>3, <2>4, <3>1, <3>2 DEF DealtWith
    <3> QED
      BY <1>1, <2>8, <3>1, <3>3 DEF p
  <2>14. CASE Crash(d)
    <3>1. /\ UNCHANGED <<spool, retry, sent>> /\ slips' = slips + 1
          /\ pc'[d] = "idle"
      BY <1>3, <2>14 DEF Crash, Goto
    <3>2. S' = spool /\ R' = retry
      BY <2>4, <3>1 DEF DealtWith
    <3>3. \/ S' = S /\ R' = R
          \/ S' = S \cup {c} /\ R' = R
          \/ S' = S /\ R' = R \cup {c}
      BY <2>3, <3>2
    <3>4. /\ Paid(n, A, S, R, p + 1)
          /\ Paid(n, A, S \cup {c}, R, p + 1) /\ Paid(n, A, S, R \cup {c}, p + 1)
      BY <1>1, <1>2, Account
    <3>5. UNCHANGED <<n, A>> /\ p' = p + 1
      BY <2>8, <3>1 DEF p
    <3> QED
      BY <3>3, <3>4, <3>5
  <2> QED
    BY <1>8, <2>9, <2>10, <2>11, <2>12, <2>13, <2>14 DEF Deliver
<1>9. ASSUME NEW k \in Keys, CooldownEnds(k) PROVE Paid(n', A', S', R', p')
  BY <1>5, <1>9 DEF CooldownEnds
<1>10. CASE FlushRead \/ FlushSend \/ FlushTruncate \/ FlushDies
  BY <1>4, <1>5, <1>10 DEF FlushRead, FlushSend, FlushTruncate, FlushDies
<1>11. CASE UNCHANGED vars
  BY <1>4, <1>5, <1>11 DEF vars
<1> QED
  BY <1>4, <1>6, <1>7, <1>8, <1>9, <1>10, <1>11 DEF Next

(* Two sets together have no more members than each for itself. *)
LEMMA UnionIsNoMore ==
  ASSUME NEW S, NEW T, IsFiniteSet(S), IsFiniteSet(T)
  PROVE  Cardinality(S \cup T) <= Cardinality(S) + Cardinality(T)
<1>1. IsFiniteSet(S \cap T)
  BY FS_Subset
<1>2. /\ Cardinality(S) \in Nat /\ Cardinality(T) \in Nat
      /\ Cardinality(S \cap T) \in Nat
  BY <1>1, FS_CardinalityType
<1>3. Cardinality(S \cup T) =
        Cardinality(S) + Cardinality(T) - Cardinality(S \cap T)
  BY FS_Union
<1> QED
  BY <1>2, <1>3

(***************************************************************************)
(* Deliverers may be started at once: a message arrives again only because *)
(* one of them died or an answer of the channel got lost, and each such    *)
(* slip repeats one message at most.                                       *)
(***************************************************************************)
THEOREM RepeatsArePaidFor == Spec => []RepeatsOnlyBySlip
<1>1. Init => RepeatInv
  <2> SUFFICES ASSUME Init PROVE RepeatInv
    OBVIOUS
  <2>1. QueueInv /\ Len(sent) = 0 /\ SentSet = {} /\ slips = 0
    BY QueueInit, LenProperties DEF Init
  <2>2. SpoolCopies = {} /\ RetryCopies = {}
    BY DEF Init, SpoolCopies, RetryCopies
  <2>3. Cardinality({}) = 0
    BY FS_EmptySet
  <2> QED
    BY <2>1, <2>2, <2>3 DEF RepeatInv, Paid
<1>2. RepeatInv => RepeatsOnlyBySlip
  <2> SUFFICES ASSUME RepeatInv PROVE RepeatsOnlyBySlip
    OBVIOUS
  <2> DEFINE both == SentSet \cup SpoolCopies
  <2>1. /\ IsFiniteSet(SentSet) /\ IsFiniteSet(SpoolCopies)
        /\ IsFiniteSet(RetryCopies) /\ Len(sent) \in Nat /\ slips \in Nat
    BY CopiesAreFinite DEF RepeatInv
  <2>2. IsFiniteSet(both) /\ Cardinality(both) \in Nat
    BY <2>1, FS_Union, FS_CardinalityType
  <2>3. Cardinality(both) <= Cardinality(SentSet) + Cardinality(SpoolCopies)
    BY <2>1, UnionIsNoMore
  <2> HIDE DEF both
  <2>4. Cardinality(both \cup RetryCopies)
          <= Cardinality(both) + Cardinality(RetryCopies)
    BY <2>1, <2>2, UnionIsNoMore
  <2>5. /\ Cardinality(SentSet) \in Nat /\ Cardinality(SpoolCopies) \in Nat
        /\ Cardinality(RetryCopies) \in Nat
        /\ Cardinality(both \cup RetryCopies) \in Nat
    BY <2>1, <2>2, FS_Union, FS_CardinalityType
  <2>6. Len(sent) + Cardinality(SpoolCopies) + Cardinality(RetryCopies)
          <= Cardinality(both \cup RetryCopies) + slips
    BY DEF RepeatInv, Paid, both
  <2> QED
    BY <2>1, <2>2, <2>3, <2>4, <2>5, <2>6 DEF RepeatsOnlyBySlip
<1> QED
  BY <1>1, <1>2, RepeatStep, PTL DEF Spec

=============================================================================
