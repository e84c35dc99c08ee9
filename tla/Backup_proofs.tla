---------------------------- MODULE Backup_proofs ---------------------------
(***************************************************************************)
(* Proofs about Backup, for any limit of the batches, any number of power  *)
(* cuts and however far ages are counted.                                  *)
(***************************************************************************)
EXTENDS Backup, TLAPS, FiniteSetTheorems

(* A run that has begun and has made no snapshot yet.                      *)
Pending(b) == at[b] \in {"wait", "restic"}

Types ==
  /\ watch \in 0..7 /\ up \in BOOLEAN /\ due \subseteq Timers
  /\ at \in [Jobs -> {"off", "wait", "receipt"} \cup Holding]
  /\ since \in [Jobs -> Nat]
  /\ lock \in Jobs \cup {"free"}
  /\ snapshot \in 0..Old /\ success \in 0..Old
  /\ told \subseteq {"newest", "next"} /\ cuts \in 0..MaxCuts /\ missed \in 0..2

(***************************************************************************)
(* The inductive invariant.  Who works holds the lock, so OneAtATime needs *)
(* no more than Running.  The ages need to know where in the day the runs  *)
(* began.                                                                  *)
(***************************************************************************)
Running ==
  \A j \in Jobs :
    /\ at[j] \in Holding => lock = j
    /\ since[j] <= UnitLimit[j]
    /\ at[j] = "off" => since[j] = 0
    /\ ~up => at[j] = "off"
    /\ at[j] \in {"restic", "forget", "receipt"} => j \in Backups
    /\ at[j] \in {"test", "batch"} => at[j] = j

(* A receipt is written by a run that has made a snapshot.                 *)
Receipts ==
  /\ ReceiptIsHonest
  /\ \A j \in Backups : /\ at[j] = "forget" => snapshot <= since[j]
                        /\ at[j] = "receipt" => snapshot <= 2

(* A timer that is late elapsed while the machine was off: everything that *)
(* runs began in this watch.  The night's run is late when it began at     *)
(* another watch than its own; what snapshot there is by then is younger.  *)
Late ==
  /\ \A j \in due : watch # TimerWatch[j] => \A k \in Jobs : since[k] = 0
  /\ "night" \in due /\ watch # 0 /\ missed = 0 => snapshot = 0
  /\ Pending("night") /\ since["night"] # watch =>
       /\ since["retry"] <= since["night"]
       /\ missed = 0 => snapshot <= since["night"]

(* How old the newest snapshot may be, by the time of day: while nothing   *)
(* was missed, and when one run was cut off and the next one must not be.  *)
Gap ==
  /\ missed = 0 => up
  /\ "newest" \notin told /\ missed = 0 =>
       \/ snapshot <= watch + 2
       \/ watch = 0 /\ "night" \in due /\ snapshot <= 10
       \/ Pending("night") /\ since["night"] = watch /\ snapshot <= watch + 10
  /\ "newest" \notin told /\ missed = 1 =>
       \/ \E b \in Backups : Pending(b) /\ snapshot <= 16 + since[b]
       \/ watch < 6 /\ snapshot <= watch + 10
       \/ watch = 6 /\ "retry" \in due /\ snapshot <= 16
       \/ watch >= 6 /\ snapshot <= watch + 8
       \/ watch = 0 /\ "night" \in due /\ snapshot <= 16

IInv == Types /\ Running /\ Receipts /\ Late /\ Gap

(* The jobs, their limits and the timers' watches, spelt out.              *)
LEMMA Schedule ==
  /\ Timers = {"night", "retry", "test"}
  /\ Jobs = {"night", "retry", "test", "batch"}
  /\ TimerWatch["night"] = 0 /\ TimerWatch["retry"] = 6 /\ TimerWatch["test"] = 1
  /\ UnitLimit["night"] = 2 /\ UnitLimit["retry"] = 2 /\ UnitLimit["test"] = 2
  /\ UnitLimit["batch"] = BatchLimit
  /\ BatchLimit \in Nat /\ MaxCuts \in Nat /\ Old \in Nat /\ Old > 8
  BY BackupAssumption DEF Timers, TimerWatch, Jobs, UnitLimit

(* Every step keeps the invariant.                                         *)
LEMMA InvStep == IInv /\ [Next]_vars => IInv'
<1> SUFFICES ASSUME IInv, [Next]_vars PROVE IInv'
  OBVIOUS
<1> USE Schedule DEF IInv, Types, Running, Receipts, ReceiptIsHonest, Late, Gap,
      Pending, Holding, Backups, StaleLimit, kept, jobs
<1>1. ASSUME NEW j \in Timers, Fire(j) PROVE IInv'
  <2> USE <1>1 DEF Fire, Recent, Starts, Moves
  <2>1. Types'
    OBVIOUS
  <2>2. Running'
    OBVIOUS
  <2>3. Receipts'
    OBVIOUS
  <2>4. Late'
    OBVIOUS
  <2>5. Gap'
    <3>1. at[j] \in {"forget", "receipt"} /\ j \in Backups => snapshot <= 2
      OBVIOUS
    <3>2. CASE at' = at /\ since' = since
      <4>1. CASE j = "night"
        <5>1. at[j] # "off"
          BY <3>2, <4>1
        <5> QED
          BY <3>1, <3>2, <4>1, <5>1
      <4>2. CASE j = "retry" /\ success <= 6
        BY <3>2, <4>2
      <4>3. CASE j = "retry" /\ at[j] # "off"
        BY <3>1, <3>2, <4>3
      <4>4. CASE j = "test"
        BY <3>2, <4>4
      <4>5. j = "retry" => success <= 6 \/ at[j] # "off"
        BY <3>2
      <4> QED
        BY <4>1, <4>2, <4>3, <4>4, <4>5
    <3>3. CASE at' = [at EXCEPT ![j] = "wait"] /\ since' = [since EXCEPT ![j] = 0]
      <4>1. CASE j = "night"
        BY <3>3, <4>1
      <4>2. CASE j = "retry"
        BY <3>3, <4>2
      <4>3. CASE j = "test"
        BY <3>3, <4>3
      <4> QED
        BY <4>1, <4>2, <4>3
    <3> QED
      BY <3>2, <3>3
  <2> QED
    BY <2>1, <2>2, <2>3, <2>4, <2>5
<1>2. CASE Batch
  <2> USE <1>2 DEF Batch, Starts, Moves
  <2>1. Types'
    OBVIOUS
  <2>2. Running'
    OBVIOUS
  <2>3. Receipts'
    OBVIOUS
  <2>4. Late'
    OBVIOUS
  <2>5. Gap'
    OBVIOUS
  <2> QED
    BY <2>1, <2>2, <2>3, <2>4, <2>5
<1>3. ASSUME NEW j \in Jobs, Take(j) PROVE IInv'
  <2> USE <1>3 DEF Take
  <2>1. Types'
    OBVIOUS
  <2>2. Running'
    OBVIOUS
  <2>3. Receipts'
    OBVIOUS
  <2>4. Late'
    OBVIOUS
  <2>5. Gap'
    OBVIOUS
  <2> QED
    BY <2>1, <2>2, <2>3, <2>4, <2>5
<1>4. ASSUME NEW j \in Jobs, GiveUp(j) PROVE IInv'
  <2> USE <1>4 DEF GiveUp, Stops, Moves, Tells
  <2>1. Types'
    OBVIOUS
  <2>2. Running'
    OBVIOUS
  <2>3. Receipts'
    OBVIOUS
  <2>4. Late'
    OBVIOUS
  <2>5. Gap'
    OBVIOUS
  <2> QED
    BY <2>1, <2>2, <2>3, <2>4, <2>5
<1>5. ASSUME NEW j \in Jobs, Snapshot(j) PROVE IInv'
  <2> USE <1>5 DEF Snapshot, Moves
  <2>1. Types'
    OBVIOUS
  <2>2. Running'
    OBVIOUS
  <2>3. Receipts'
    OBVIOUS
  <2>4. Late'
    OBVIOUS
  <2>5. Gap'
    OBVIOUS
  <2> QED
    BY <2>1, <2>2, <2>3, <2>4, <2>5
<1>6. ASSUME NEW j \in Jobs, ResticFails(j) PROVE IInv'
  <2> USE <1>6 DEF ResticFails, Stops, Moves, Frees, Tells
  <2>1. Types'
    OBVIOUS
  <2>2. Running'
    OBVIOUS
  <2>3. Receipts'
    OBVIOUS
  <2>4. Late'
    OBVIOUS
  <2>5. Gap'
    OBVIOUS
  <2> QED
    BY <2>1, <2>2, <2>3, <2>4, <2>5
<1>7. ASSUME NEW j \in Jobs, Forget(j) PROVE IInv'
  <2> USE <1>7 DEF Forget, Moves, Frees
  <2>1. Types'
    OBVIOUS
  <2>2. Running'
    OBVIOUS
  <2>3. Receipts'
    OBVIOUS
  <2>4. Late'
    OBVIOUS
  <2>5. Gap'
    OBVIOUS
  <2> QED
    BY <2>1, <2>2, <2>3, <2>4, <2>5
<1>8. ASSUME NEW j \in Jobs, WriteSuccess(j) PROVE IInv'
  <2> USE <1>8 DEF WriteSuccess, Stops, Moves
  <2>1. Types'
    OBVIOUS
  <2>2. Running'
    OBVIOUS
  <2>3. Receipts'
    OBVIOUS
  <2>4. Late'
    OBVIOUS
  <2>5. Gap'
    OBVIOUS
  <2> QED
    BY <2>1, <2>2, <2>3, <2>4, <2>5
<1>9. ASSUME NEW j \in Jobs, Ends(j) PROVE IInv'
  <2> USE <1>9 DEF Ends, Stops, Moves, Frees
  <2>1. Types'
    OBVIOUS
  <2>2. Running'
    OBVIOUS
  <2>3. Receipts'
    OBVIOUS
  <2>4. Late'
    OBVIOUS
  <2>5. Gap'
    OBVIOUS
  <2> QED
    BY <2>1, <2>2, <2>3, <2>4, <2>5
<1>10. ASSUME NEW j \in Jobs, TimesOut(j) PROVE IInv'
  <2> USE <1>10 DEF TimesOut, Stops, Moves, Frees, Tells
  <2>1. Types'
    OBVIOUS
  <2>2. Running'
    OBVIOUS
  <2>3. Receipts'
    OBVIOUS
  <2>4. Late'
    OBVIOUS
  <2>5. Gap'
    OBVIOUS
  <2> QED
    BY <2>1, <2>2, <2>3, <2>4, <2>5
<1>11. CASE PowerCut
  <2> USE <1>11 DEF PowerCut, Miss
  <2>1. Types'
    <3>1. up' \in BOOLEAN
      BY Zenon
    <3>2. cuts' \in 0..MaxCuts /\ missed' \in 0..2
      OBVIOUS
    <3> QED
      BY <3>1, <3>2
  <2>2. Running'
    OBVIOUS
  <2>3. Receipts'
    OBVIOUS
  <2>4. Late'
    OBVIOUS
  <2>5. Gap'
    OBVIOUS
  <2> QED
    BY <2>1, <2>2, <2>3, <2>4, <2>5
<1>12. CASE Boot
  <2> USE <1>12 DEF Boot
  <2>1. Types'
    OBVIOUS
  <2>2. Running'
    OBVIOUS
  <2>3. Receipts'
    OBVIOUS
  <2>4. Late'
    OBVIOUS
  <2>5. Gap'
    OBVIOUS
  <2> QED
    BY <2>1, <2>2, <2>3, <2>4, <2>5
<1>13. ASSUME NEW sunday \in BOOLEAN, Pass(sunday) PROVE IInv'
  <2> USE <1>13 DEF Pass, Settled, Older, Miss
  <2>1. Types'
    <3>1. watch' \in 0..7
      OBVIOUS
    <3>2. due' \subseteq Timers
      OBVIOUS
    <3>3. since' \in [Jobs -> Nat]
      OBVIOUS
    <3>4. snapshot' \in 0..Old /\ success' \in 0..Old /\ missed' \in 0..2
      OBVIOUS
    <3> QED
      BY <3>1, <3>2, <3>3, <3>4
  <2>2. Running'
    OBVIOUS
  <2>3. Receipts'
    OBVIOUS
  <2>4. Late'
    OBVIOUS
  <2>5. Gap'
    OBVIOUS
  <2> QED
    BY <2>1, <2>2, <2>3, <2>4, <2>5
<1>14. CASE UNCHANGED vars
  <2> USE <1>14 DEF vars
  <2>1. Types'
    OBVIOUS
  <2>2. Running'
    OBVIOUS
  <2>3. Receipts'
    OBVIOUS
  <2>4. Late'
    OBVIOUS
  <2>5. Gap'
    OBVIOUS
  <2> QED
    BY <2>1, <2>2, <2>3, <2>4, <2>5
<1> QED
  BY <1>1, <1>2, <1>3, <1>4, <1>5, <1>6, <1>7, <1>8, <1>9, <1>10, <1>11, <1>12, <1>13, <1>14
     DEF Next, Job

(* The invariant holds in every reachable state.                           *)
LEMMA InvAlways == Spec => []IInv
<1>1. ASSUME Init PROVE IInv
  <2> USE Schedule, <1>1 DEF Init, Holding, Backups
  <2>1. up \in BOOLEAN
    BY Zenon
  <2>2. Types
    BY <2>1 DEF Types
  <2>3. Running /\ Receipts
    BY DEF Running, Receipts, ReceiptIsHonest
  <2>4. Late /\ Gap
    BY DEF Late, Gap, Pending
  <2> QED
    BY <2>2, <2>3, <2>4 DEF IInv
<1> QED
  BY <1>1, InvStep, PTL DEF Spec

-----------------------------------------------------------------------------
(***************************************************************************)
(* A backup, a restore test and a brain's batch never work at the same     *)
(* time, however they give up, time out, are killed or cut off.            *)
(***************************************************************************)
THEOREM NeverPeakTogether == Spec => []OneAtATime
<1>1. ASSUME IInv PROVE OneAtATime
  <2>1. {j \in Jobs : at[j] \in Holding} \subseteq {lock}
    BY <1>1 DEF IInv, Running
  <2>2. IsFiniteSet({lock}) /\ Cardinality({lock}) = 1
    BY FS_Singleton
  <2> QED
    BY <2>1, <2>2, FS_Subset DEF OneAtATime
<1> QED
  BY <1>1, InvAlways, PTL

(***************************************************************************)
(* The success receipt never promises a younger snapshot than there is,    *)
(* but for the two watches a run may take.                                 *)
(***************************************************************************)
THEOREM ReceiptsTell == Spec => []ReceiptIsHonest
<1>1. IInv => ReceiptIsHonest
  BY DEF IInv, Receipts
<1> QED
  BY <1>1, InvAlways, PTL

(***************************************************************************)
(* With one run cut off without a trace and no failure told, the newest    *)
(* snapshot is at most two days and a run old, at any time of day and      *)
(* whatever else holds the lock, runs late or is skipped as recent.        *)
(***************************************************************************)
THEOREM NoSilentGap == Spec => []GapIsTold
<1>1. ASSUME IInv PROVE GapIsTold
  <2>1. Types /\ Running /\ Gap
    BY <1>1 DEF IInv
  <2>2. \A b \in Backups : since[b] <= 2
    BY <2>1, Schedule DEF Running, Backups
  <2>3. CASE missed = 0
    BY <2>1, <2>3 DEF Types, Gap, GapIsTold
  <2>4. CASE missed = 1
    BY <2>1, <2>2, <2>4, Schedule DEF Types, Gap, GapIsTold, Backups
  <2> QED
    BY <2>1, <2>3, <2>4 DEF Types, GapIsTold
<1> QED
  BY <1>1, InvAlways, PTL

=============================================================================
