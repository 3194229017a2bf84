---------------------------- MODULE SpoolSafety ----------------------------
(***************************************************************************)
(* Proofs about MediaSpool, for any number of events, producers, sizes and *)
(* crashes.  The directory belongs to no transaction: what keeps a file    *)
(* that is still wanted is an argument about the order in which processes  *)
(* without a common lock look at the ledger and at the directory.          *)
(*                                                                         *)
(* It comes in three layers, each on assumptions the code does not enforce *)
(* itself: none for the types; one capture of an event at a time           *)
(* (SingleCapture) for who captures what; and besides that retries within  *)
(* the grace (PromptRetry) and one janitor for the media that waits to be  *)
(* sent.  The quota, at the end, needs none of these: staging holds the    *)
(* write lock.                                                             *)
(***************************************************************************)
EXTENDS MediaSpool, FiniteSetTheorems, TLAPS

(* A capture under way has an event, a janitor about to act on a file has  *)
(* one in mind.                                                            *)
StepsHaveObjects ==
  /\ \A p \in Producer : pc[p] = "idle" \/ item[p] \in Event
  /\ \A j \in Janitor : step[j] \in {"removed", "unlinking"} => victim[j] \in Event

(* Rows that wait for their removal belong to settled deliveries.          *)
RemovalsAreSettled ==
  /\ \A e \in Event : row[e] = "cleanup_pending" => e \in done
  /\ \A j \in Janitor : due[j] \subseteq done

(* What is being captured was not captured before, and by nobody else.     *)
CapturesAreNew ==
  \A p \in Producer : pc[p] # "idle" =>
    /\ item[p] \notin captured
    /\ \A q \in Producer : item[q] = item[p] => q = p

(* The media of a delivery that was settled is not active.                 *)
ActiveIsWaiting == \A e \in Event : row[e] = "active" => e \in captured \ done

(* No capture works on a file that a sweep may condemn.                    *)
CapturesAreYoung ==
  \A p \in Producer : pc[p] # "idle" =>
    /\ file[item[p]] # "old"
    /\ pc[p] \in {"linked", "staged"} => file[item[p]] # "absent"

(* What a janitor took for old is gone or still is.                        *)
AgedAreOld ==
  \A j \in Janitor : \A e \in Event \cap aged[j] : file[e] \in {"absent", "old"}

(* What a sweep condemned has no row, and the file it is about to unlink   *)
(* is the one it looked at.                                                *)
CondemnedAreOrphans ==
  \A j \in Janitor :
    /\ step[j] \in {"sweeping", "unlinking"} => \A e \in Condemned(j) : row[e] = "none"
    /\ step[j] = "unlinking" => victim[j] \in Condemned(j) /\ file[victim[j]] = "old"

(* The three layers.                                                       *)
TypeInvariant    == TypeOK /\ StepsHaveObjects
CaptureInvariant == RemovalsAreSettled /\ CapturesAreNew /\ ActiveIsWaiting
SweepInvariant   == CapturesAreYoung /\ AgedAreOld /\ CondemnedAreOrphans /\ ActiveMediaIsStored

-----------------------------------------------------------------------------
(* Layer 1: types.                                                         *)

LEMMA Bounds == /\ MaxCrashes \in Nat /\ MaximumSpoolBytes \in Nat /\ MaxGrowth \in Nat
                /\ None \notin Event /\ None \notin Producer
                /\ SingleCapture \in BOOLEAN /\ PromptRetry \in BOOLEAN
BY SpoolAssumption

LEMMA InitTypes == Init => TypeInvariant
BY Bounds DEF Init, TypeInvariant, TypeOK, StepsHaveObjects

(* A crash still to be had stays within the bound.                         *)
LEMMA CrashType ==
  ASSUME TypeOK, crashes < MaxCrashes
  PROVE  crashes + 1 \in 0..MaxCrashes
BY Bounds DEF TypeOK

LEMMA ProducerTypes ==
  ASSUME TypeInvariant, NEW p \in Producer, ProducerStep(p)
  PROVE  TypeInvariant'
<1> USE DEF TypeInvariant, TypeOK, StepsHaveObjects, ledger, producer, janitor, Goto, Rest
<1>1. ASSUME NEW e \in Event, Look(p, e) PROVE TypeInvariant'
  BY <1>1 DEF Look
<1>2. CASE Begin(p) \/ Reuse(p) \/ Measure(p) \/ DropTemporary(p)
  BY <1>2 DEF Begin, Reuse, Measure, DropTemporary
<1>3. CASE Link(p)
  BY <1>3 DEF Link
<1>8. CASE Copy(p)
  <2>1. item[p] \in Event /\ copy[p] \in Nat
    BY <1>8 DEF Copy
  <2>2. PICK n \in (copy[p] + 1)..(Size[item[p]] + MaxGrowth) : copy' = [copy EXCEPT ![p] = n]
    BY <1>8 DEF Copy
  <2>3. n \in Nat
    BY <2>1, <2>2, Bounds, SpoolAssumption
  <2>4. copy' \in [Producer -> Nat]
    BY <2>2, <2>3
  <2> QED BY <1>8, <2>4 DEF Copy
<1>4. CASE Commit(p)
  <2>1. item[p] \in Event
    BY <1>4 DEF Commit
  <2> QED BY <1>4, <2>1 DEF Commit
<1>5. CASE StageFails(p) \/ Rollback(p) \/ Abandon(p)
  <2>1. CASE StageFails(p)
    BY <2>1 DEF StageFails
  <2>2. CASE Rollback(p)
    BY <2>2 DEF Rollback
  <2>3. CASE Abandon(p)
    BY <2>3 DEF Abandon
  <2> QED BY <1>5, <2>1, <2>2, <2>3
<1>6. CASE Undo(p)
  <2>1. file' \in [Event -> {"absent", "fresh", "old"}]
    BY <1>6 DEF Undo
  <2> QED BY <1>6, <2>1 DEF Undo
<1>7. CASE ProducerCrash(p)
  <2>1. copy[p] \in Nat /\ crashes \in 0..MaxCrashes
    BY <1>7 DEF ProducerCrash
  <2>2. crashes' \in 0..MaxCrashes
    BY <1>7, CrashType DEF ProducerCrash
  <2>3. stray' \in SUBSET [nr : 0..MaxCrashes, bytes : Nat, old : BOOLEAN]
    <3> DEFINE abandoned == [nr |-> crashes, bytes |-> copy[p], old |-> FALSE]
    <3>1. abandoned \in [nr : 0..MaxCrashes, bytes : Nat, old : BOOLEAN]
      BY <2>1
    <3>2. stray' \subseteq stray \cup {abandoned}
      BY <1>7 DEF ProducerCrash
    <3> HIDE DEF abandoned
    <3> QED BY <3>1, <3>2
  <2> QED BY <1>7, <2>2, <2>3 DEF ProducerCrash
<1> QED BY <1>1, <1>2, <1>3, <1>4, <1>5, <1>6, <1>7, <1>8 DEF ProducerStep

LEMMA JanitorTypes ==
  ASSUME TypeInvariant, NEW j \in Janitor, JanitorStep(j)
  PROVE  TypeInvariant'
<1> USE DEF TypeInvariant, TypeOK, StepsHaveObjects, ledger, producer, janitor, Retire
<1>1. CASE List(j) \/ Snapshot(j) \/ UnlinkFails(j) \/ SweepEnds(j)
  BY <1>1 DEF List, Snapshot, UnlinkFails, SweepEnds
<1>2. CASE Removed(j) \/ Unlink(j)
  BY <1>2 DEF Removed, Unlink
<1>3. CASE Leave(j)
  <2>1. crashes' \in 0..MaxCrashes
    BY <1>3, CrashType DEF Leave
  <2> QED BY <1>3, <2>1 DEF Leave
<1>4. ASSUME NEW e \in Event, Remove(j, e) \/ RemoveFails(j, e) \/ Examine(j, e)
      PROVE  TypeInvariant'
  BY <1>4 DEF Remove, RemoveFails, Examine
<1>5. ASSUME NEW s \in stray, SweepStray(j, s) PROVE TypeInvariant'
  BY <1>5 DEF SweepStray
<1> QED BY <1>1, <1>2, <1>3, <1>4, <1>5 DEF JanitorStep

LEMMA PassingTypes ==
  ASSUME TypeInvariant,
         \/ \E e \in Event : Settle(e) \/ Age(e)
         \/ \E s \in stray : AgeStray(s)
  PROVE  TypeInvariant'
<1> USE DEF TypeInvariant, TypeOK, StepsHaveObjects, ledger, producer, janitor
<1>1. ASSUME NEW e \in Event, Settle(e) \/ Age(e) PROVE TypeInvariant'
  BY <1>1 DEF Settle, Age
<1>2. ASSUME NEW s \in stray, AgeStray(s) PROVE TypeInvariant'
  <2>1. [s EXCEPT !.old = TRUE] \in [nr : 0..MaxCrashes, bytes : Nat, old : BOOLEAN]
    OBVIOUS
  <2> QED BY <1>2, <2>1 DEF AgeStray
<1> QED BY <1>1, <1>2

LEMMA NextTypes == TypeInvariant /\ [Next]_vars => TypeInvariant'
<1> SUFFICES ASSUME TypeInvariant, [Next]_vars PROVE TypeInvariant'
  OBVIOUS
<1>1. CASE UNCHANGED vars
  BY <1>1 DEF vars, ledger, producer, janitor, TypeInvariant, TypeOK, StepsHaveObjects
<1> QED BY <1>1, ProducerTypes, JanitorTypes, PassingTypes DEF Next

LEMMA TypesAlways == Spec => []TypeInvariant
BY InitTypes, NextTypes, PTL DEF Spec

(* Every row, file, program counter and counter of the spool's processes   *)
(* keeps to its type, whatever is interleaved and wherever a process ends; *)
(* and only captured events are ever settled.                              *)
THEOREM SpoolTypes == Spec => []TypeOK
BY TypesAlways, PTL DEF TypeInvariant

-----------------------------------------------------------------------------
(* Layer 2: an event is captured by one producer at a time.                *)

LEMMA InitCaptures == Init => CaptureInvariant
BY DEF Init, CaptureInvariant, RemovalsAreSettled, CapturesAreNew, ActiveIsWaiting

LEMMA ProducerCaptures ==
  ASSUME SingleCapture, TypeInvariant, CaptureInvariant, NEW p \in Producer, ProducerStep(p)
  PROVE  CaptureInvariant'
<1> USE Bounds
    DEF TypeInvariant, TypeOK, StepsHaveObjects, ledger, producer, janitor, Goto, Rest,
        CaptureInvariant, RemovalsAreSettled, CapturesAreNew, ActiveIsWaiting
<1>1. ASSUME NEW e \in Event, Look(p, e) PROVE CaptureInvariant'
  BY <1>1 DEF Look
<1>2. CASE \/ Begin(p) \/ Reuse(p) \/ Measure(p) \/ Copy(p) \/ Link(p) \/ DropTemporary(p)
           \/ Rollback(p)
  BY <1>2 DEF Begin, Reuse, Measure, Copy, Link, DropTemporary, Rollback
<1>3. CASE Commit(p)
  <2>1. /\ item[p] \in Event /\ item[p] \notin captured
        /\ \A q \in Producer \ {p} : pc[q] # "idle" => item[q] # item[p]
    BY <1>3 DEF Commit
  <2> QED BY <1>3, <2>1 DEF Commit
<1>4. CASE StageFails(p) \/ Undo(p) \/ Abandon(p) \/ ProducerCrash(p)
  BY <1>4 DEF StageFails, Undo, Abandon, ProducerCrash
<1> QED BY <1>1, <1>2, <1>3, <1>4 DEF ProducerStep

LEMMA JanitorCaptures ==
  ASSUME TypeInvariant, CaptureInvariant, NEW j \in Janitor, JanitorStep(j)
  PROVE  CaptureInvariant'
<1> USE DEF TypeInvariant, TypeOK, StepsHaveObjects, ledger, producer, janitor, Retire,
            CaptureInvariant, RemovalsAreSettled, CapturesAreNew, ActiveIsWaiting
<1>1. CASE List(j) \/ Snapshot(j) \/ Unlink(j) \/ UnlinkFails(j) \/ SweepEnds(j) \/ Leave(j)
  BY <1>1 DEF List, Snapshot, Unlink, UnlinkFails, SweepEnds, Leave
<1>2. CASE Removed(j)
  BY <1>2 DEF Removed
<1>3. ASSUME NEW e \in Event, Remove(j, e) \/ RemoveFails(j, e) \/ Examine(j, e)
      PROVE  CaptureInvariant'
  BY <1>3 DEF Remove, RemoveFails, Examine
<1>4. ASSUME NEW s \in stray, SweepStray(j, s) PROVE CaptureInvariant'
  BY <1>4 DEF SweepStray
<1> QED BY <1>1, <1>2, <1>3, <1>4 DEF JanitorStep

LEMMA PassingCaptures ==
  ASSUME TypeInvariant, CaptureInvariant,
         \/ \E e \in Event : Settle(e) \/ Age(e)
         \/ \E s \in stray : AgeStray(s)
  PROVE  CaptureInvariant'
BY DEF TypeInvariant, TypeOK, ledger, producer, janitor, Settle, Age, AgeStray,
       CaptureInvariant, RemovalsAreSettled, CapturesAreNew, ActiveIsWaiting

LEMMA NextCaptures ==
  ASSUME SingleCapture
  PROVE  TypeInvariant /\ CaptureInvariant /\ [Next]_vars => CaptureInvariant'
<1> SUFFICES ASSUME TypeInvariant, CaptureInvariant, [Next]_vars PROVE CaptureInvariant'
  OBVIOUS
<1>1. CASE UNCHANGED vars
  BY <1>1 DEF vars, ledger, producer, janitor, CaptureInvariant, RemovalsAreSettled,
              CapturesAreNew, ActiveIsWaiting
<1> QED BY <1>1, ProducerCaptures, JanitorCaptures, PassingCaptures DEF Next

LEMMA CapturesAlways ==
  ASSUME SingleCapture
  PROVE  Spec => [](TypeInvariant /\ CaptureInvariant)
<1>1. Init => CaptureInvariant
  BY InitCaptures
<1>2. TypeInvariant /\ CaptureInvariant /\ [Next]_vars => CaptureInvariant'
  BY NextCaptures
<1> QED BY <1>1, <1>2, TypesAlways, PTL DEF Spec

-----------------------------------------------------------------------------
(* Layer 3: what is still wanted is in the directory.                      *)

LEMMA InitSweeps == Init => SweepInvariant
BY DEF Init, SweepInvariant, CapturesAreYoung, AgedAreOld, CondemnedAreOrphans,
       ActiveMediaIsStored

(* What a producer works on belongs to no row and to no sweep.             *)
LEMMA ItemsAreOwn ==
  ASSUME TypeInvariant, CaptureInvariant, SweepInvariant, NEW p \in Producer, pc[p] # "idle"
  PROVE  /\ item[p] \in Event /\ row[item[p]] # "active"
         /\ \A q \in Producer \ {p} : pc[q] # "idle" => item[q] # item[p]
         /\ \A j \in Janitor : step[j] = "unlinking" => victim[j] # item[p]
         /\ \A j \in Janitor : item[p] \notin due[j]
BY DEF TypeInvariant, TypeOK, StepsHaveObjects, CaptureInvariant, RemovalsAreSettled,
       CapturesAreNew, ActiveIsWaiting, SweepInvariant, CapturesAreYoung, CondemnedAreOrphans

(* Steps of a producer that touch neither the directory nor a row.         *)
LEMMA ProducerSweepsIdle ==
  ASSUME PromptRetry, TypeInvariant, SweepInvariant, NEW p \in Producer,
         \/ \E e \in Event : Look(p, e)
         \/ Begin(p) \/ Reuse(p) \/ Measure(p) \/ Copy(p) \/ DropTemporary(p)
         \/ StageFails(p) \/ Rollback(p) \/ Abandon(p) \/ ProducerCrash(p)
  PROVE  SweepInvariant'
<1>1. UNCHANGED <<row, file, step, referenced, aged, victim>>
  BY DEF Look, Begin, Reuse, Measure, Copy, DropTemporary, StageFails, Rollback, Abandon,
         ProducerCrash, ledger, janitor
<1>2. AgedAreOld' /\ CondemnedAreOrphans' /\ ActiveMediaIsStored'
  BY <1>1 DEF SweepInvariant, AgedAreOld, CondemnedAreOrphans, Condemned, ActiveMediaIsStored
<1>3. CapturesAreYoung'
  BY <1>1 DEF SweepInvariant, CapturesAreYoung, TypeInvariant, TypeOK, producer, Goto, Rest,
              Look, Begin, Reuse, Measure, Copy, DropTemporary, StageFails, Rollback, Abandon,
              ProducerCrash
<1> QED BY <1>2, <1>3 DEF SweepInvariant

LEMMA LinkSweeps ==
  ASSUME TypeInvariant, CaptureInvariant, SweepInvariant, NEW p \in Producer, Link(p)
  PROVE  SweepInvariant'
<1> DEFINE e == item[p]
<1>1. /\ e \in Event
      /\ \A q \in Producer \ {p} : pc[q] # "idle" => item[q] # e
  BY ItemsAreOwn DEF Link
<1>2. /\ file' = [file EXCEPT ![e] = IF @ = "absent" THEN "fresh" ELSE @]
      /\ aged' = [j \in Janitor |-> IF file[e] = "absent" THEN aged[j] \ {e} ELSE aged[j]]
      /\ pc' = [pc EXCEPT ![p] = "linked"]
      /\ UNCHANGED <<row, item, step, referenced, victim>>
  BY DEF Link, Goto, ledger
<1>3. file[e] # "old"
  BY DEF Link, SweepInvariant, CapturesAreYoung
<1> HIDE DEF e
<1> USE DEF TypeInvariant, TypeOK, SweepInvariant
<1>4. CapturesAreYoung'
  BY <1>1, <1>2, <1>3 DEF CapturesAreYoung, e
<1>5. AgedAreOld'
  BY <1>1, <1>2 DEF AgedAreOld
<1>6. \A j \in Janitor : Condemned(j)' \subseteq Condemned(j)
  BY <1>1, <1>2 DEF Condemned
<1>7. CondemnedAreOrphans'
  <2> SUFFICES ASSUME NEW j \in Janitor
               PROVE  /\ step[j] \in {"sweeping", "unlinking"}
                           => \A f \in Condemned(j)' : row[f] = "none"
                      /\ step[j] = "unlinking"
                           => victim[j] \in Condemned(j)' /\ file'[victim[j]] = "old"
    BY <1>2 DEF CondemnedAreOrphans
  <2>1. step[j] \in {"sweeping", "unlinking"} => \A f \in Condemned(j)' : row[f] = "none"
    BY <1>6 DEF CondemnedAreOrphans
  <2>2. ASSUME step[j] = "unlinking"
        PROVE  victim[j] \in Condemned(j)' /\ file'[victim[j]] = "old"
    <3>1. victim[j] \in Condemned(j) /\ file[victim[j]] = "old" /\ victim[j] # e
      BY <1>3, <2>2 DEF CondemnedAreOrphans
    <3> QED BY <1>1, <1>2, <3>1 DEF Condemned
  <2> QED BY <2>1, <2>2
<1>8. ActiveMediaIsStored'
  BY <1>1, <1>2 DEF ActiveMediaIsStored
<1> QED BY <1>4, <1>5, <1>7, <1>8

LEMMA CommitSweeps ==
  ASSUME TypeInvariant, CaptureInvariant, SweepInvariant, NEW p \in Producer, Commit(p)
  PROVE  SweepInvariant'
<1> DEFINE e == item[p]
<1>1. /\ e \in Event
      /\ file[e] = "fresh"
  BY ItemsAreOwn DEF Commit, SweepInvariant, CapturesAreYoung, TypeInvariant, TypeOK
<1>2. /\ row' = [row EXCEPT ![e] = IF @ = "none" THEN "active" ELSE @]
      /\ pc' = [pc EXCEPT ![p] = "idle"] /\ item' = [item EXCEPT ![p] = None]
      /\ UNCHANGED <<file, step, referenced, aged, victim>>
  BY DEF Commit, Rest, janitor
<1>3. \A j \in Janitor : e \notin aged[j]
  BY <1>1 DEF SweepInvariant, AgedAreOld
<1> HIDE DEF e
<1> USE DEF TypeInvariant, TypeOK, SweepInvariant
<1>4. CapturesAreYoung' /\ AgedAreOld'
  BY <1>2 DEF CapturesAreYoung, AgedAreOld
<1>5. CondemnedAreOrphans'
  BY <1>1, <1>2, <1>3 DEF CondemnedAreOrphans, Condemned
<1>6. ActiveMediaIsStored'
  BY <1>1, <1>2 DEF ActiveMediaIsStored
<1> QED BY <1>4, <1>5, <1>6

LEMMA UndoSweeps ==
  ASSUME TypeInvariant, CaptureInvariant, SweepInvariant, NEW p \in Producer, Undo(p)
  PROVE  SweepInvariant'
<1> DEFINE e == item[p]
<1>1. /\ e \in Event /\ row[e] # "active"
      /\ \A q \in Producer \ {p} : pc[q] # "idle" => item[q] # e
      /\ \A j \in Janitor : step[j] = "unlinking" => victim[j] # e
  BY ItemsAreOwn DEF Undo
<1>2. /\ file' = [file EXCEPT ![e] = IF created[p] THEN "absent" ELSE @]
      /\ pc' = [pc EXCEPT ![p] = "idle"] /\ item' = [item EXCEPT ![p] = None]
      /\ UNCHANGED <<row, step, referenced, aged, victim>>
  BY DEF Undo, Rest, ledger, janitor
<1> HIDE DEF e
<1> USE DEF TypeInvariant, TypeOK, SweepInvariant
<1>3. CapturesAreYoung'
  BY <1>1, <1>2 DEF CapturesAreYoung
<1>4. AgedAreOld' /\ ActiveMediaIsStored'
  BY <1>1, <1>2 DEF AgedAreOld, ActiveMediaIsStored
<1>5. CondemnedAreOrphans'
  BY <1>1, <1>2 DEF CondemnedAreOrphans, Condemned
<1> QED BY <1>3, <1>4, <1>5

LEMMA ProducerSweeps ==
  ASSUME PromptRetry, TypeInvariant, CaptureInvariant, SweepInvariant,
         NEW p \in Producer, ProducerStep(p)
  PROVE  SweepInvariant'
BY ProducerSweepsIdle, LinkSweeps, CommitSweeps, UndoSweeps DEF ProducerStep

(* Steps of a janitor that leave the directory and the rows as they are.   *)
LEMMA JanitorLooks ==
  ASSUME TypeInvariant, SweepInvariant, NEW j \in Janitor,
         \/ List(j) \/ Snapshot(j) \/ UnlinkFails(j) \/ SweepEnds(j) \/ Leave(j)
         \/ \E e \in Event : RemoveFails(j, e) \/ Examine(j, e)
         \/ \E s \in stray : SweepStray(j, s)
  PROVE  SweepInvariant'
<1> USE DEF TypeInvariant, TypeOK, SweepInvariant
<1>1. UNCHANGED <<row, file, pc, item>>
  BY DEF List, Snapshot, UnlinkFails, SweepEnds, Leave, RemoveFails, Examine, SweepStray,
         ledger, producer
<1>2. CapturesAreYoung' /\ ActiveMediaIsStored'
  BY <1>1 DEF CapturesAreYoung, ActiveMediaIsStored
<1>3. AgedAreOld' /\ CondemnedAreOrphans'
  <2>1. CASE List(j)
    <3>1. \A e \in Event : e \notin stray
      BY Bounds, SpoolAssumption
    <3>2. AgedAreOld'
      BY <1>1, <2>1, <3>1 DEF List, AgedAreOld
    <3>3. CondemnedAreOrphans'
      BY <1>1, <2>1 DEF List, CondemnedAreOrphans, Condemned
    <3> QED BY <3>2, <3>3
  <2>2. CASE Snapshot(j)
    BY <1>1, <2>2 DEF Snapshot, AgedAreOld, CondemnedAreOrphans, Condemned
  <2>3. CASE UnlinkFails(j)
    BY <1>1, <2>3 DEF UnlinkFails, AgedAreOld, CondemnedAreOrphans, Condemned
  <2>4. CASE SweepEnds(j) \/ Leave(j)
    <3>1. /\ step' = [step EXCEPT ![j] = "idle"] /\ aged' = [aged EXCEPT ![j] = {}]
          /\ referenced' = [referenced EXCEPT ![j] = {}]
          /\ victim' = [victim EXCEPT ![j] = None]
      BY <2>4 DEF SweepEnds, Leave, Retire
    <3>2. AgedAreOld'
      BY <1>1, <3>1 DEF AgedAreOld
    <3>3. ASSUME NEW k \in Janitor, k # j
          PROVE  /\ step'[k] = step[k] /\ victim'[k] = victim[k]
                 /\ Condemned(k)' = Condemned(k)
      BY <1>1, <3>1, <3>3 DEF Condemned
    <3>4. CondemnedAreOrphans'
      BY <1>1, <3>1, <3>3 DEF CondemnedAreOrphans
    <3> QED BY <3>2, <3>4
  <2>5. ASSUME NEW e \in Event, RemoveFails(j, e) PROVE AgedAreOld' /\ CondemnedAreOrphans'
    BY <1>1, <2>5 DEF RemoveFails, AgedAreOld, CondemnedAreOrphans, Condemned
  <2>6. ASSUME NEW e \in Event, Examine(j, e) PROVE AgedAreOld' /\ CondemnedAreOrphans'
    BY <1>1, <2>6 DEF Examine, AgedAreOld, CondemnedAreOrphans, Condemned
  <2>7. ASSUME NEW s \in stray, SweepStray(j, s) PROVE AgedAreOld' /\ CondemnedAreOrphans'
    <3>1. \A e \in Event : e # s
      BY Bounds, SpoolAssumption
    <3> QED BY <1>1, <2>7, <3>1 DEF SweepStray, AgedAreOld, CondemnedAreOrphans, Condemned
  <2> QED BY <2>1, <2>2, <2>3, <2>4, <2>5, <2>6, <2>7
<1> QED BY <1>2, <1>3

(* Steps of a janitor that take a file or a row.                           *)
LEMMA JanitorTakes ==
  ASSUME \A k, l \in Janitor : k = l,
         TypeInvariant, CaptureInvariant, SweepInvariant, NEW j \in Janitor,
         Removed(j) \/ Unlink(j) \/ \E e \in Event : Remove(j, e)
  PROVE  SweepInvariant'
<1> USE DEF TypeInvariant, TypeOK, SweepInvariant
<1>1. ASSUME NEW e \in Event, Remove(j, e) PROVE SweepInvariant'
  <2>1. /\ step[j] = "cleaning"
        /\ file' = [file EXCEPT ![e] = "absent"]
        /\ step' = [step EXCEPT ![j] = "removed"]
        /\ UNCHANGED <<row, pc, item, referenced, aged>>
    BY <1>1 DEF Remove, ledger, producer
  <2>2. row[e] # "active" /\ \A p \in Producer : pc[p] # "idle" => item[p] # e
    BY <1>1 DEF Remove, CaptureInvariant, RemovalsAreSettled, CapturesAreNew, ActiveIsWaiting
  <2>3. CapturesAreYoung'
    BY <2>1, <2>2 DEF CapturesAreYoung, StepsHaveObjects
  <2>4. AgedAreOld' /\ CondemnedAreOrphans' /\ ActiveMediaIsStored'
    BY <2>1, <2>2 DEF AgedAreOld, CondemnedAreOrphans, ActiveMediaIsStored
  <2> QED BY <2>3, <2>4
<1>2. CASE Removed(j)
  <2>1. /\ step[j] = "removed" /\ victim[j] \in Event
        /\ row' = [row EXCEPT ![victim[j]] = IF @ = "cleanup_pending" THEN "none" ELSE @]
        /\ step' = [step EXCEPT ![j] = "cleaning"]
        /\ UNCHANGED <<file, pc, item, referenced, aged>>
    BY <1>2 DEF Removed, producer, StepsHaveObjects
  <2>2. CapturesAreYoung' /\ AgedAreOld' /\ CondemnedAreOrphans'
    BY <2>1 DEF CapturesAreYoung, AgedAreOld, CondemnedAreOrphans
  <2>3. ActiveMediaIsStored'
    BY <2>1 DEF ActiveMediaIsStored
  <2> QED BY <2>2, <2>3
<1>3. CASE Unlink(j)
  <2> DEFINE e == victim[j]
  <2>1. /\ e \in Event /\ file[e] = "old" /\ row[e] = "none" /\ step[j] = "unlinking"
    BY <1>3 DEF Unlink, CondemnedAreOrphans, Condemned
  <2>2. /\ file' = [file EXCEPT ![e] = "absent"]
        /\ step' = [step EXCEPT ![j] = "sweeping"]
        /\ aged' = [aged EXCEPT ![j] = @ \ {e}]
        /\ UNCHANGED <<row, pc, item, referenced>>
    BY <1>3 DEF Unlink, ledger, producer
  <2> HIDE DEF e
  <2>3. CapturesAreYoung'
    BY <2>1, <2>2 DEF CapturesAreYoung, StepsHaveObjects
  <2>4. AgedAreOld' /\ ActiveMediaIsStored'
    BY <2>1, <2>2 DEF AgedAreOld, ActiveMediaIsStored
  <2>5. CondemnedAreOrphans'
    <3>1. Condemned(j)' \subseteq Condemned(j) /\ step'[j] = "sweeping"
      BY <2>1, <2>2 DEF Condemned
    <3> QED BY <2>1, <2>2, <3>1 DEF CondemnedAreOrphans
  <2> QED BY <2>3, <2>4, <2>5
<1> QED BY <1>1, <1>2, <1>3

(* Time passes, or a delivery settles.                                     *)
LEMMA PassingSweeps ==
  ASSUME PromptRetry, TypeInvariant, CaptureInvariant, SweepInvariant,
         \/ \E e \in Event : Settle(e) \/ Age(e)
         \/ \E s \in stray : AgeStray(s)
  PROVE  SweepInvariant'
<1> USE DEF TypeInvariant, TypeOK, SweepInvariant
<1>1. ASSUME NEW e \in Event, Settle(e) PROVE SweepInvariant'
  <2>1. /\ row' = [row EXCEPT ![e] = IF @ = "active" THEN "cleanup_pending" ELSE @]
        /\ UNCHANGED <<file, pc, item, step, referenced, aged, victim>>
    BY <1>1 DEF Settle, producer, janitor
  <2>2. CapturesAreYoung' /\ AgedAreOld' /\ ActiveMediaIsStored'
    BY <2>1 DEF CapturesAreYoung, AgedAreOld, ActiveMediaIsStored
  <2>3. CondemnedAreOrphans'
    BY <2>1 DEF CondemnedAreOrphans, Condemned
  <2> QED BY <2>2, <2>3
<1>2. ASSUME NEW e \in Event, Age(e) PROVE SweepInvariant'
  <2>1. /\ file[e] = "fresh"
        /\ \A p \in Producer : item[p] # e
        /\ file' = [file EXCEPT ![e] = "old"]
        /\ UNCHANGED <<row, pc, item, step, referenced, aged, victim>>
    BY <1>2 DEF Age, ledger, producer, janitor
  <2>2. CapturesAreYoung' /\ AgedAreOld' /\ ActiveMediaIsStored'
    BY <2>1 DEF CapturesAreYoung, AgedAreOld, ActiveMediaIsStored, StepsHaveObjects
  <2>3. CondemnedAreOrphans'
    BY <2>1 DEF CondemnedAreOrphans, Condemned
  <2> QED BY <2>2, <2>3
<1>3. ASSUME NEW s \in stray, AgeStray(s) PROVE SweepInvariant'
  BY <1>3 DEF AgeStray, ledger, producer, janitor, CapturesAreYoung, AgedAreOld,
              CondemnedAreOrphans, Condemned, ActiveMediaIsStored
<1> QED BY <1>1, <1>2, <1>3

LEMMA NextSweeps ==
  ASSUME PromptRetry, \A k, l \in Janitor : k = l
  PROVE  TypeInvariant /\ CaptureInvariant /\ SweepInvariant /\ [Next]_vars => SweepInvariant'
<1> SUFFICES ASSUME TypeInvariant, CaptureInvariant, SweepInvariant, [Next]_vars
             PROVE  SweepInvariant'
  OBVIOUS
<1>1. CASE UNCHANGED vars
  BY <1>1 DEF vars, ledger, producer, janitor, SweepInvariant, CapturesAreYoung, AgedAreOld,
              CondemnedAreOrphans, Condemned, ActiveMediaIsStored
<1>2. ASSUME NEW j \in Janitor, JanitorStep(j) PROVE SweepInvariant'
  BY <1>2, JanitorLooks, JanitorTakes DEF JanitorStep
<1> QED BY <1>1, <1>2, ProducerSweeps, PassingSweeps DEF Next

(* The attachment of a delivery that waits is in the spool, with any       *)
(* number of producers, events, failures and crashes: a failed capture     *)
(* takes only the file of an event that nobody has captured, a cleanup     *)
(* only that of a settled delivery, and a sweep only a file that was old   *)
(* before it looked at the rows, which no capture still under way adopts.  *)
THEOREM WaitingMediaIsStored ==
  ASSUME SingleCapture, PromptRetry, \A k, l \in Janitor : k = l
  PROVE  Spec => []ActiveMediaIsStored
<1>1. Init => SweepInvariant
  BY InitSweeps
<1>2. TypeInvariant /\ CaptureInvariant /\ SweepInvariant /\ [Next]_vars => SweepInvariant'
  BY NextSweeps
<1>3. Spec => [](TypeInvariant /\ CaptureInvariant)
  BY CapturesAlways
<1>4. SweepInvariant => ActiveMediaIsStored
  BY DEF SweepInvariant
<1> QED BY <1>1, <1>2, <1>3, <1>4, PTL DEF Spec

-----------------------------------------------------------------------------
(* The quota, again on no assumption: staging is serialised by the write   *)
(* lock, and nothing else adds to the directory.                           *)

Staging(p) == pc[p] \in {"staging", "copying", "linked", "staged"}

(* The three parts of the directory, of which the first two outlive a      *)
(* capture.                                                                *)
FileBytes  == Cardinality(Bytes(Published, Size))
StrayBytes == Cardinality(Bytes(stray, [s \in stray |-> s.bytes]))
CopyBytes  == Cardinality(Bytes(Copying, copy))
Kept       == FileBytes + StrayBytes

(* Whoever stages holds the write lock.                                    *)
StagersWrite == \A p \in Producer : Staging(p) => writer = p

(* What was measured still fits until it is published, and a copy has at   *)
(* most what its source gained on top.                                     *)
RoomIsKept ==
  \A p \in Producer :
    /\ pc[p] = "copying" => /\ Kept + Size[item[p]] <= MaximumSpoolBytes
                            /\ copy[p] <= Size[item[p]] + MaxGrowth
    /\ pc[p] = "linked" => Kept <= MaximumSpoolBytes /\ copy[p] = Size[item[p]]

(* What one producer may leave over the cap.                               *)
Within(n) == \/ n <= MaximumSpoolBytes + MaxGrowth
             \/ \E e \in Event : n <= MaximumSpoolBytes + Size[e]

QuotaInvariant ==
  /\ StagersWrite
  /\ IsFiniteSet(stray)
  /\ RoomIsKept
  /\ FileBytes <= MaximumSpoolBytes
  /\ Within(Kept)

(* The bytes of a set of files: they are finitely many, those of one more  *)
(* file come on top, and fewer files have no more.                         *)
LEMMA BytesOfOne ==
  ASSUME NEW x, NEW n \in Nat
  PROVE  IsFiniteSet({x} \X (1..n)) /\ Cardinality({x} \X (1..n)) = n
<1> DEFINE A == {x}
           B == 1..n
<1>1. IsFiniteSet(A) /\ Cardinality(A) = 1
  BY FS_Singleton
<1>2. IsFiniteSet(B) /\ Cardinality(B) = n
  BY FS_Interval
<1> HIDE DEF A, B
<1>3. IsFiniteSet(A \X B) /\ Cardinality(A \X B) = Cardinality(A) * Cardinality(B)
  BY <1>1, <1>2, FS_Product
<1>4. IsFiniteSet(A \X B) /\ Cardinality(A \X B) = n
  BY <1>1, <1>2, <1>3
<1> QED BY <1>4 DEF A, B

LEMMA BytesFinite ==
  ASSUME NEW S, IsFiniteSet(S), NEW size, \A x \in S : size[x] \in Nat
  PROVE  IsFiniteSet(Bytes(S, size)) /\ Cardinality(Bytes(S, size)) \in Nat
<1> DEFINE F == {{x} \X (1..size[x]) : x \in S}
           f == [x \in S |-> {x} \X (1..size[x])]
<1>1. f \in Surjection(S, F)
  BY DEF Surjection
<1>2. IsFiniteSet(F)
  BY <1>1, FS_Surjection
<1>3. ASSUME NEW T \in F PROVE IsFiniteSet(T)
  <2>1. PICK x \in S : T = {x} \X (1..size[x])
    OBVIOUS
  <2> HIDE DEF F
  <2>2. IsFiniteSet({x} \X (1..size[x]))
    BY BytesOfOne
  <2> QED BY <2>1, <2>2
<1>4. IsFiniteSet(UNION F)
  BY <1>2, <1>3, FS_UNION
<1> QED BY <1>4, FS_CardinalityType DEF Bytes

LEMMA BytesAdd ==
  ASSUME NEW S, IsFiniteSet(S), NEW size, NEW x, \A y \in S \cup {x} : size[y] \in Nat,
         x \notin S
  PROVE  Cardinality(Bytes(S \cup {x}, size)) = Cardinality(Bytes(S, size)) + size[x]
<1> DEFINE A == Bytes(S, size)
           B == {x} \X (1..size[x])
<1>1. IsFiniteSet(A) /\ Cardinality(A) \in Nat
  BY BytesFinite
<1>2. IsFiniteSet(B) /\ Cardinality(B) = size[x]
  BY BytesOfOne
<1>3. A \cap B = {}
  BY DEF Bytes
<1>4. Bytes(S \cup {x}, size) = A \cup B
  BY DEF Bytes
<1> HIDE DEF A, B
<1>5. Cardinality(A \cup B) = Cardinality(A) + Cardinality(B) - Cardinality(A \cap B)
  BY <1>1, <1>2, FS_Union
<1>6. Cardinality(A \cap B) = 0
  BY <1>3, FS_EmptySet
<1>7. Cardinality(A \cup B) = Cardinality(A) + size[x]
  BY <1>1, <1>2, <1>5, <1>6
<1> QED BY <1>4, <1>7 DEF A

LEMMA BytesFewer ==
  ASSUME NEW S, IsFiniteSet(S), NEW T, T \subseteq S,
         NEW size, NEW other, \A x \in S : size[x] \in Nat, \A x \in T : other[x] = size[x]
  PROVE  /\ IsFiniteSet(T)
         /\ Cardinality(Bytes(T, other)) \in Nat
         /\ Cardinality(Bytes(T, other)) <= Cardinality(Bytes(S, size))
<1>1. IsFiniteSet(T)
  BY FS_Subset
<1>2. Bytes(T, other) \subseteq Bytes(S, size)
  BY DEF Bytes
<1>3. IsFiniteSet(Bytes(S, size)) /\ IsFiniteSet(Bytes(T, other))
  BY <1>1, BytesFinite
<1> QED BY <1>1, <1>2, <1>3, FS_Subset, FS_CardinalityType

LEMMA BytesOfNone == ASSUME NEW size PROVE Cardinality(Bytes({}, size)) = 0
<1>1. Bytes({}, size) = {}
  BY DEF Bytes
<1> QED BY <1>1, FS_EmptySet

LEMMA BytesOfFile ==
  ASSUME NEW x, NEW size, size[x] \in Nat
  PROVE  Cardinality(Bytes({x}, size)) = size[x]
<1>1. Bytes({x}, size) = {x} \X (1..size[x])
  BY DEF Bytes
<1> QED BY <1>1, BytesOfOne

LEMMA Sizes == /\ \A e \in Event : Size[e] \in Nat /\ Size[e] >= 1
               /\ IsFiniteSet(Event) /\ IsFiniteSet(Published)
               /\ MaximumSpoolBytes \in Nat /\ MaxGrowth \in Nat
<1>1. IsFiniteSet(Event) /\ Published \subseteq Event
  BY SpoolAssumption DEF Published
<1>2. IsFiniteSet(Published)
  BY <1>1, FS_Subset
<1> QED BY <1>1, <1>2, SpoolAssumption

(* The parts of the directory have a size.                                 *)
LEMMA KeptType ==
  ASSUME TypeInvariant, IsFiniteSet(stray)
  PROVE  FileBytes \in Nat /\ StrayBytes \in Nat /\ Kept \in Nat
<1> USE DEF TypeInvariant, TypeOK
<1>1. FileBytes \in Nat
  BY Sizes, BytesFinite DEF FileBytes, Published
<1>2. StrayBytes \in Nat
  <2> DEFINE size == [s \in stray |-> s.bytes]
  <2>1. \A s \in stray : size[s] \in Nat
    OBVIOUS
  <2> HIDE DEF size
  <2>2. Cardinality(Bytes(stray, size)) \in Nat
    BY <2>1, BytesFinite
  <2> QED BY <2>2 DEF StrayBytes, size
<1> QED BY <1>1, <1>2 DEF Kept

LEMMA OneStager ==
  ASSUME StagersWrite, NEW p \in Producer, Staging(p), NEW q \in Producer, Staging(q)
  PROVE  p = q
BY DEF StagersWrite

(* What the invariant says of the whole directory.                         *)
LEMMA InvariantMeansQuota == TypeInvariant /\ QuotaInvariant => SpoolWithinQuota
<1> SUFFICES ASSUME TypeInvariant, QuotaInvariant PROVE SpoolWithinQuota
  OBVIOUS
<1>1. FileBytes \in Nat /\ StrayBytes \in Nat /\ Kept \in Nat
  BY KeptType DEF QuotaInvariant
<1>2. Usage = Kept + CopyBytes
  BY DEF Usage, Kept, FileBytes, StrayBytes, CopyBytes
<1>3. Within(Usage)
  <2>1. CASE Copying = {}
    <3>1. CopyBytes = 0
      BY <2>1, BytesOfNone DEF CopyBytes
    <3>2. Usage = Kept
      BY <1>1, <1>2, <3>1
    <3> QED BY <3>2 DEF QuotaInvariant
  <2>2. ASSUME NEW p \in Copying PROVE Within(Usage)
    <3>1. p \in Producer /\ pc[p] \in {"copying", "linked"}
      BY DEF Copying
    <3>2. item[p] \in Event /\ Size[item[p]] \in Nat /\ copy[p] \in Nat
      BY <3>1, Sizes DEF TypeInvariant, TypeOK, StepsHaveObjects
    <3>3. \A q \in Copying : q = p
      BY <3>1, OneStager DEF QuotaInvariant, Staging, Copying
    <3>4. Copying = {p}
      BY <3>3
    <3>5. CopyBytes = copy[p]
      BY <3>2, <3>4, BytesOfFile DEF CopyBytes
    <3>6. CASE pc[p] = "copying"
      <4>1. Kept + Size[item[p]] <= MaximumSpoolBytes /\ copy[p] <= Size[item[p]] + MaxGrowth
        BY <3>1, <3>6 DEF QuotaInvariant, RoomIsKept
      <4>2. Kept + copy[p] <= MaximumSpoolBytes + MaxGrowth
        BY <1>1, <3>2, <4>1, Sizes
      <4> QED BY <1>2, <3>5, <4>2 DEF Within
    <3>7. CASE pc[p] = "linked"
      <4>1. Kept <= MaximumSpoolBytes /\ copy[p] = Size[item[p]]
        BY <3>1, <3>7 DEF QuotaInvariant, RoomIsKept
      <4>2. Kept + copy[p] <= MaximumSpoolBytes + Size[item[p]]
        BY <1>1, <3>2, <4>1, Sizes
      <4> QED BY <1>2, <3>2, <3>5, <4>2 DEF Within
    <3> QED BY <3>1, <3>6, <3>7
  <2> QED BY <2>1, <2>2
<1> QED BY <1>3 DEF QuotaInvariant, SpoolWithinQuota, Within, FileBytes

(* A part of the directory that lost files, and got none, has no more.     *)
LEMMA FileBytesFall ==
  ASSUME Published' \subseteq Published
  PROVE  FileBytes' \in Nat /\ FileBytes' <= FileBytes
<1>1. \A e \in Published : Size[e] \in Nat
  BY Sizes DEF Published
<1> QED BY <1>1, Sizes, BytesFewer DEF FileBytes

LEMMA StrayBytesFall ==
  ASSUME TypeInvariant, IsFiniteSet(stray), stray' \subseteq stray
  PROVE  IsFiniteSet(stray') /\ StrayBytes' \in Nat /\ StrayBytes' <= StrayBytes
<1> DEFINE size  == [s \in stray |-> s.bytes]
           other == [s \in stray' |-> s.bytes]
<1>1. \A s \in stray : size[s] \in Nat
  BY DEF TypeInvariant, TypeOK
<1>2. \A s \in stray' : other[s] = size[s]
  OBVIOUS
<1> HIDE DEF size, other
<1>3. /\ IsFiniteSet(stray') /\ Cardinality(Bytes(stray', other)) \in Nat
      /\ Cardinality(Bytes(stray', other)) <= Cardinality(Bytes(stray, size))
  BY <1>1, <1>2, BytesFewer
<1> QED BY <1>3 DEF StrayBytes, size, other

(* One more stray copy adds its bytes, unless it was there.                *)
LEMMA StrayBytesOfOneMore ==
  ASSUME NEW R, IsFiniteSet(R), NEW s, \A x \in R \cup {s} : x.bytes \in Nat
  PROVE  LET before == Cardinality(Bytes(R, [x \in R |-> x.bytes]))
             after  == Cardinality(Bytes(R \cup {s}, [x \in R \cup {s} |-> x.bytes]))
         IN  /\ IsFiniteSet(R \cup {s})
             /\ before \in Nat /\ after \in Nat
             /\ after <= before + s.bytes
             /\ s \notin R => after = before + s.bytes
<1> DEFINE small == [x \in R |-> x.bytes]
           big   == [x \in R \cup {s} |-> x.bytes]
<1>1. /\ \A x \in R : small[x] \in Nat /\ big[x] = small[x]
      /\ \A x \in R \cup {s} : big[x] \in Nat
      /\ big[s] = s.bytes /\ s.bytes \in Nat
  OBVIOUS
<1>2. IsFiniteSet(R \cup {s})
  BY FS_AddElement
<1> HIDE DEF small, big
<1>3. Cardinality(Bytes(R, small)) \in Nat /\ Cardinality(Bytes(R \cup {s}, big)) \in Nat
  BY <1>1, <1>2, BytesFinite
<1>4. CASE s \in R
  <2>1. R \cup {s} = R
    BY <1>4
  <2>2. Cardinality(Bytes(R, big)) <= Cardinality(Bytes(R, small))
    BY <1>1, BytesFewer
  <2>3. Cardinality(Bytes(R \cup {s}, big)) <= Cardinality(Bytes(R, small))
    BY <2>1, <2>2
  <2> QED BY <1>1, <1>2, <1>3, <1>4, <2>3 DEF small, big
<1>5. CASE s \notin R
  <2>0. \A y \in R \cup {s} : big[y] \in Nat
    BY <1>1
  <2>1. Cardinality(Bytes(R \cup {s}, big)) = Cardinality(Bytes(R, big)) + big[s]
    BY <1>5, <2>0, BytesAdd
  <2>2. Bytes(R, big) = Bytes(R, small)
    BY <1>1 DEF Bytes
  <2>3. Cardinality(Bytes(R \cup {s}, big)) = Cardinality(Bytes(R, small)) + s.bytes
    BY <1>1, <2>1, <2>2
  <2> QED BY <1>1, <1>2, <1>3, <2>3 DEF small, big
<1> QED BY <1>4, <1>5

-----------------------------------------------------------------------------
LEMMA InitQuota == Init => QuotaInvariant
<1> SUFFICES ASSUME Init PROVE QuotaInvariant
  OBVIOUS
<1>1. Published = {} /\ stray = {}
  BY DEF Init, Published
<1>2. FileBytes = 0 /\ StrayBytes = 0
  BY <1>1, BytesOfNone DEF FileBytes, StrayBytes
<1>3. FileBytes <= MaximumSpoolBytes /\ Within(Kept)
  BY <1>2, Sizes DEF Within, Kept
<1>4. IsFiniteSet(stray)
  BY <1>1, FS_EmptySet
<1> QED BY <1>3, <1>4 DEF Init, QuotaInvariant, StagersWrite, Staging, RoomIsKept

LEMMA StagersStep ==
  ASSUME TypeInvariant, StagersWrite, Next
  PROVE  StagersWrite'
<1> USE DEF TypeInvariant, TypeOK, StagersWrite, Staging, producer, Goto, Rest
<1>1. ASSUME NEW p \in Producer, ProducerStep(p) PROVE StagersWrite'
  <2>1. CASE \/ \E e \in Event : Look(p, e)
             \/ Begin(p) \/ Reuse(p) \/ Measure(p) \/ Copy(p) \/ Link(p) \/ DropTemporary(p)
    BY <2>1, Bounds DEF Look, Begin, Reuse, Measure, Copy, Link, DropTemporary
  <2>2. CASE Commit(p) \/ StageFails(p) \/ Rollback(p)
    BY <2>2, Bounds DEF Commit, StageFails, Rollback
  <2>3. CASE Undo(p) \/ Abandon(p) \/ ProducerCrash(p)
    BY <2>3, Bounds DEF Undo, Abandon, ProducerCrash
  <2> QED BY <1>1, <2>1, <2>2, <2>3 DEF ProducerStep
<1>2. ASSUME NEW j \in Janitor, JanitorStep(j) PROVE UNCHANGED <<pc, writer>>
  BY <1>2 DEF JanitorStep, List, Removed, Snapshot, Unlink, UnlinkFails, SweepEnds, Leave,
              Remove, RemoveFails, Examine, SweepStray
<1>3. CASE (\E e \in Event : Settle(e) \/ Age(e)) \/ (\E s \in stray : AgeStray(s))
  BY <1>3 DEF Settle, Age, AgeStray
<1> QED BY <1>1, <1>2, <1>3 DEF Next

(* Arithmetic: what is within the bounds stays so when it falls, and sums  *)
(* follow their parts.                                                     *)
LEMMA WithinFalls ==
  ASSUME NEW m \in Nat, NEW n \in Nat, m <= n, Within(n)
  PROVE  Within(m)
<1>1. CASE n <= MaximumSpoolBytes + MaxGrowth
  BY <1>1, Sizes DEF Within
<1>2. ASSUME NEW e \in Event, n <= MaximumSpoolBytes + Size[e] PROVE Within(m)
  <2>1. m <= MaximumSpoolBytes + Size[e]
    BY <1>2, Sizes
  <2> QED BY <2>1 DEF Within
<1> QED BY <1>1, <1>2 DEF Within

LEMMA SumFalls ==
  ASSUME NEW a \in Nat, NEW b \in Nat, NEW c \in Nat, NEW d \in Nat, c <= a, d <= b
  PROVE  c + d \in Nat /\ c + d <= a + b
OBVIOUS

LEMMA SumFits ==
  ASSUME NEW a \in Nat, NEW b \in Nat, NEW c \in Nat, NEW d \in Nat, NEW m \in Nat,
         a + b + c <= m, d <= a + c
  PROVE  d <= m /\ d + b \in Nat /\ d + b <= m
OBVIOUS

LEMMA SumGrows ==
  ASSUME NEW a \in Nat, NEW b \in Nat, NEW c \in Nat, NEW n \in Nat, c <= b + n
  PROVE  a + c \in Nat /\ a + c <= a + b + n
OBVIOUS

LEMMA CapIsWithin == ASSUME NEW n \in Nat, n <= MaximumSpoolBytes PROVE Within(n)
BY Sizes DEF Within

(* A step that does not fill the directory keeps the quota.                *)
LEMMA QuotaFalls ==
  ASSUME TypeInvariant, QuotaInvariant, StagersWrite',
         Published' \subseteq Published,
         IsFiniteSet(stray'), StrayBytes' \in Nat, StrayBytes' <= StrayBytes,
         \A p \in Producer : pc'[p] \in {"copying", "linked"} =>
                               /\ pc'[p] = pc[p] /\ item'[p] = item[p] /\ copy'[p] = copy[p]
  PROVE  QuotaInvariant'
<1>1. FileBytes \in Nat /\ StrayBytes \in Nat /\ Kept \in Nat
  BY KeptType DEF QuotaInvariant
<1>2. FileBytes' \in Nat /\ FileBytes' <= FileBytes
  BY FileBytesFall
<1>3. Kept' \in Nat /\ Kept' <= Kept
  BY <1>1, <1>2, SumFalls DEF Kept
<1>4. FileBytes' <= MaximumSpoolBytes
  BY <1>1, <1>2, Sizes DEF QuotaInvariant
<1>5. Within(Kept)'
  <2>1. Within(Kept')
    BY <1>1, <1>3, WithinFalls DEF QuotaInvariant
  <2> QED BY <2>1 DEF Within
<1>6. RoomIsKept'
  <2> SUFFICES ASSUME NEW p \in Producer
               PROVE  /\ pc'[p] = "copying" =>
                             /\ Kept' + Size[item'[p]] <= MaximumSpoolBytes
                             /\ copy'[p] <= Size[item'[p]] + MaxGrowth
                      /\ pc'[p] = "linked" =>
                             Kept' <= MaximumSpoolBytes /\ copy'[p] = Size[item'[p]]
    BY DEF RoomIsKept
  <2>1. CASE pc'[p] = "copying"
    <3>1. pc[p] = "copying" /\ item'[p] = item[p] /\ copy'[p] = copy[p]
      BY <2>1
    <3>2. Kept + Size[item[p]] <= MaximumSpoolBytes /\ copy[p] <= Size[item[p]] + MaxGrowth
      BY <3>1 DEF QuotaInvariant, RoomIsKept
    <3>3. Size[item[p]] \in Nat
      BY <3>1, Sizes DEF TypeInvariant, StepsHaveObjects
    <3>4. Kept' + Size[item[p]] <= MaximumSpoolBytes
      BY <1>1, <1>3, <3>2, <3>3, Sizes
    <3> QED BY <2>1, <3>1, <3>2, <3>4
  <2>2. CASE pc'[p] = "linked"
    <3>1. pc[p] = "linked" /\ item'[p] = item[p] /\ copy'[p] = copy[p]
      BY <2>2
    <3>2. Kept <= MaximumSpoolBytes /\ copy[p] = Size[item[p]]
      BY <3>1 DEF QuotaInvariant, RoomIsKept
    <3>3. Kept' <= MaximumSpoolBytes
      BY <1>1, <1>3, <3>2, Sizes
    <3> QED BY <2>2, <3>1, <3>2, <3>3
  <2> QED BY <2>1, <2>2
<1> QED BY <1>4, <1>5, <1>6 DEF QuotaInvariant

(* Measuring finds the room that the copy will need.                       *)
LEMMA MeasureQuota ==
  ASSUME TypeInvariant, QuotaInvariant, StagersWrite', NEW p \in Producer, Measure(p)
  PROVE  QuotaInvariant'
<1> USE DEF TypeInvariant, TypeOK, StepsHaveObjects
<1>1. /\ pc[p] = "staging" /\ pc' = [pc EXCEPT ![p] = "copying"]
      /\ UNCHANGED <<file, stray, item>>
      /\ copy' = [copy EXCEPT ![p] = 0]
      /\ Usage + Size[item[p]] <= MaximumSpoolBytes
  BY DEF Measure, Goto
<1>2. \A q \in Producer : Staging(q) => q = p
  BY <1>1, OneStager DEF QuotaInvariant, Staging
<1>3. Copying = {} /\ item[p] \in Event
  BY <1>1, <1>2 DEF Copying, Staging
<1>4. FileBytes \in Nat /\ StrayBytes \in Nat /\ Kept \in Nat
  BY KeptType DEF QuotaInvariant
<1>5. Kept + Size[item[p]] <= MaximumSpoolBytes
  <2>1. CopyBytes = 0
    BY <1>3, BytesOfNone DEF CopyBytes
  <2>2. Usage = Kept + CopyBytes
    BY DEF Usage, Kept, FileBytes, StrayBytes, CopyBytes
  <2>3. Usage = Kept
    BY <1>4, <2>1, <2>2
  <2> QED BY <1>1, <2>3
<1>6. FileBytes' = FileBytes /\ StrayBytes' = StrayBytes /\ Kept' = Kept
  BY <1>1 DEF FileBytes, StrayBytes, Kept, Published
<1>7. RoomIsKept'
  <2>1. Size[item[p]] \in Nat /\ copy'[p] = 0 /\ pc'[p] = "copying"
    BY <1>1, <1>3, Sizes
  <2>3. copy'[p] <= Size[item[p]] + MaxGrowth
    BY <2>1, Sizes
  <2>2. \A q \in Producer : q # p => pc'[q] \notin {"copying", "linked"}
    BY <1>1, <1>2 DEF Staging
  <2> QED BY <1>1, <1>5, <1>6, <2>1, <2>2, <2>3 DEF RoomIsKept
<1> QED BY <1>1, <1>6, <1>7 DEF QuotaInvariant, Within

(* The copy grows no further than its source.                              *)
LEMMA CopyQuota ==
  ASSUME TypeInvariant, QuotaInvariant, StagersWrite', NEW p \in Producer, Copy(p)
  PROVE  QuotaInvariant'
<1> USE DEF TypeInvariant, TypeOK, StepsHaveObjects
<1>1. pc[p] = "copying" /\ UNCHANGED <<pc, file, stray, item>>
  BY DEF Copy
<1>2. PICK n \in (copy[p] + 1)..(Size[item[p]] + MaxGrowth) : copy' = [copy EXCEPT ![p] = n]
  BY DEF Copy
<1>3. item[p] \in Event /\ Size[item[p]] \in Nat /\ copy[p] \in Nat
  BY <1>1, Sizes
<1>4. n <= Size[item[p]] + MaxGrowth
  BY <1>2, <1>3, Sizes
<1>5. FileBytes' = FileBytes /\ StrayBytes' = StrayBytes /\ Kept' = Kept
  BY <1>1 DEF FileBytes, StrayBytes, Kept, Published
<1>6. RoomIsKept'
  BY <1>1, <1>2, <1>4, <1>5 DEF QuotaInvariant, RoomIsKept
<1> QED BY <1>1, <1>5, <1>6 DEF QuotaInvariant, Within

(* The file that is linked has the room that was measured.                 *)
LEMMA LinkQuota ==
  ASSUME TypeInvariant, QuotaInvariant, StagersWrite', NEW p \in Producer, Link(p)
  PROVE  QuotaInvariant'
<1> DEFINE e == item[p]
<1> USE DEF TypeInvariant, TypeOK, StepsHaveObjects
<1>1. /\ pc[p] = "copying" /\ pc' = [pc EXCEPT ![p] = "linked"]
      /\ file' = [file EXCEPT ![e] = IF @ = "absent" THEN "fresh" ELSE @]
      /\ copy[p] = Size[e] /\ UNCHANGED <<item, stray, copy>>
  BY DEF Link, Goto
<1>2. e \in Event /\ Size[e] \in Nat
  BY <1>1, Sizes
<1>3. \A q \in Producer : Staging(q) => q = p
  BY <1>1, OneStager DEF QuotaInvariant, Staging
<1>4. Kept + Size[e] <= MaximumSpoolBytes
  BY <1>1 DEF QuotaInvariant, RoomIsKept
<1>5. FileBytes \in Nat /\ StrayBytes \in Nat
  BY KeptType DEF QuotaInvariant
<1> HIDE DEF e
<1>6. FileBytes' \in Nat /\ FileBytes' <= FileBytes + Size[e]
  <2>1. CASE e \in Published
    <3>1. Published' = Published
      BY <1>1, <1>2, <2>1 DEF Published
    <3> QED BY <1>2, <1>5, <3>1 DEF FileBytes
  <2>2. CASE e \notin Published
    <3>1. Published' = Published \cup {e}
      BY <1>1, <1>2, <2>2 DEF Published
    <3>2. \A y \in Published \cup {e} : Size[y] \in Nat
      BY <1>2, Sizes DEF Published
    <3>3. Cardinality(Bytes(Published \cup {e}, Size))
            = Cardinality(Bytes(Published, Size)) + Size[e]
      BY <2>2, <3>2, Sizes, BytesAdd
    <3> QED BY <1>2, <1>5, <3>1, <3>3 DEF FileBytes
  <2> QED BY <2>1, <2>2
<1>7. StrayBytes' = StrayBytes
  BY <1>1 DEF StrayBytes
<1>8. /\ FileBytes' <= MaximumSpoolBytes
      /\ FileBytes' + StrayBytes \in Nat /\ FileBytes' + StrayBytes <= MaximumSpoolBytes
  <2>1. FileBytes + StrayBytes + Size[e] <= MaximumSpoolBytes
    BY <1>4 DEF Kept
  <2>2. MaximumSpoolBytes \in Nat
    BY Sizes
  <2>3. FileBytes' \in Nat /\ FileBytes' <= FileBytes + Size[e] /\ Size[e] \in Nat
    BY <1>2, <1>6
  <2> HIDE DEF TypeInvariant, TypeOK, StepsHaveObjects
  <2> QED BY <1>5, <2>1, <2>2, <2>3, SumFits
<1>9. Kept' \in Nat /\ Kept' <= MaximumSpoolBytes
  BY <1>7, <1>8 DEF Kept
<1>10. Within(Kept)'
  <2>1. Within(Kept')
    BY <1>9, CapIsWithin
  <2> QED BY <2>1 DEF Within
<1>11. RoomIsKept'
  <2>1. \A q \in Producer : q # p => pc'[q] \notin {"copying", "linked"}
    BY <1>1, <1>3 DEF Staging
  <2>2. pc'[p] = "linked" /\ copy'[p] = Size[item'[p]]
    BY <1>1 DEF e
  <2> QED BY <1>9, <2>1, <2>2 DEF RoomIsKept
<1> QED BY <1>1, <1>8, <1>10, <1>11 DEF QuotaInvariant

(* A crash of the process that copies turns its copy into a stray one.     *)
LEMMA CrashQuota ==
  ASSUME TypeInvariant, QuotaInvariant, StagersWrite',
         NEW p \in Producer, ProducerCrash(p), p \in Copying
  PROVE  QuotaInvariant'
<1> DEFINE s == [nr |-> crashes, bytes |-> copy[p], old |-> FALSE]
<1> USE DEF TypeInvariant, TypeOK, StepsHaveObjects
<1>1. /\ pc[p] \in {"copying", "linked"} /\ pc' = [pc EXCEPT ![p] = "idle"] /\ file' = file
  BY DEF ProducerCrash, Copying, Rest
<1>2. item[p] \in Event /\ Size[item[p]] \in Nat /\ copy[p] \in Nat
  BY <1>1, Sizes
<1>3. stray' = stray \cup {s}
  <2>1. {p} \cap Copying = {p}
    OBVIOUS
  <2> QED BY <2>1 DEF ProducerCrash
<1>4. \A q \in Producer : Staging(q) => q = p
  BY <1>1, OneStager DEF QuotaInvariant, Staging
<1>5. FileBytes \in Nat /\ StrayBytes \in Nat /\ Kept \in Nat
  BY KeptType DEF QuotaInvariant
<1>6. /\ IsFiniteSet(stray') /\ StrayBytes' \in Nat
      /\ StrayBytes' <= StrayBytes + copy[p]
  <2>1. s.bytes = copy[p] /\ \A x \in stray \cup {s} : x.bytes \in Nat
    BY <1>2
  <2>2. IsFiniteSet(stray)
    BY DEF QuotaInvariant
  <2> HIDE DEF s
  <2> QED BY <1>3, <2>1, <2>2, StrayBytesOfOneMore DEF StrayBytes
<1> HIDE DEF s
<1>7. FileBytes' = FileBytes
  BY <1>1 DEF FileBytes, Published
<1>8. Kept' \in Nat /\ Kept' <= Kept + copy[p]
  <2>1. /\ FileBytes + StrayBytes' \in Nat
        /\ FileBytes + StrayBytes' <= FileBytes + StrayBytes + copy[p]
    BY <1>2, <1>5, <1>6, SumGrows
  <2> QED BY <1>7, <2>1 DEF Kept
<1>9. Within(Kept')
  <2>1. CASE pc[p] = "copying"
    <3>1. Kept + Size[item[p]] <= MaximumSpoolBytes /\ copy[p] <= Size[item[p]] + MaxGrowth
      BY <2>1 DEF QuotaInvariant, RoomIsKept
    <3>2. Kept' <= MaximumSpoolBytes + MaxGrowth
      BY <1>2, <1>5, <1>8, <3>1, Sizes
    <3> QED BY <3>2 DEF Within
  <2>2. CASE pc[p] = "linked"
    <3>1. Kept <= MaximumSpoolBytes /\ copy[p] = Size[item[p]]
      BY <2>2 DEF QuotaInvariant, RoomIsKept
    <3>2. Kept' <= MaximumSpoolBytes + Size[item[p]]
      BY <1>2, <1>5, <1>8, <3>1, Sizes
    <3> QED BY <1>2, <3>2 DEF Within
  <2> QED BY <1>1, <2>1, <2>2
<1>10. RoomIsKept'
  BY <1>1, <1>4 DEF RoomIsKept, Staging
<1>11. FileBytes' <= MaximumSpoolBytes
  BY <1>7 DEF QuotaInvariant
<1>12. Within(Kept)'
  BY <1>9 DEF Within
<1> QED BY <1>6, <1>10, <1>11, <1>12 DEF QuotaInvariant

(* Growing old changes no size.                                            *)
LEMMA AgeStrayQuota ==
  ASSUME TypeInvariant, QuotaInvariant, StagersWrite', NEW s \in stray, AgeStray(s)
  PROVE  QuotaInvariant'
<1> DEFINE rest == stray \ {s}
           aging == [s EXCEPT !.old = TRUE]
<1>1. \A x \in stray : x.bytes \in Nat
  BY DEF TypeInvariant, TypeOK
<1>2. aging.bytes = s.bytes
  BY DEF TypeInvariant, TypeOK
<1>3. stray = rest \cup {s} /\ stray' = rest \cup {aging} /\ s \notin rest
  BY DEF AgeStray
<1>4. IsFiniteSet(rest)
  BY FS_RemoveElement DEF QuotaInvariant
<1> HIDE DEF rest, aging
<1>5. /\ StrayBytes = Cardinality(Bytes(rest, [x \in rest |-> x.bytes])) + s.bytes
      /\ Cardinality(Bytes(rest, [x \in rest |-> x.bytes])) \in Nat
  BY <1>1, <1>3, <1>4, StrayBytesOfOneMore DEF StrayBytes
<1>6. /\ IsFiniteSet(stray') /\ StrayBytes' \in Nat
      /\ StrayBytes' <= Cardinality(Bytes(rest, [x \in rest |-> x.bytes])) + s.bytes
  <2>1. \A x \in rest \cup {aging} : x.bytes \in Nat
    BY <1>1, <1>2, <1>3
  <2> QED BY <1>2, <1>3, <1>4, <2>1, StrayBytesOfOneMore DEF StrayBytes
<1>7. StrayBytes' <= StrayBytes
  BY <1>5, <1>6
<1>8. UNCHANGED <<file, pc, item, copy>>
  BY DEF AgeStray, producer
<1>9. Published' = Published
  BY <1>8 DEF Published
<1> QED BY <1>6, <1>7, <1>8, <1>9, QuotaFalls

(* What other steps of a producer do can only empty the directory.         *)
LEMMA ProducerQuota ==
  ASSUME TypeInvariant, QuotaInvariant, StagersWrite', NEW p \in Producer, ProducerStep(p)
  PROVE  QuotaInvariant'
<1> USE DEF TypeInvariant, TypeOK, Goto, Rest
<1>1. CASE Measure(p) \/ Copy(p) \/ Link(p) \/ (ProducerCrash(p) /\ p \in Copying)
  BY <1>1, MeasureQuota, CopyQuota, LinkQuota, CrashQuota
<1>2. ASSUME stray' = stray
      PROVE  IsFiniteSet(stray') /\ StrayBytes' \in Nat /\ StrayBytes' <= StrayBytes
  <2>1. stray' \subseteq stray
    BY <1>2
  <2> QED BY <2>1, StrayBytesFall DEF QuotaInvariant
<1>3. CASE \/ \E e \in Event : Look(p, e)
           \/ Begin(p) \/ Reuse(p) \/ DropTemporary(p) \/ Commit(p) \/ StageFails(p)
           \/ Rollback(p) \/ Abandon(p)
  <2>1. UNCHANGED <<file, stray>>
    BY <1>3 DEF Look, Begin, Reuse, DropTemporary, Commit, StageFails, Rollback, Abandon
  <2>2. \A q \in Producer : pc'[q] \in {"copying", "linked"} =>
                              pc'[q] = pc[q] /\ item'[q] = item[q] /\ copy'[q] = copy[q]
    BY <1>3 DEF Look, Begin, Reuse, DropTemporary, Commit, StageFails, Rollback, Abandon
  <2>3. Published' \subseteq Published
    BY <2>1 DEF Published
  <2> QED BY <1>2, <2>1, <2>2, <2>3, QuotaFalls
<1>4. CASE Undo(p)
  <2>1. Published' \subseteq Published /\ stray' = stray
    BY <1>4 DEF Undo, Published
  <2>2. \A q \in Producer : pc'[q] \in {"copying", "linked"} =>
                              pc'[q] = pc[q] /\ item'[q] = item[q] /\ copy'[q] = copy[q]
    BY <1>4 DEF Undo
  <2> QED BY <1>2, <2>1, <2>2, QuotaFalls
<1>5. CASE ProducerCrash(p) /\ p \notin Copying
  <2>1. UNCHANGED <<file, stray>>
    BY <1>5 DEF ProducerCrash
  <2>2. \A q \in Producer : pc'[q] \in {"copying", "linked"} =>
                              pc'[q] = pc[q] /\ item'[q] = item[q] /\ copy'[q] = copy[q]
    BY <1>5 DEF ProducerCrash
  <2>3. Published' \subseteq Published
    BY <2>1 DEF Published
  <2> QED BY <1>2, <2>1, <2>2, <2>3, QuotaFalls
<1> QED BY <1>1, <1>3, <1>4, <1>5 DEF ProducerStep

LEMMA OthersQuota ==
  ASSUME TypeInvariant, QuotaInvariant, StagersWrite',
         \/ \E j \in Janitor : JanitorStep(j)
         \/ \E e \in Event : Settle(e) \/ Age(e)
  PROVE  QuotaInvariant'
<1> USE DEF TypeInvariant, TypeOK, StepsHaveObjects
<1>1. UNCHANGED <<pc, item, copy>>
  BY DEF JanitorStep, List, Removed, Snapshot, Unlink, UnlinkFails, SweepEnds, Leave,
         Remove, RemoveFails, Examine, SweepStray, Settle, Age, producer
<1>2. stray' \subseteq stray
  BY DEF JanitorStep, List, Removed, Snapshot, Unlink, UnlinkFails, SweepEnds, Leave,
         Remove, RemoveFails, Examine, SweepStray, Settle, Age
<1>3. \A f \in Event : file[f] = "absent" => file'[f] = "absent"
  <2>1. CASE \E j \in Janitor : Unlink(j) \/ \E e \in Event : Remove(j, e)
    BY <2>1 DEF Unlink, Remove
  <2>2. CASE \E e \in Event : Age(e)
    BY <2>2 DEF Age
  <2>3. CASE \/ \E j \in Janitor : \/ List(j) \/ Removed(j) \/ Snapshot(j) \/ UnlinkFails(j)
                                   \/ SweepEnds(j) \/ Leave(j)
                                   \/ \E e \in Event : RemoveFails(j, e) \/ Examine(j, e)
                                   \/ \E s \in stray : SweepStray(j, s)
             \/ \E e \in Event : Settle(e)
    BY <2>3 DEF List, Removed, Snapshot, UnlinkFails, SweepEnds, Leave, RemoveFails, Examine,
                SweepStray, Settle
  <2> QED BY <2>1, <2>2, <2>3 DEF JanitorStep
<1>4. Published' \subseteq Published
  BY <1>3 DEF Published
<1>5. IsFiniteSet(stray') /\ StrayBytes' \in Nat /\ StrayBytes' <= StrayBytes
  BY <1>2, StrayBytesFall DEF QuotaInvariant
<1> QED BY <1>1, <1>4, <1>5, QuotaFalls

LEMMA NextQuota == TypeInvariant /\ QuotaInvariant /\ [Next]_vars => QuotaInvariant'
<1> SUFFICES ASSUME TypeInvariant, QuotaInvariant, [Next]_vars PROVE QuotaInvariant'
  OBVIOUS
<1>2. CASE UNCHANGED vars
  BY <1>2 DEF vars, ledger, producer, QuotaInvariant, StagersWrite, Staging, RoomIsKept, Within,
              Kept, FileBytes, StrayBytes, Published
<1>3. CASE Next
  <2>1. StagersWrite'
    BY <1>3, StagersStep DEF QuotaInvariant
  <2> QED BY <1>3, <2>1, ProducerQuota, OthersQuota, AgeStrayQuota DEF Next
<1> QED BY <1>2, <1>3

(* With any number of producers, crashes, janitors and abandoned copies,   *)
(* the published files never exceed maximum_spool_bytes, and the directory *)
(* never exceeds it by more than one source grew while it was copied or    *)
(* than one attachment has: the cap is checked under the write lock, and   *)
(* only its holder adds to the directory before the lock is free again; a  *)
(* copy abandoned over the cap lets nobody pass the check until it goes.   *)
THEOREM QuotaIsKept == Spec => []SpoolWithinQuota
<1>1. Init => QuotaInvariant
  BY InitQuota
<1>2. TypeInvariant /\ QuotaInvariant /\ [Next]_vars => QuotaInvariant'
  BY NextQuota
<1>3. TypeInvariant /\ QuotaInvariant => SpoolWithinQuota
  BY InvariantMeansQuota
<1> QED BY <1>1, <1>2, <1>3, TypesAlways, PTL DEF Spec

=============================================================================
