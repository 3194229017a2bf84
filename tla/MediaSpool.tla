----------------------------- MODULE MediaSpool -----------------------------
(***************************************************************************)
(* The spool directory of media.py: producers that stage the attachment of *)
(* an event and commit it (cli.py cmd_ingest, hermes_bridge.py _persist),  *)
(* and janitors, the workers and commands that remove settled files and    *)
(* sweep orphans (worker.py run_once).  The directory is shared memory: no *)
(* transaction covers it, and the ledger is read and written separately.   *)
(*                                                                         *)
(* Each event has one attachment, so its stable key names one file.  A     *)
(* file is "fresh" until its mtime is older than the sweep's grace, then   *)
(* "old".  The event's deliveries are reduced to captured and done: sent,  *)
(* or given up with an authorised purge.                                   *)
(***************************************************************************)
EXTENDS Integers, FiniteSets

CONSTANTS
  Event, Producer, Janitor,
  Size,               \* event -> bytes of its attachment
  MaximumSpoolBytes,
  SingleCapture,      \* TRUE: no two producers work on one event at a time
  PromptRetry,        \* TRUE: an interrupted capture is retried within the grace, or after the sweep
  MaxGrowth,          \* bound: bytes a source gains while it is copied
  MaxCrashes,         \* bound: process crashes
  None

ASSUME SpoolAssumption ==
  /\ IsFiniteSet(Event)
  /\ Size \in [Event -> Nat \ {0}]
  /\ {MaximumSpoolBytes, MaxGrowth, MaxCrashes} \subseteq Nat
  /\ {SingleCapture, PromptRetry} \subseteq BOOLEAN
  /\ None \notin Event \cup Producer
  /\ \A e \in Event : e \notin [nr : Nat, bytes : Nat, old : BOOLEAN]  \* nor a stray copy

VARIABLES
  captured,   \* events in mirror_events
  done,       \* captured events whose media was handed to cleanup
  row,        \* mirror_managed_media.state per event
  writer,     \* the producer inside BEGIN IMMEDIATE
  file,       \* the published file of each event: "absent", "fresh", "old"
  stray,      \* temporary copies that crashed producers left behind
  pc, item, created, copy,               \* producers; copy: bytes of the temporary file
  step, due, referenced, aged, victim,   \* janitors
  crashes

ledger   == <<captured, done, row>>
producer == <<pc, item, created, copy>>
janitor  == <<step, due, referenced, aged, victim>>
vars     == <<ledger, writer, file, stray, producer, janitor, crashes>>

Init ==
  /\ captured = {} /\ done = {}
  /\ row = [e \in Event |-> "none"]
  /\ writer = None
  /\ file = [e \in Event |-> "absent"]
  /\ stray = {}
  /\ pc = [p \in Producer |-> "idle"]
  /\ item = [p \in Producer |-> None]
  /\ created = [p \in Producer |-> FALSE]
  /\ copy = [p \in Producer |-> 0]
  /\ step = [j \in Janitor |-> "idle"]
  /\ due = [j \in Janitor |-> {}]
  /\ referenced = [j \in Janitor |-> {}]
  /\ aged = [j \in Janitor |-> {}]
  /\ victim = [j \in Janitor |-> None]
  /\ crashes = 0

-----------------------------------------------------------------------------
(* Producers.                                                              *)

Rest(p) ==
  /\ pc' = [pc EXCEPT ![p] = "idle"]
  /\ item' = [item EXCEPT ![p] = None]
  /\ created' = [created EXCEPT ![p] = FALSE]
  /\ copy' = [copy EXCEPT ![p] = 0]

Goto(p, where) == pc' = [pc EXCEPT ![p] = where]

(* load_event before the transaction; a replay ends here.                  *)
Look(p, e) ==
  /\ pc[p] = "idle"
  /\ e \notin captured
  /\ SingleCapture => \A q \in Producer : item[q] # e
  /\ PromptRetry => file[e] # "old"
  /\ Goto(p, "ready")
  /\ item' = [item EXCEPT ![p] = e]
  /\ UNCHANGED <<ledger, writer, file, stray, created, copy, janitor, crashes>>

BeginUnlocked(p) ==            \* faulty Begin: stages outside a transaction
  /\ pc[p] = "ready"
  /\ writer' = p
  /\ Goto(p, "staging")
  /\ UNCHANGED <<ledger, file, stray, item, created, copy, janitor, crashes>>

Begin(p) ==
  /\ pc[p] = "ready"
  /\ writer = None
  /\ writer' = p
  /\ Goto(p, "staging")
  /\ UNCHANGED <<ledger, file, stray, item, created, copy, janitor, crashes>>

Reuse(p) ==
  /\ pc[p] = "staging"
  /\ file[item[p]] # "absent"
  /\ Goto(p, "staged")
  /\ UNCHANGED <<ledger, writer, file, stray, item, created, copy, janitor, crashes>>

(* The producers whose temporary file is in the directory.                 *)
Copying == {p \in Producer : pc[p] \in {"copying", "linked"}}

Published == {e \in Event : file[e] # "absent"}

(* The bytes of some files, of which size gives the number.                *)
Bytes(S, size) == UNION {{x} \X (1..size[x]) : x \in S}

(* _spool_usage_bytes: every name of a regular file in the directory, so a *)
(* file with two names counts twice.                                       *)
Usage ==
  Cardinality(Bytes(Published, Size))
  + Cardinality(Bytes(stray, [s \in stray |-> s.bytes]))
  + Cardinality(Bytes(Copying, copy))

(* The cap is checked, then an empty temporary file is created.            *)
Measure(p) ==
  /\ pc[p] = "staging"
  /\ file[item[p]] = "absent"
  /\ Usage + Size[item[p]] <= MaximumSpoolBytes
  /\ copy' = [copy EXCEPT ![p] = 0]
  /\ Goto(p, "copying")
  /\ UNCHANGED <<ledger, writer, file, stray, item, created, janitor, crashes>>

(* More of the source is copied, up to its end, which may have moved since *)
(* it was measured.                                                        *)
Copy(p) ==
  /\ pc[p] = "copying"
  /\ \E n \in (copy[p] + 1)..(Size[item[p]] + MaxGrowth) : copy' = [copy EXCEPT ![p] = n]
  /\ UNCHANGED <<ledger, writer, file, stray, pc, item, created, janitor, crashes>>

(* os.link of a copy of the size that was measured: the file has two names *)
(* now.  A target that appeared meanwhile is kept if its content is the    *)
(* same.  A janitor that looks at the file from now on sees its new mtime. *)
Link(p) ==
  LET e == item[p]
  IN  /\ pc[p] = "copying"
      /\ copy[p] = Size[e]
      /\ created' = [created EXCEPT ![p] = file[e] = "absent"]
      /\ file' = [file EXCEPT ![e] = IF @ = "absent" THEN "fresh" ELSE @]
      /\ aged' = [j \in Janitor |-> IF file[e] = "absent" THEN aged[j] \ {e} ELSE aged[j]]
      /\ Goto(p, "linked")
      /\ UNCHANGED <<ledger, writer, stray, item, copy, step, due, referenced, victim, crashes>>

(* The temporary name is unlinked, at last.                                *)
DropTemporary(p) ==
  /\ pc[p] = "linked"
  /\ copy' = [copy EXCEPT ![p] = 0]
  /\ Goto(p, "staged")
  /\ UNCHANGED <<ledger, writer, file, stray, item, created, janitor, crashes>>

(* capture_event and COMMIT: record_event and INSERT OR IGNORE.            *)
Commit(p) ==
  /\ pc[p] = "staged"
  /\ captured' = captured \cup {item[p]}
  /\ row' = [row EXCEPT ![item[p]] = IF @ = "none" THEN "active" ELSE @]
  /\ writer' = None
  /\ Rest(p)
  /\ UNCHANGED <<done, file, stray, janitor, crashes>>

(* Quota, disk floor, a source that changed, an unreadable file: the       *)
(* temporary is unlinked.  A failure after the link (chmod, fsync) leaves  *)
(* the published file, which is not yet in the list of created files.      *)
StageFails(p) ==
  /\ pc[p] \in {"staging", "copying", "linked", "staged"}
  /\ writer' = None
  /\ Rest(p)
  /\ UNCHANGED <<ledger, file, stray, janitor, crashes>>

(* The capture raises: ROLLBACK first, and only then the unlinking.        *)
Rollback(p) ==
  /\ pc[p] = "staged"
  /\ writer' = None
  /\ Goto(p, "undoing")
  /\ UNCHANGED <<ledger, file, stray, item, created, copy, janitor, crashes>>

Undo(p) ==
  /\ pc[p] = "undoing"
  /\ file' = [file EXCEPT ![item[p]] = IF created[p] THEN "absent" ELSE @]
  /\ Rest(p)
  /\ UNCHANGED <<ledger, writer, stray, janitor, crashes>>

(* The write lock is refused for longer than the busy timeout.             *)
Abandon(p) ==
  /\ pc[p] = "ready"
  /\ Rest(p)
  /\ UNCHANGED <<ledger, writer, file, stray, janitor, crashes>>

(* A crash drops the transaction and leaves what is in the directory; so   *)
(* does a failure to unlink the temporary name.                            *)
ProducerCrash(p) ==
  /\ pc[p] # "idle"
  /\ crashes < MaxCrashes
  /\ crashes' = crashes + 1
  /\ writer' = IF writer = p THEN None ELSE writer
  /\ stray' = stray \cup
       {[nr |-> crashes, bytes |-> copy[q], old |-> FALSE] : q \in {p} \cap Copying}
  /\ Rest(p)
  /\ UNCHANGED <<ledger, file, janitor>>

-----------------------------------------------------------------------------
(* The delivery settles: mark_sent, a decision for sent, or a purge.       *)

SettleAny(e) ==                \* faulty Settle: of an event that was not captured
  /\ writer = None
  /\ e \notin done
  /\ done' = done \cup {e}
  /\ UNCHANGED <<captured, row, writer, file, stray, producer, janitor, crashes>>

Settle(e) ==
  /\ writer = None
  /\ e \in captured \ done
  /\ done' = done \cup {e}
  /\ row' = [row EXCEPT ![e] = IF @ = "active" THEN "cleanup_pending" ELSE @]
  /\ UNCHANGED <<captured, writer, file, stray, producer, janitor, crashes>>

(* An mtime passes out of the grace period, an hour: not while the capture *)
(* that wrote the file is still under way.                                 *)
Age(e) ==
  /\ file[e] = "fresh"
  /\ \A p \in Producer : item[p] = e => ~created[p] /\ ~PromptRetry
  /\ file' = [file EXCEPT ![e] = "old"]
  /\ UNCHANGED <<ledger, writer, stray, producer, janitor, crashes>>

AgeStray(s) ==
  /\ ~s.old
  /\ stray' = (stray \ {s}) \cup {[s EXCEPT !.old = TRUE]}
  /\ UNCHANGED <<ledger, writer, file, producer, janitor, crashes>>

-----------------------------------------------------------------------------
(* Janitors.                                                               *)

Retire(j) ==
  /\ step' = [step EXCEPT ![j] = "idle"]
  /\ due' = [due EXCEPT ![j] = {}]
  /\ referenced' = [referenced EXCEPT ![j] = {}]
  /\ aged' = [aged EXCEPT ![j] = {}]
  /\ victim' = [victim EXCEPT ![j] = None]

ListAll(j) ==                  \* faulty List: no grace for young files
  /\ step[j] = "idle"
  /\ step' = [step EXCEPT ![j] = "cleaning"]
  /\ due' = [due EXCEPT ![j] = {e \in Event : row[e] = "cleanup_pending"}]
  /\ aged' = [aged EXCEPT ![j] = Event \cup stray]
  /\ UNCHANGED <<ledger, writer, file, stray, producer, referenced, victim, crashes>>

(* The clock is read, which fixes what counts as old, and the due rows are *)
(* listed.  Retention is time that passes before Settle; nothing here tells *)
(* a row that waits for it from an active one.                             *)
List(j) ==
  /\ step[j] = "idle"
  /\ step' = [step EXCEPT ![j] = "cleaning"]
  /\ due' = [due EXCEPT ![j] = {e \in Event : row[e] = "cleanup_pending"}]
  /\ aged' = [aged EXCEPT ![j] = {e \in Event : file[e] = "old"} \cup {s \in stray : s.old}]
  /\ UNCHANGED <<ledger, writer, file, stray, producer, referenced, victim, crashes>>

(* Unlinks the file of a listed row, or finds it gone.                     *)
Remove(j, e) ==
  /\ step[j] = "cleaning"
  /\ e \in due[j]
  /\ due' = [due EXCEPT ![j] = @ \ {e}]
  /\ file' = [file EXCEPT ![e] = "absent"]
  /\ step' = [step EXCEPT ![j] = "removed"]
  /\ victim' = [victim EXCEPT ![j] = e]
  /\ UNCHANGED <<ledger, writer, stray, producer, referenced, aged, crashes>>

(* The unlink is refused, or the file vanished after it was seen:          *)
(* mark_media_cleanup_failed postpones the row.                            *)
RemoveFails(j, e) ==
  /\ step[j] = "cleaning"
  /\ writer = None
  /\ e \in due[j]
  /\ due' = [due EXCEPT ![j] = @ \ {e}]
  /\ UNCHANGED <<ledger, writer, file, stray, producer, step, referenced, aged, victim, crashes>>

RemovedNot(j) ==               \* faulty Removed: the row stays
  /\ step[j] = "removed"
  /\ step' = [step EXCEPT ![j] = "cleaning"]
  /\ victim' = [victim EXCEPT ![j] = None]
  /\ UNCHANGED <<ledger, writer, file, stray, producer, due, referenced, aged, crashes>>

(* mark_media_removed.                                                     *)
Removed(j) ==
  /\ step[j] = "removed"
  /\ writer = None
  /\ row' = [row EXCEPT ![victim[j]] = IF @ = "cleanup_pending" THEN "none" ELSE @]
  /\ step' = [step EXCEPT ![j] = "cleaning"]
  /\ victim' = [victim EXCEPT ![j] = None]
  /\ UNCHANGED <<captured, done, writer, file, stray, producer, due, referenced, aged, crashes>>

(* managed_media_paths: the inventory as last committed.                   *)
Snapshot(j) ==
  /\ step[j] = "cleaning"
  /\ due[j] = {}
  /\ step' = [step EXCEPT ![j] = "sweeping"]
  /\ referenced' = [referenced EXCEPT ![j] = {e \in Event : row[e] # "none"}]
  /\ UNCHANGED <<ledger, writer, file, stray, producer, due, aged, victim, crashes>>

CondemnedKnown(j) ==           \* faulty Condemned: the files that have a row
  {e \in Event : e \in aged[j] \cap referenced[j] /\ file[e] # "absent"}

Condemned(j) ==
  {e \in Event : e \in aged[j] \ referenced[j] /\ file[e] # "absent"}

Examine(j, e) ==
  /\ step[j] = "sweeping"
  /\ e \in Condemned(j)
  /\ step' = [step EXCEPT ![j] = "unlinking"]
  /\ victim' = [victim EXCEPT ![j] = e]
  /\ UNCHANGED <<ledger, writer, file, stray, producer, due, referenced, aged, crashes>>

Unlink(j) ==
  /\ step[j] = "unlinking"
  /\ file' = [file EXCEPT ![victim[j]] = "absent"]
  /\ step' = [step EXCEPT ![j] = "sweeping"]
  /\ aged' = [aged EXCEPT ![j] = @ \ {victim[j]}]
  /\ victim' = [victim EXCEPT ![j] = None]
  /\ UNCHANGED <<ledger, writer, stray, producer, due, referenced, crashes>>

UnlinkFails(j) ==
  /\ step[j] = "unlinking"
  /\ step' = [step EXCEPT ![j] = "sweeping"]
  /\ aged' = [aged EXCEPT ![j] = @ \ {victim[j]}]
  /\ victim' = [victim EXCEPT ![j] = None]
  /\ UNCHANGED <<ledger, writer, file, stray, producer, due, referenced, crashes>>

(* A temporary copy has no row and no second life under its name.          *)
SweepStray(j, s) ==
  /\ step[j] = "sweeping"
  /\ s \in aged[j]
  /\ stray' = stray \ {s}
  /\ aged' = [aged EXCEPT ![j] = @ \ {s}]
  /\ UNCHANGED <<ledger, writer, file, producer, step, due, referenced, victim, crashes>>

SweepEnds(j) ==
  /\ step[j] = "sweeping"
  /\ Condemned(j) = {}
  /\ stray \cap aged[j] = {}
  /\ Retire(j)
  /\ UNCHANGED <<ledger, writer, file, stray, producer, crashes>>

(* The process ends between two steps: a crash, or the cleanup command,    *)
(* which does not sweep.                                                   *)
Leave(j) ==
  /\ step[j] # "idle"
  /\ crashes < MaxCrashes
  /\ crashes' = crashes + 1
  /\ Retire(j)
  /\ UNCHANGED <<ledger, writer, file, stray, producer>>

-----------------------------------------------------------------------------
ProducerStep(p) ==
  \/ \E e \in Event : Look(p, e)
  \/ Begin(p) \/ Reuse(p) \/ Measure(p) \/ Copy(p) \/ Link(p) \/ DropTemporary(p)
  \/ Commit(p) \/ StageFails(p) \/ Rollback(p) \/ Undo(p) \/ Abandon(p) \/ ProducerCrash(p)

JanitorStep(j) ==
  \/ List(j) \/ Removed(j) \/ Snapshot(j) \/ Unlink(j) \/ UnlinkFails(j)
  \/ SweepEnds(j) \/ Leave(j)
  \/ \E e \in Event : Remove(j, e) \/ RemoveFails(j, e) \/ Examine(j, e)
  \/ \E s \in stray : SweepStray(j, s)

Next ==
  \/ \E p \in Producer : ProducerStep(p)
  \/ \E j \in Janitor : JanitorStep(j)
  \/ \E e \in Event : Settle(e) \/ Age(e)
  \/ \E s \in stray : AgeStray(s)

Spec == Init /\ [][Next]_vars

(* A process that has started goes on or gives up, janitors run again and  *)
(* again, a scan of the directory comes to every file in it, time passes,  *)
(* and neither the write lock nor an unlink is refused for ever.  No       *)
(* producer has to start, and no delivery to settle.                       *)
Fairness ==
  /\ \A p \in Producer :
       WF_vars(\/ Begin(p) \/ Abandon(p) \/ Reuse(p) \/ Measure(p) \/ Copy(p) \/ Link(p)
               \/ DropTemporary(p) \/ Commit(p) \/ StageFails(p) \/ Rollback(p) \/ Undo(p))
  /\ \A j \in Janitor :
       /\ WF_vars(List(j)) /\ SF_vars(Removed(j)) /\ WF_vars(Snapshot(j))
       /\ WF_vars(SweepEnds(j))
       /\ \A e \in Event : /\ SF_vars(Remove(j, e))
                           /\ SF_vars(Examine(j, e))
                           /\ SF_vars(Unlink(j) /\ victim[j] = e)
       /\ WF_vars(\E s \in stray : SweepStray(j, s))
  /\ \A e \in Event : SF_vars(Age(e))
  /\ WF_vars(\E s \in stray : AgeStray(s))

FairSpec == Spec /\ Fairness

-----------------------------------------------------------------------------
(* Every variable holds a value of its row, directory or program variable. *)
TypeOK ==
  /\ captured \in SUBSET Event /\ done \in SUBSET captured
  /\ row \in [Event -> {"none", "active", "cleanup_pending"}]
  /\ writer \in Producer \cup {None}
  /\ file \in [Event -> {"absent", "fresh", "old"}]
  /\ stray \in SUBSET [nr : 0..MaxCrashes, bytes : Nat, old : BOOLEAN]
  /\ pc \in [Producer -> {"idle", "ready", "staging", "copying", "linked", "staged",
                         "undoing"}]
  /\ item \in [Producer -> Event \cup {None}]
  /\ created \in [Producer -> BOOLEAN]
  /\ copy \in [Producer -> Nat]
  /\ step \in [Janitor -> {"idle", "cleaning", "removed", "sweeping", "unlinking"}]
  /\ due \in [Janitor -> SUBSET Event]
  /\ referenced \in [Janitor -> SUBSET Event]
  /\ victim \in [Janitor -> Event \cup {None}]
  /\ crashes \in 0..MaxCrashes

(* An attachment the worker has yet to send is in the spool: neither the   *)
(* undoing of a failed capture nor a cleanup or a sweep takes it.          *)
ActiveMediaIsStored ==
  \A e \in Event : row[e] = "active" => file[e] # "absent"

(* With any number of producers and crashes, the published files never     *)
(* exceed maximum_spool_bytes (docs/ARCHITECTURE.md:131), and the whole    *)
(* directory, half-written, doubly named and abandoned copies included,    *)
(* never exceeds it by more than one source grew or one attachment has.    *)
SpoolWithinQuota ==
  /\ Cardinality(Bytes(Published, Size)) <= MaximumSpoolBytes
  /\ \/ Usage <= MaximumSpoolBytes + MaxGrowth
     \/ \E e \in Event : Usage <= MaximumSpoolBytes + Size[e]

(* What crashed or failed captures left in the directory goes away or is   *)
(* taken over by a later capture.                                          *)
OrphansGo ==
  /\ <>[](stray = {})
  /\ \A e \in Event : []<>(file[e] = "absent" \/ e \in captured)

(* A settled delivery's file and row go for good (ARCHITECTURE.md:132): a  *)
(* settled delivery stays settled, so from some time on all are gone.      *)
SettledMediaGoes == <>[](\A e \in done : file[e] = "absent" /\ row[e] = "none")
=============================================================================
