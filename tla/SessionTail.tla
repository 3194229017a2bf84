----------------------------- MODULE SessionTail -----------------------------
(***************************************************************************)
(* The tail of an OpenClaw session file (openclaw_jsonl.py ingest_file): it *)
(* reads complete lines from a durable cursor, records each event, puts it *)
(* in the outbox statement by statement, outside any transaction, and      *)
(* saves the cursor at the end.  The file is written by another program,   *)
(* which appends, rotates and truncates; other producers and the operator  *)
(* commit between any two of its statements.                               *)
(***************************************************************************)
EXTENDS EventLog

CONSTANTS
  Noise, Malformed,   \* lines that carry no inbound event; lines that do not parse
  Shared,             \* events that another producer captures too
  Listed,             \* ids in the import of the old pipeline
  SlowRegrowth,       \* TRUE: a file cut in place does not grow before a run has seen it and ended
  MaxLines, MaxRewrites, MaxTailCrashes    \* bounds

Line == Event \cup Noise \cup Malformed

(* dev, inode and the hash of the first complete line; a file found shorter
   than its cursor gets a generation of its own.                           *)
Generations == [inode : 0..MaxRewrites, first : Line \cup {None}, cut : BOOLEAN]

ASSUME TailAssumption ==
  /\ Event \cap (Noise \cup Malformed) = {} /\ Noise \cap Malformed = {}
  /\ None \notin Line \cup Generations
  /\ Shared \subseteq Event /\ Listed \subseteq Event
  /\ {MaxLines, MaxRewrites, MaxTailCrashes} \subseteq Nat
  /\ SlowRegrowth \in BOOLEAN

VARIABLES
  queued, held,              \* events with a delivery; events in a route block
  legacy,                    \* events the old pipeline delivered
  routed,                    \* the conversation has an enabled route
  foreign,                   \* events recorded with another payload than their line's
  inode, lines,              \* the file: its identity and its complete lines
  cut,                       \* "cut" in place, and "seen" by the present run
  cursor,                    \* mirror_source_cursors: generation and lines taken
  pc, generation, position, view,   \* the tail: view is the open file
  rewrites, tailCrashes

outbox == <<queued, held, legacy, routed, foreign>>
file == <<inode, lines, cut, rewrites>>
tail == <<pc, generation, position, view>>
tailVars == <<file, cursor, tail, tailCrashes>>

First(some) == IF some = <<>> THEN None ELSE some[1]

Generation == [inode |-> inode, first |-> First(lines), cut |-> FALSE]

Init ==
  /\ LogInit
  /\ queued = {} /\ held = {} /\ legacy = {} /\ routed = FALSE /\ foreign = {}
  /\ inode = 0 /\ lines = <<>> /\ cut = "no" /\ rewrites = 0
  /\ cursor = [generation |-> None, taken |-> 0]
  /\ pc = "idle" /\ generation = None /\ position = 0 /\ view = <<>>
  /\ tailCrashes = 0

-----------------------------------------------------------------------------
(* The other processes.                                                    *)

(* capture_event, record and enqueue in one transaction; its payload may   *)
(* differ from that of the line.                                           *)
Capture(e, same) ==
  /\ e \notin Recorded
  /\ Record(e)
  /\ foreign' = IF same THEN foreign ELSE foreign \cup {e}
  /\ held' = held \cup {x \in {e} \ legacy : ~routed}
  /\ queued' = queued \cup {x \in {e} \ (legacy \cup held) : routed}
  /\ UNCHANGED <<legacy, routed>>

(* The operator provisions the route, or imports it with the ids that the  *)
(* old pipeline delivered, and requeues what is held.                      *)
Provision ==
  /\ ~routed
  /\ routed' = TRUE
  /\ UNCHANGED <<log, queued, held, legacy, foreign>>

Import ==
  /\ legacy' = Listed
  /\ routed' = TRUE
  /\ UNCHANGED <<log, queued, held, foreign>>

Reconcile ==
  /\ routed
  /\ queued' = queued \cup (held \ legacy)
  /\ held' = {}
  /\ UNCHANGED <<log, legacy, routed, foreign>>

Others ==
  \/ \E e \in Shared, same \in BOOLEAN : Capture(e, same)
  \/ Provision
  \/ Import
  \/ Reconcile

-----------------------------------------------------------------------------
(* The program that writes the file.  A line that is not complete yet is   *)
(* skipped by the tail, and is no part of lines.                           *)

AppendLine(l) ==
  /\ Len(lines) < MaxLines
  /\ SlowRegrowth => cut = "no"
  /\ lines' = Append(lines, l)
  /\ UNCHANGED <<inode, cut, rewrites, cursor, tail, tailCrashes, log, outbox>>

Rotate ==
  /\ rewrites < MaxRewrites
  /\ rewrites' = rewrites + 1
  /\ inode' = inode + 1
  /\ lines' = <<>> /\ cut' = "no"
  /\ UNCHANGED <<cursor, tail, tailCrashes, log, outbox>>

Truncate(n) ==
  /\ rewrites < MaxRewrites
  /\ n < Len(lines)
  /\ rewrites' = rewrites + 1
  /\ lines' = SubSeq(lines, 1, n) /\ cut' = "cut"
  /\ UNCHANGED <<inode, cursor, tail, tailCrashes, log, outbox>>

-----------------------------------------------------------------------------
(* One call of ingest_file.                                                *)

(* Where the present file was left, 0 if the cursor is of another one.     *)
Position == IF cursor.generation = Generation THEN cursor.taken ELSE 0

(* faulty Stat: a file shorter than its cursor is not noticed.             *)
StatKeepsPosition ==
  /\ pc = "idle"
  /\ generation' = Generation
  /\ position' = Position
  /\ cut' = IF cut = "cut" THEN "seen" ELSE cut
  /\ pc' = "open"
  /\ UNCHANGED <<inode, lines, rewrites, cursor, view, tailCrashes, log, outbox>>

(* The generation and the start are decided before the file is opened.     *)
Stat ==
  /\ pc = "idle"
  /\ generation' = [Generation EXCEPT !.cut = Position > Len(lines)]
  /\ position' = IF Position > Len(lines) THEN 0 ELSE Position
  /\ cut' = IF cut = "cut" THEN "seen" ELSE cut
  /\ pc' = "open"
  /\ UNCHANGED <<inode, lines, rewrites, cursor, view, tailCrashes, log, outbox>>

Open ==
  /\ pc = "open"
  /\ view' = lines
  /\ pc' = "read"
  /\ UNCHANGED <<file, cursor, generation, position, tailCrashes, log, outbox>>

Rest == pc' = "idle" /\ generation' = None /\ position' = 0 /\ view' = <<>>

NextLine == view[position + 1]
HasLine == pc = "read" /\ position < Len(view)

Ignore ==
  /\ HasLine /\ NextLine \in Noise
  /\ position' = position + 1
  /\ UNCHANGED <<file, cursor, pc, generation, view, tailCrashes, log, outbox>>

(* faulty RecordLine: the line counts as taken before it is enqueued.      *)
RecordAdvances ==
  /\ HasLine /\ NextLine \in Event \ foreign
  /\ Record(NextLine)
  /\ position' = position + 1
  /\ pc' = "recorded"
  /\ UNCHANGED <<file, cursor, generation, view, tailCrashes, outbox>>

(* faulty RecordLine: the cursor is saved with the event.                  *)
RecordSaves ==
  /\ HasLine /\ NextLine \in Event \ foreign
  /\ Record(NextLine)
  /\ cursor' = [generation |-> generation, taken |-> position + 1]
  /\ pc' = "recorded"
  /\ UNCHANGED <<file, generation, position, view, tailCrashes, outbox>>

RecordLine ==
  /\ HasLine /\ NextLine \in Event \ foreign
  /\ Record(NextLine)
  /\ pc' = "recorded"
  /\ UNCHANGED <<file, cursor, generation, position, view, tailCrashes, outbox>>

(* enqueue, one statement after another: the lookup of the legacy id, the  *)
(* reading of the route, the block of an event without one or the reading  *)
(* of its block, and the delivery.                                         *)
Pass == position' = position + 1 /\ pc' = "read"

Look ==
  /\ pc = "recorded"
  /\ \/ NextLine \in legacy /\ Pass
     \/ NextLine \notin legacy /\ pc' = "looked" /\ UNCHANGED position
  /\ UNCHANGED <<file, cursor, generation, view, tailCrashes, log, outbox>>

ReadRoute ==
  /\ pc = "looked"
  /\ pc' = IF routed THEN "routed" ELSE "unrouted"
  /\ UNCHANGED <<file, cursor, generation, position, view, tailCrashes, log, outbox>>

HoldLine ==
  /\ pc = "unrouted"
  /\ held' = held \cup {NextLine}
  /\ Pass
  /\ UNCHANGED <<file, cursor, generation, view, tailCrashes, log, queued, legacy, routed, foreign>>

ReadBlock ==
  /\ pc = "routed"
  /\ \/ NextLine \in held /\ Pass
     \/ NextLine \notin held /\ pc' = "clear" /\ UNCHANGED position
  /\ UNCHANGED <<file, cursor, generation, view, tailCrashes, log, outbox>>

QueueLine ==
  /\ pc = "clear"
  /\ queued' = queued \cup {NextLine}
  /\ Pass
  /\ UNCHANGED <<file, cursor, generation, view, tailCrashes, log, held, legacy, routed, foreign>>

SetCursor == cursor' = [generation |-> generation, taken |-> position]

(* At the end of the complete lines, or at a line that does not parse.     *)
Save ==
  /\ pc = "read"
  /\ HasLine => NextLine \in Malformed
  /\ SetCursor
  /\ cut' = IF cut = "seen" THEN "no" ELSE cut
  /\ Rest
  /\ UNCHANGED <<inode, lines, rewrites, tailCrashes, log, outbox>>

(* The call ends without saving how far it came.                           *)
Abandon ==
  /\ cut' = IF cut = "seen" THEN "cut" ELSE cut
  /\ Rest

(* record_event raises EventConflictError, which nothing here catches.     *)
Conflict ==
  /\ HasLine /\ NextLine \in foreign
  /\ Abandon
  /\ UNCHANGED <<inode, lines, rewrites, cursor, tailCrashes, log, outbox>>

CrashTail ==
  /\ pc # "idle"
  /\ tailCrashes < MaxTailCrashes
  /\ tailCrashes' = tailCrashes + 1
  /\ Abandon
  /\ UNCHANGED <<inode, lines, rewrites, cursor, log, outbox>>

Ingest ==
  \/ Stat \/ Open \/ Ignore \/ RecordLine \/ Look \/ ReadRoute \/ HoldLine
  \/ ReadBlock \/ QueueLine \/ Conflict \/ Save

Next ==
  \/ \E l \in Line : AppendLine(l)
  \/ Rotate
  \/ \E n \in 0..MaxLines : Truncate(n)
  \/ Ingest
  \/ CrashTail
  \/ Others /\ UNCHANGED tailVars

vars == <<log, outbox, tailVars>>

Spec == Init /\ [][Next]_vars

(* ingest_file is called again and again, and every call ends.             *)
FairSpec == Spec /\ WF_vars(Ingest)

-----------------------------------------------------------------------------
OutboxOK ==
  /\ queued \in SUBSET Event /\ held \in SUBSET Event
  /\ legacy \in SUBSET Listed /\ foreign \in SUBSET Shared
  /\ routed \in BOOLEAN

FileOK ==
  /\ inode \in 0..MaxRewrites /\ rewrites \in 0..MaxRewrites /\ inode <= rewrites
  /\ lines \in Seq(Line) /\ Len(lines) <= MaxLines
  /\ cut \in {"no", "cut", "seen"}

Enqueueing == {"recorded", "looked", "unrouted", "routed", "clear"}

TailOK ==
  /\ cursor \in [generation : Generations \cup {None}, taken : 0..MaxLines]
  /\ pc \in {"idle", "open", "read"} \cup Enqueueing
  /\ generation \in Generations \cup {None} /\ position \in 0..MaxLines
  /\ view \in Seq(Line) /\ Len(view) <= MaxLines
  /\ pc \in Enqueueing => position < Len(view) /\ NextLine \in Event
  /\ pc = "idle" <=> generation = None

TypeOK == LogTypeOK /\ OutboxOK /\ FileOK /\ TailOK /\ tailCrashes \in 0..MaxTailCrashes

(* The event of a line is recorded as the line has it, and is delivered,   *)
(* held for the operator, or known to be delivered already.                *)
Handled(l) ==
  l \in Event => l \in Recorded \ foreign /\ l \in queued \cup held \cup legacy

(* The cursor of the present file passes no line whose event is not in the
   ledger and accounted for, though these are statements of their own.     *)
CursorPassesNothing ==
  cursor.generation = Generation =>
    \A n \in 1..Len(lines) : n <= cursor.taken => Handled(lines[n])

(* Every complete line of the file is handled, up to the first line that
   stops the tail for good: it does not parse, or another producer has
   recorded its event with another payload.                                *)
LinesAreTaken ==
  <>[](\A n \in 1..Len(lines) :
         (\A k \in 1..n : lines[k] \notin Malformed \cup foreign) => Handled(lines[n]))
=============================================================================
