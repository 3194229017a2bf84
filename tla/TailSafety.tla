----------------------------- MODULE TailSafety -----------------------------
(***************************************************************************)
(* Proofs about SessionTail, for any lines, rewrites and crashes, and a    *)
(* file that does not regrow unseen.                                       *)
(***************************************************************************)
EXTENDS SessionTail, TLAPS

(* What the run or the cursor has passed is handled, as far as it is about *)
(* the present file.                                                       *)
Passed(g, n) ==
  g = Generation => \A k \in 1..Len(lines) : k <= n => Handled(lines[k])

(* A file that was not cut since it was last seen has at least the lines   *)
(* that were taken of it, and the same first line.                         *)
CursorFits ==
  cut = "no" /\ cursor.generation # None /\ cursor.generation.inode = inode =>
    /\ cursor.generation.first \in {None, First(lines)}
    /\ cursor.generation = Generation => cursor.taken <= Len(lines)

RunFits ==
  cut \in {"no", "seen"} /\ pc # "idle" /\ generation.inode = inode =>
    /\ generation.first \in {None, First(lines)}
    /\ position <= Len(lines)
    /\ pc # "open" => Len(view) <= Len(lines)

(* The open file and the present one agree on the lines both have.         *)
ViewAgrees ==
  pc \in {"read"} \cup Enqueueing /\ generation.inode = inode =>
    \A k \in 1..Len(view) : k <= Len(lines) => lines[k] = view[k]

GenerationsArePast ==
  /\ cursor.generation # None => cursor.generation.inode <= inode
  /\ generation # None => generation.inode <= inode

LineIsRecorded == pc \in Enqueueing => NextLine \in Recorded \ foreign

TailInvariant ==
  /\ Passed(cursor.generation, cursor.taken)
  /\ Passed(generation, position)
  /\ CursorFits /\ RunFits /\ ViewAgrees /\ GenerationsArePast /\ LineIsRecorded
-----------------------------------------------------------------------------
(* The log is typed, and what is handled stays handled.                    *)
Accounted == queued \cup held \cup legacy

LogGrows ==
  /\ Recorded \ foreign \subseteq Recorded' \ foreign'
  /\ Accounted \subseteq Accounted'

LEMMA RecordTyped ==
  ASSUME LogTypeOK, NEW e \in Event, Record(e)
  PROVE  /\ LogTypeOK'
         /\ Recorded \subseteq Recorded' /\ e \in Recorded'
<1>1. CASE e \in Recorded
  BY <1>1 DEF Record, Recorded, LogTypeOK
<1>2. CASE e \notin Recorded
  <2>1. events' = Append(events, e) /\ events \in Seq(Event)
    BY <1>2 DEF Record, LogTypeOK
  <2>2. /\ events' \in Seq(Event) /\ Len(events') = Len(events) + 1
        /\ events'[Len(events) + 1] = e
        /\ \A n \in 1..Len(events) : events'[n] = events[n]
    BY <2>1
  <2> QED BY <1>2, <2>1, <2>2 DEF Recorded, LogTypeOK
<1> QED BY <1>1, <1>2

LEMMA OthersTyped ==
  ASSUME LogTypeOK, OutboxOK, Others
  PROVE  LogTypeOK' /\ OutboxOK' /\ LogGrows
<1> USE TailAssumption
<1>1. CASE \E e \in Shared, same \in BOOLEAN : Capture(e, same)
  <2> PICK e \in Shared, same \in BOOLEAN : Capture(e, same)
    BY <1>1
  <2>1. LogTypeOK' /\ Recorded \subseteq Recorded'
    BY RecordTyped DEF Capture
  <2>2. e \notin Recorded /\ foreign' \subseteq foreign \cup {e}
    BY DEF Capture
  <2>3. OutboxOK' /\ Accounted \subseteq Accounted'
    BY DEF Capture, OutboxOK, Accounted
  <2> QED BY <2>1, <2>2, <2>3 DEF LogGrows
<1>2. CASE Provision \/ Import \/ Reconcile
  <2>1. LogTypeOK' /\ Recorded' = Recorded /\ foreign' = foreign
    BY <1>2 DEF Provision, Import, Reconcile, log, LogTypeOK, Recorded
  <2>2. OutboxOK' /\ Accounted \subseteq Accounted'
    BY <1>2 DEF Provision, Import, Reconcile, OutboxOK, Accounted
  <2> QED BY <2>1, <2>2 DEF LogGrows
<1> QED BY <1>1, <1>2 DEF Others

-----------------------------------------------------------------------------
LEMMA GenerationTyped ==
  ASSUME FileOK
  PROVE  /\ Generation \in Generations
         /\ \A past \in BOOLEAN :
              LET g == [Generation EXCEPT !.cut = past]
              IN  g \in Generations /\ g.inode = inode /\ g.first = First(lines)
<1>1. First(lines) \in Line \cup {None}
  BY DEF First, FileOK
<1> QED BY <1>1 DEF Generation, Generations, FileOK

LEMMA InitTyped == Init => TypeOK
<1> SUFFICES ASSUME Init PROVE TypeOK
  OBVIOUS
<1>1. LogTypeOK /\ OutboxOK
  <2>1. events \in Seq(Event) /\ Len(events) = 0
    BY DEF Init, LogInit
  <2>2. OutboxOK
    BY DEF Init, OutboxOK
  <2> QED BY <2>1, <2>2 DEF LogTypeOK
<1>2. lines \in Seq(Line) /\ Len(lines) = 0 /\ view \in Seq(Line) /\ Len(view) = 0
  BY DEF Init
<1> QED BY <1>1, <1>2, TailAssumption DEF Init, TypeOK, FileOK, TailOK, Enqueueing

LEMMA RestTyped ==
  ASSUME TailOK, Rest,
         cursor' \in [generation : Generations \cup {None}, taken : 0..MaxLines]
  PROVE  TailOK'
<1>1. view' \in Seq(Line) /\ Len(view') = 0
  BY DEF Rest
<1> QED BY <1>1, TailAssumption DEF Rest, TailOK, Enqueueing

LEMMA Unlogged ==
  ASSUME TypeOK, UNCHANGED <<log, outbox>>
  PROVE  LogTypeOK' /\ OutboxOK' /\ LogGrows
BY DEF TypeOK, log, outbox, LogTypeOK, OutboxOK, LogGrows, Recorded, Accounted

(* The run passes the line it is at, or takes a step of its enqueue.       *)
LEMMA LineTyped ==
  ASSUME TypeOK, pc \in Enqueueing, UNCHANGED <<cursor, generation, view>>,
         \/ Pass
         \/ pc' \in Enqueueing /\ UNCHANGED position
  PROVE  TailOK'
<1>1. CASE Pass
  <2>1. position' \in 0..MaxLines
    BY <1>1, TailAssumption DEF Pass, TypeOK, TailOK
  <2> QED BY <1>1, <2>1 DEF Pass, TypeOK, TailOK, Enqueueing
<1>2. CASE pc' \in Enqueueing /\ UNCHANGED position
  BY <1>2 DEF TypeOK, TailOK, Enqueueing, NextLine
<1> QED BY <1>1, <1>2

LEMMA EnqueueTyped ==
  ASSUME TypeOK, Look \/ ReadRoute \/ HoldLine \/ ReadBlock \/ QueueLine
  PROVE  /\ TypeOK' /\ LogGrows
         /\ Pass => NextLine \in Accounted'
<1>1. pc \in Enqueueing /\ NextLine \in Event
  BY DEF Look, ReadRoute, HoldLine, ReadBlock, QueueLine, Enqueueing, TypeOK, TailOK
<1>2. /\ UNCHANGED <<file, cursor, generation, view, tailCrashes, log>>
      /\ Pass \/ (pc' \in Enqueueing /\ UNCHANGED position)
  BY DEF Look, ReadRoute, HoldLine, ReadBlock, QueueLine, Enqueueing
<1>3. TailOK'
  BY <1>1, <1>2, LineTyped
<1>4. OutboxOK' /\ Accounted \subseteq Accounted' /\ foreign' = foreign
  BY <1>1 DEF Look, ReadRoute, HoldLine, ReadBlock, QueueLine, outbox, TypeOK, OutboxOK,
     Accounted
<1>5. LogTypeOK' /\ Recorded' = Recorded
  BY <1>2 DEF log, TypeOK, LogTypeOK, Recorded
<1>6. ASSUME Pass PROVE NextLine \in Accounted'
  <2>1. pc' # "looked" /\ pc' # "clear" /\ pc' \notin {"routed", "unrouted"}
    BY <1>6 DEF Pass
  <2> QED BY <2>1 DEF Look, ReadRoute, HoldLine, ReadBlock, QueueLine, outbox, Accounted
<1> QED BY <1>2, <1>3, <1>4, <1>5, <1>6 DEF TypeOK, LogGrows, file, FileOK

LEMMA IngestTyped ==
  ASSUME TypeOK, Ingest
  PROVE  TypeOK' /\ LogGrows
<1> USE DEF TypeOK
<1>1. CASE Stat
  <2>1. generation' \in Generations /\ generation' # None
    <3>1. (Position > Len(lines)) \in BOOLEAN
      OBVIOUS
    <3> QED BY <1>1, <3>1, GenerationTyped, TailAssumption DEF Stat
  <2>2. position' \in 0..MaxLines
    BY <1>1, TailAssumption DEF Stat, Position, TailOK, FileOK
  <2>3. TailOK'
    BY <1>1, <2>1, <2>2 DEF Stat, TailOK, Enqueueing
  <2>4. FileOK'
    BY <1>1 DEF Stat, FileOK
  <2> QED BY <1>1, <2>3, <2>4, Unlogged DEF Stat
<1>2. CASE Open
  <2>1. TailOK' /\ FileOK'
    BY <1>2 DEF Open, file, FileOK, TailOK, Enqueueing
  <2> QED BY <1>2, <2>1, Unlogged DEF Open
<1>3. CASE Ignore
  <2>1. position' \in 0..MaxLines
    BY <1>3, TailAssumption DEF Ignore, HasLine, TailOK
  <2>2. TailOK' /\ FileOK'
    BY <1>3, <2>1 DEF Ignore, HasLine, file, FileOK, TailOK, Enqueueing
  <2> QED BY <1>3, <2>2, Unlogged DEF Ignore
<1>4. CASE RecordLine
  <2>1. LogTypeOK' /\ OutboxOK' /\ LogGrows
    BY <1>4, RecordTyped DEF RecordLine, outbox, OutboxOK, LogGrows, Accounted
  <2>2. TailOK'
    BY <1>4 DEF RecordLine, HasLine, TailOK, Enqueueing, NextLine
  <2> QED BY <1>4, <2>1, <2>2 DEF RecordLine, file, FileOK
<1>5. CASE Look \/ ReadRoute \/ HoldLine \/ ReadBlock \/ QueueLine
  BY <1>5, EnqueueTyped
<1>6. CASE Save
  <2>1. cursor' \in [generation : Generations \cup {None}, taken : 0..MaxLines]
    BY <1>6 DEF Save, SetCursor, TailOK
  <2>2. TailOK'
    BY <1>6, <2>1, RestTyped DEF Save
  <2>3. FileOK'
    BY <1>6 DEF Save, FileOK
  <2> QED BY <1>6, <2>2, <2>3, Unlogged DEF Save
<1>7. CASE Conflict
  <2>1. TailOK' /\ FileOK'
    BY <1>7, RestTyped DEF Conflict, Abandon, TailOK, FileOK
  <2> QED BY <1>7, <2>1, Unlogged DEF Conflict
<1> QED BY <1>1, <1>2, <1>3, <1>4, <1>5, <1>6, <1>7 DEF Ingest

LEMMA WriterTyped ==
  ASSUME TypeOK,
         \/ \E l \in Line : AppendLine(l)
         \/ Rotate
         \/ \E n \in 0..MaxLines : Truncate(n)
  PROVE  TypeOK' /\ UNCHANGED <<log, outbox>>
<1> USE TailAssumption DEF TypeOK
<1>1. CASE \E l \in Line : AppendLine(l)
  <2> PICK l \in Line : AppendLine(l)
    BY <1>1
  <2>1. lines' \in Seq(Line) /\ Len(lines') = Len(lines) + 1
    BY DEF AppendLine, FileOK
  <2>2. FileOK'
    BY <2>1 DEF AppendLine, FileOK
  <2> QED BY <2>2 DEF AppendLine, tail, log, outbox, LogTypeOK, OutboxOK, TailOK, NextLine
<1>2. CASE Rotate
  <2>1. lines' \in Seq(Line) /\ Len(lines') = 0
    BY <1>2 DEF Rotate
  <2>2. FileOK'
    BY <1>2, <2>1 DEF Rotate, FileOK
  <2> QED BY <1>2, <2>2 DEF Rotate, tail, log, outbox, LogTypeOK, OutboxOK, TailOK, NextLine
<1>3. CASE \E n \in 0..MaxLines : Truncate(n)
  <2> PICK n \in 0..MaxLines : Truncate(n)
    BY <1>3
  <2>1. lines' \in Seq(Line) /\ Len(lines') = n
    BY DEF Truncate, FileOK
  <2>2. FileOK'
    BY <2>1 DEF Truncate, FileOK
  <2> QED BY <2>2 DEF Truncate, tail, log, outbox, LogTypeOK, OutboxOK, TailOK, NextLine
<1> QED BY <1>1, <1>2, <1>3

LEMMA NextTyped ==
  ASSUME TypeOK, [Next]_vars
  PROVE  TypeOK'
<1>1. CASE CrashTail
  <2>1. TailOK'
    BY <1>1, RestTyped DEF CrashTail, Abandon, TypeOK, TailOK
  <2>2. FileOK'
    BY <1>1 DEF CrashTail, Abandon, TypeOK, FileOK
  <2>3. tailCrashes' \in 0..MaxTailCrashes
    BY <1>1, TailAssumption DEF CrashTail, TypeOK
  <2> QED BY <1>1, <2>1, <2>2, <2>3, Unlogged DEF CrashTail, TypeOK
<1>2. CASE UNCHANGED tailVars /\ (Others \/ UNCHANGED <<log, outbox>>)
  <2>1. FileOK' /\ TailOK' /\ tailCrashes' = tailCrashes
    BY <1>2 DEF tailVars, file, tail, TypeOK, FileOK, TailOK, NextLine
  <2>2. LogTypeOK' /\ OutboxOK'
    BY <1>2, OthersTyped, Unlogged DEF TypeOK
  <2> QED BY <2>1, <2>2 DEF TypeOK
<1>3. CASE UNCHANGED vars
  BY <1>2, <1>3 DEF vars
<1> QED BY <1>1, <1>2, <1>3, IngestTyped, WriterTyped DEF Next

(* The types of the log and of the tail, for any file.                     *)
THEOREM TailTypeCorrect == Spec => []TypeOK
BY InitTyped, NextTyped, PTL DEF Spec
-----------------------------------------------------------------------------
LEMMA InitTail == Init => TailInvariant
BY TailAssumption DEF Init, TailInvariant, Passed, Generation, CursorFits, RunFits, ViewAgrees,
   GenerationsArePast, LineIsRecorded, Enqueueing

(* A step that leaves the file and the tail alone and lets the log grow.   *)
LEMMA LogTail ==
  ASSUME TailInvariant, LogGrows,
         UNCHANGED <<inode, lines, cut, cursor, pc, generation, position, view>>
  PROVE  TailInvariant'
<1>1. ASSUME NEW l, Handled(l) PROVE Handled(l)'
  BY <1>1 DEF Handled, LogGrows, Accounted
<1>2. ASSUME NEW g, NEW n, Passed(g, n) PROVE (g = Generation => \A k \in 1..Len(lines) : k <= n => Handled(lines[k])')
  BY <1>1, <1>2 DEF Passed
<1>3. Passed(cursor.generation, cursor.taken)' /\ Passed(generation, position)'
  BY <1>2 DEF TailInvariant, Passed, Generation, Handled
<1>4. CursorFits' /\ RunFits' /\ ViewAgrees' /\ GenerationsArePast'
  BY DEF TailInvariant, CursorFits, RunFits, ViewAgrees, GenerationsArePast, Generation
<1>5. LineIsRecorded'
  BY DEF TailInvariant, LineIsRecorded, LogGrows, NextLine
<1> QED BY <1>3, <1>4, <1>5 DEF TailInvariant

(* A line appended to an empty file makes it a file no run has seen, and a
   line appended to another is past everything taken of it.                *)
LEMMA AppendTail ==
  ASSUME SlowRegrowth, TypeOK, TailInvariant, NEW l \in Line, AppendLine(l)
  PROVE  TailInvariant'
<1>1. /\ cut = "no" /\ Len(lines) \in Nat /\ Len(lines') = Len(lines) + 1
      /\ \A k \in 1..Len(lines) : lines'[k] = lines[k]
      /\ lines'[Len(lines) + 1] = l
      /\ UNCHANGED <<inode, cut, cursor, pc, generation, position, view, events, queued, held, legacy, foreign>>
  BY DEF AppendLine, TypeOK, FileOK, tail, log, outbox
<1>2. Generation \in Generations /\ Generation' \in Generations
  <2>1. FileOK'
    BY WriterTyped DEF TypeOK
  <2>2. First(lines)' \in Line \cup {None}
    BY <2>1 DEF First, FileOK
  <2> QED BY <2>1, <2>2, GenerationTyped DEF Generation, Generations, FileOK, TypeOK
<1>3. ASSUME NEW g, g = Generation', g.inode = inode => g.first \in {None, First(lines)}
      PROVE  g = Generation
  <2>1. CASE Len(lines) = 0
    <3>1. First(lines) = None /\ First(lines') = l /\ l # None
      <4>1. lines = <<>> /\ lines' # <<>> /\ lines'[1] = l
        <5>1. lines \in Seq(Line) /\ Len(lines) = 0 /\ Len(lines') = 1 /\ lines'[1] = l
          BY <1>1, <2>1 DEF TypeOK, FileOK
        <5>2. lines = <<>>
          BY <5>1
        <5>3. lines' # <<>>
          BY <5>1
        <5> QED BY <5>1, <5>2, <5>3
      <4> QED BY <4>1, TailAssumption DEF First
    <3> QED BY <1>1, <1>3, <3>1 DEF Generation
  <2>2. CASE Len(lines) # 0
    <3>1. lines # <<>> /\ lines' # <<>> /\ lines'[1] = lines[1]
      BY <1>1, <2>2 DEF TypeOK, FileOK
    <3>2. First(lines') = First(lines)
      BY <3>1 DEF First
    <3> QED BY <1>1, <1>3, <3>2 DEF Generation
  <2> QED BY <2>1, <2>2
<1>4. /\ cursor.generation = Generation' => cursor.generation = Generation /\ cursor.taken <= Len(lines)
      /\ generation = Generation' => generation = Generation /\ position <= Len(lines)
  <2>1. pc = "idle" => generation # Generation'
    BY <1>2, TailAssumption DEF TypeOK, TailOK
  <2>2. Generation'.inode = inode /\ None # Generation'
    BY <1>1, <1>2, TailAssumption DEF Generation
  <2> QED BY <1>1, <1>3, <2>1, <2>2 DEF TailInvariant, CursorFits, RunFits
<1>5. \A k \in 1..Len(lines) : Handled(lines[k]) => Handled(lines[k])'
  BY <1>1 DEF Handled, Recorded, Accounted
<1>6. Passed(cursor.generation, cursor.taken)'
  <2> SUFFICES ASSUME cursor.generation = Generation', NEW k \in 1..Len(lines'), k <= cursor.taken
               PROVE  Handled(lines[k])'
    BY <1>1 DEF Passed
  <2>1. cursor.generation = Generation /\ k \in 1..Len(lines)
    BY <1>1, <1>4 DEF TypeOK, TailOK
  <2> QED BY <1>5, <2>1 DEF TailInvariant, Passed
<1>7. Passed(generation, position)'
  <2> SUFFICES ASSUME generation = Generation', NEW k \in 1..Len(lines'), k <= position
               PROVE  Handled(lines[k])'
    BY <1>1 DEF Passed
  <2>1. generation = Generation /\ k \in 1..Len(lines)
    BY <1>1, <1>4 DEF TypeOK, TailOK
  <2> QED BY <1>5, <2>1 DEF TailInvariant, Passed
<1>8. CursorFits'
  <2>1. First(lines) # None => First(lines') = First(lines)
    BY <1>1 DEF First, TypeOK, FileOK
  <2> QED BY <1>1, <1>4, <2>1 DEF CursorFits, TailInvariant, TypeOK, TailOK
<1>9. RunFits'
  <2>1. First(lines) # None => First(lines') = First(lines)
    BY <1>1 DEF First, TypeOK, FileOK
  <2> QED BY <1>1, <1>4, <2>1 DEF RunFits, TailInvariant, TypeOK, TailOK
<1>10. ViewAgrees'
  BY <1>1 DEF ViewAgrees, RunFits, TailInvariant, TypeOK, TailOK, Enqueueing
<1>11. GenerationsArePast' /\ LineIsRecorded'
  BY <1>1 DEF GenerationsArePast, LineIsRecorded, TailInvariant, NextLine, Recorded
<1> QED BY <1>6, <1>7, <1>8, <1>9, <1>10, <1>11 DEF TailInvariant

LEMMA RotateTail ==
  ASSUME TypeOK, TailInvariant, Rotate
  PROVE  TailInvariant'
<1>1. /\ inode' = inode + 1 /\ lines' = <<>> /\ inode \in Nat
      /\ UNCHANGED <<cursor, pc, generation, position, view, events, foreign>>
  BY DEF Rotate, TypeOK, FileOK, tail, log, outbox
<1>2. Len(lines') = 0
  BY <1>1
<1>3. GenerationsArePast'
  BY <1>1 DEF GenerationsArePast, TailInvariant, TypeOK, TailOK, Generations
<1>4. ASSUME NEW g \in Generations, g.inode <= inode PROVE g.inode # inode'
  BY <1>1, <1>4 DEF Generations
<1>5. /\ cursor.generation # None => cursor.generation.inode # inode'
      /\ pc # "idle" => generation.inode # inode'
  BY <1>4 DEF GenerationsArePast, TailInvariant, TypeOK, TailOK
<1>6. CursorFits' /\ RunFits' /\ ViewAgrees'
  BY <1>1, <1>5 DEF CursorFits, RunFits, ViewAgrees
<1>7. Passed(cursor.generation, cursor.taken)' /\ Passed(generation, position)'
  BY <1>1, <1>2 DEF Passed
<1>8. LineIsRecorded'
  BY <1>1 DEF LineIsRecorded, TailInvariant, NextLine, Recorded
<1> QED BY <1>3, <1>6, <1>7, <1>8 DEF TailInvariant

LEMMA TruncateTail ==
  ASSUME TypeOK, TailInvariant, NEW n \in 0..MaxLines, Truncate(n)
  PROVE  TailInvariant'
<1>1. /\ n \in Nat /\ n < Len(lines) /\ Len(lines') = n /\ cut' = "cut"
      /\ \A k \in 1..n : lines'[k] = lines[k]
      /\ UNCHANGED <<inode, cursor, pc, generation, position, view, events, queued, held, legacy, foreign>>
  BY TailAssumption DEF Truncate, TypeOK, FileOK, tail, log, outbox
<1>2. n > 0 => First(lines') = First(lines)
  BY <1>1 DEF First
<1>3. ASSUME NEW k \in 1..Len(lines')
      PROVE  k \in 1..Len(lines) /\ Generation' = Generation /\ (Handled(lines[k]) => Handled(lines[k])')
  <2>1. k \in 1..n /\ n > 0
    BY <1>1
  <2>2. k \in 1..Len(lines) /\ Generation' = Generation
    BY <1>1, <1>2, <2>1 DEF Generation, TypeOK, FileOK
  <2> QED BY <1>1, <2>1, <2>2 DEF Handled, Recorded, Accounted
<1>4. Passed(cursor.generation, cursor.taken)' /\ Passed(generation, position)'
  <2> SUFFICES ASSUME NEW g, NEW m, Passed(g, m), g = Generation', NEW k \in 1..Len(lines'), k <= m
               PROVE  Handled(lines[k])'
    BY <1>1 DEF Passed, TailInvariant
  <2> QED BY <1>3 DEF Passed
<1>5. CursorFits' /\ RunFits'
  BY <1>1 DEF CursorFits, RunFits
<1>6. ViewAgrees'
  BY <1>1 DEF ViewAgrees, TailInvariant
<1>7. GenerationsArePast' /\ LineIsRecorded'
  BY <1>1 DEF GenerationsArePast, LineIsRecorded, TailInvariant, NextLine, Recorded
<1> QED BY <1>4, <1>5, <1>6, <1>7 DEF TailInvariant
LEMMA StatTail ==
  ASSUME TypeOK, TailInvariant, Stat
  PROVE  TailInvariant'
<1>1. /\ pc = "idle" /\ pc' = "open" /\ cut' \in {"no", "seen"}
      /\ cut' = "no" => cut = "no"
      /\ UNCHANGED <<inode, lines, cursor, view, events, queued, held, legacy, foreign>>
  BY DEF Stat, TypeOK, FileOK, log, outbox
<1>2. /\ generation' # None /\ generation'.inode = inode /\ generation'.first = First(lines)
      /\ position' <= Len(lines) /\ position' \in 0..MaxLines
      /\ generation' = Generation => position' = 0 \/ (cursor.generation = Generation /\ position' = cursor.taken)
  <2>1. generation' # None /\ generation'.inode = inode /\ generation'.first = First(lines)
    <3>1. (Position > Len(lines)) \in BOOLEAN
      OBVIOUS
    <3> QED BY <3>1, GenerationTyped, TailAssumption DEF Stat, TypeOK
  <2>2. position' \in 0..MaxLines
    BY TailAssumption DEF Stat, Position, TypeOK, TailOK
  <2>3. position' <= Len(lines) /\ (position' = 0 \/ (cursor.generation = Generation /\ position' = cursor.taken))
    BY DEF Stat, Position, TypeOK, FileOK, TailOK
  <2> QED BY <2>1, <2>2, <2>3
<1>3. Passed(cursor.generation, cursor.taken)'
  BY <1>1 DEF Passed, Generation, Handled, Recorded, Accounted, TailInvariant
<1>4. Passed(generation, position)'
  BY <1>1, <1>2 DEF Passed, Generation, Handled, Recorded, Accounted, TailInvariant
<1>5. CursorFits'
  BY <1>1 DEF CursorFits, Generation, TailInvariant
<1>6. RunFits' /\ ViewAgrees' /\ LineIsRecorded'
  BY <1>1, <1>2 DEF RunFits, ViewAgrees, LineIsRecorded, Enqueueing
<1>7. GenerationsArePast'
  BY <1>1, <1>2 DEF GenerationsArePast, TailInvariant, TypeOK, FileOK
<1> QED BY <1>3, <1>4, <1>5, <1>6, <1>7 DEF TailInvariant

LEMMA OpenTail ==
  ASSUME TypeOK, TailInvariant, Open
  PROVE  TailInvariant'
<1>1. /\ pc = "open" /\ pc' = "read" /\ view' = lines
      /\ UNCHANGED <<inode, lines, cut, cursor, generation, position, events, queued, held, legacy, foreign>>
  BY DEF Open, file, log, outbox
<1>2. Passed(cursor.generation, cursor.taken)' /\ Passed(generation, position)'
  BY <1>1 DEF Passed, Generation, Handled, Recorded, Accounted, TailInvariant
<1>3. CursorFits' /\ GenerationsArePast'
  BY <1>1 DEF CursorFits, GenerationsArePast, Generation, TailInvariant
<1>4. RunFits' /\ ViewAgrees' /\ LineIsRecorded'
  BY <1>1 DEF RunFits, ViewAgrees, LineIsRecorded, TailInvariant, TypeOK, FileOK, Enqueueing
<1> QED BY <1>2, <1>3, <1>4 DEF TailInvariant

(* The run passes a line it has handled.                                   *)
LEMMA PassTail ==
  ASSUME TypeOK, TailInvariant, LogGrows,
         pc \in {"read"} \cup Enqueueing, position < Len(view),
         \A l : l = NextLine => Handled(l)',
         position' = position + 1, pc' = "read",
         UNCHANGED <<inode, lines, cut, cursor, generation, view>>
  PROVE  TailInvariant'
<1>1. ASSUME NEW l, Handled(l) PROVE Handled(l)'
  BY <1>1 DEF Handled, LogGrows, Accounted
<1>2. Generation' = Generation
  BY DEF Generation
<1>3. Passed(cursor.generation, cursor.taken)'
  BY <1>1 DEF Passed, Generation, Handled, TailInvariant
<1>4. Passed(generation, position)'
  <2> SUFFICES ASSUME generation = Generation, NEW k \in 1..Len(lines), k <= position + 1
               PROVE  Handled(lines[k])'
    BY <1>2 DEF Passed
  <2>1. position \in Nat /\ k \in Nat /\ Len(view) \in Nat
    BY DEF TypeOK, TailOK
  <2>2. CASE k <= position
    BY <1>1, <2>2 DEF TailInvariant, Passed
  <2>3. CASE k = position + 1
    <3>1. generation.inode = inode /\ k \in 1..Len(view)
      BY <2>1, <2>3 DEF Generation
    <3>2. lines[k] = view[k]
      BY <3>1 DEF TailInvariant, ViewAgrees
    <3> QED BY <2>3, <3>2 DEF NextLine
  <2> QED BY <2>1, <2>2, <2>3
<1>5. CursorFits' /\ GenerationsArePast'
  BY DEF CursorFits, GenerationsArePast, Generation, TailInvariant
<1>6. RunFits' /\ ViewAgrees' /\ LineIsRecorded'
  BY DEF RunFits, ViewAgrees, LineIsRecorded, TailInvariant, TypeOK, FileOK, TailOK, Enqueueing
<1> QED BY <1>3, <1>4, <1>5, <1>6 DEF TailInvariant

(* The run goes on with the line it is at.                                 *)
LEMMA StayTail ==
  ASSUME TypeOK, TailInvariant, LogGrows,
         pc \in Enqueueing, pc' \in Enqueueing,
         UNCHANGED <<inode, lines, cut, cursor, generation, position, view>>
  PROVE  TailInvariant'
<1>1. ASSUME NEW l, Handled(l) PROVE Handled(l)'
  BY <1>1 DEF Handled, LogGrows, Accounted
<1>2. Passed(cursor.generation, cursor.taken)' /\ Passed(generation, position)'
  BY <1>1 DEF Passed, Generation, Handled, TailInvariant
<1>3. CursorFits' /\ GenerationsArePast'
  BY DEF CursorFits, GenerationsArePast, Generation, TailInvariant
<1>4. RunFits' /\ ViewAgrees'
  BY DEF RunFits, ViewAgrees, TailInvariant, Enqueueing
<1>5. LineIsRecorded'
  BY DEF LineIsRecorded, TailInvariant, LogGrows, NextLine
<1> QED BY <1>2, <1>3, <1>4, <1>5 DEF TailInvariant

LEMMA RecordTail ==
  ASSUME TypeOK, TailInvariant, RecordLine
  PROVE  TailInvariant'
<1>1. /\ pc = "read" /\ pc' = "recorded"
      /\ UNCHANGED <<inode, lines, cut, cursor, generation, position, view>>
  BY DEF RecordLine, HasLine, file
<1>2. LogGrows
  BY IngestTyped DEF Ingest
<1>3. ASSUME NEW l, Handled(l) PROVE Handled(l)'
  BY <1>2, <1>3 DEF Handled, LogGrows, Accounted
<1>4. Passed(cursor.generation, cursor.taken)' /\ Passed(generation, position)'
  BY <1>1, <1>3 DEF Passed, Generation, Handled, TailInvariant
<1>5. CursorFits' /\ GenerationsArePast'
  BY <1>1 DEF CursorFits, GenerationsArePast, Generation, TailInvariant
<1>6. RunFits' /\ ViewAgrees'
  BY <1>1 DEF RunFits, ViewAgrees, TailInvariant
<1>7. LineIsRecorded'
  BY <1>1, RecordTyped DEF LineIsRecorded, RecordLine, NextLine, TypeOK, outbox
<1> QED BY <1>4, <1>5, <1>6, <1>7 DEF TailInvariant

(* The cursor takes the place of the run, which ends.                      *)
LEMMA SaveTail ==
  ASSUME TypeOK, TailInvariant, Save
  PROVE  TailInvariant'
<1>1. /\ pc = "read" /\ pc' = "idle" /\ generation' = None /\ generation # None
      /\ cursor'.generation = generation /\ cursor'.taken = position
      /\ cut' = "no" => cut \in {"no", "seen"}
      /\ UNCHANGED <<inode, lines, events, queued, held, legacy, foreign>>
  BY DEF Save, SetCursor, Rest, log, outbox, TypeOK, TailOK
<1>2. None # Generation
  BY GenerationTyped, TailAssumption DEF TypeOK
<1>3. Passed(cursor.generation, cursor.taken)'
  BY <1>1 DEF Passed, Generation, Handled, Recorded, Accounted, TailInvariant
<1>4. Passed(generation, position)'
  BY <1>1, <1>2 DEF Passed, Generation
<1>5. CursorFits'
  <2>1. cut' = "no" /\ generation.inode = inode =>
          generation.first \in {None, First(lines)} /\ position <= Len(lines)
    BY <1>1 DEF RunFits, TailInvariant
  <2> QED BY <1>1, <2>1 DEF CursorFits, Generation
<1>6. RunFits' /\ ViewAgrees' /\ LineIsRecorded'
  BY <1>1 DEF RunFits, ViewAgrees, LineIsRecorded, Enqueueing
<1>7. GenerationsArePast'
  BY <1>1 DEF GenerationsArePast, TailInvariant
<1> QED BY <1>3, <1>4, <1>5, <1>6, <1>7 DEF TailInvariant

(* The exception leaves the run where a crash would.                       *)
LEMMA AbandonTail ==
  ASSUME TypeOK, TailInvariant, Abandon, UNCHANGED <<inode, lines, cursor, log, outbox>>
  PROVE  TailInvariant'
<1>1. /\ pc' = "idle" /\ generation' = None
      /\ cut' = "no" => cut = "no"
      /\ UNCHANGED <<inode, lines, cursor, events, queued, held, legacy, foreign>>
  BY DEF Abandon, Rest, log, outbox
<1>2. None # Generation
  BY GenerationTyped, TailAssumption DEF TypeOK
<1>3. Passed(cursor.generation, cursor.taken)' /\ Passed(generation, position)'
  BY <1>1, <1>2 DEF Passed, Generation, Handled, Recorded, TailInvariant
<1>4. CursorFits' /\ RunFits' /\ ViewAgrees' /\ LineIsRecorded'
  BY <1>1 DEF CursorFits, RunFits, ViewAgrees, LineIsRecorded, Generation, TailInvariant,
     Enqueueing
<1>5. GenerationsArePast'
  BY <1>1 DEF GenerationsArePast, TailInvariant
<1> QED BY <1>3, <1>4, <1>5 DEF TailInvariant

(* A statement of enqueue: the last one accounts for the line.             *)
LEMMA EnqueueTail ==
  ASSUME TypeOK, TailInvariant, Look \/ ReadRoute \/ HoldLine \/ ReadBlock \/ QueueLine
  PROVE  TailInvariant'
<1>1. /\ pc \in Enqueueing
      /\ UNCHANGED <<inode, lines, cut, cursor, generation, view>>
      /\ Pass \/ (pc' \in Enqueueing /\ UNCHANGED position)
  BY DEF Look, ReadRoute, HoldLine, ReadBlock, QueueLine, Enqueueing, file
<1>2. LogGrows
  BY EnqueueTyped
<1>3. CASE Pass
  <2>1. NextLine \in Recorded' \ foreign' /\ position < Len(view)
    BY <1>1, <1>2 DEF TailInvariant, LineIsRecorded, LogGrows, TypeOK, TailOK
  <2>2. \A l : l = NextLine => Handled(l)'
    BY <1>3, <2>1, EnqueueTyped DEF Handled, Accounted
  <2> QED BY <1>1, <1>2, <1>3, <2>1, <2>2, PassTail DEF Pass
<1>4. CASE pc' \in Enqueueing /\ UNCHANGED position
  BY <1>1, <1>2, <1>4, StayTail
<1> QED BY <1>1, <1>3, <1>4

LEMMA NextTail ==
  ASSUME SlowRegrowth, TypeOK, TailInvariant, [Next]_vars
  PROVE  TailInvariant'
<1>1. CASE Ignore
  <2>1. LogGrows
    BY <1>1, IngestTyped DEF Ingest
  <2>2. \A l : l = NextLine => Handled(l)'
    BY <1>1, TailAssumption DEF Ignore, Handled, NextLine
  <2> QED BY <1>1, <2>1, <2>2, PassTail DEF Ignore, HasLine, file
<1>2. CASE Conflict \/ CrashTail
  BY <1>2, AbandonTail DEF Conflict, CrashTail
<1>3. CASE Others /\ UNCHANGED tailVars
  BY <1>3, OthersTyped, LogTail DEF tailVars, file, tail, TypeOK
<1>4. CASE UNCHANGED vars
  BY <1>4, Unlogged, LogTail DEF vars, tailVars, file, tail
<1> QED BY <1>1, <1>2, <1>3, <1>4, AppendTail, RotateTail, TruncateTail, StatTail, OpenTail,
           RecordTail, EnqueueTail, SaveTail DEF Next, Ingest

(* Wherever the tail crashes, and however its file is appended to, rotated
   or cut, as long as a file cut in place does not regrow before a run has
   seen it and ended.                                                      *)
THEOREM CursorIsSafe ==
  ASSUME SlowRegrowth
  PROVE  Spec => []CursorPassesNothing
<1>1. Init => TypeOK /\ TailInvariant
  BY InitTyped, InitTail
<1>2. TypeOK /\ TailInvariant /\ [Next]_vars => (TypeOK /\ TailInvariant)'
  BY NextTyped, NextTail
<1>3. TailInvariant => CursorPassesNothing
  BY DEF TailInvariant, Passed, CursorPassesNothing
<1> QED BY <1>1, <1>2, <1>3, PTL DEF Spec
=============================================================================
