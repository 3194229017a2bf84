--------------------------- MODULE ConsumersSafety ---------------------------
(***************************************************************************)
(* Proofs about Consumers, for any events, scopes, days, claims, batch     *)
(* limit, and any number of overlapping and crashing runs.                 *)
(***************************************************************************)
EXTENDS Consumers, FiniteSetTheorems, TLAPS

USE DEF Recorded

LEMMA InitTyped == Init => TypeOK
<1> SUFFICES ASSUME Init PROVE TypeOK
  OBVIOUS
<1> USE ConsumersAssumption
<1>1. LogTypeOK
  <2>1. events \in Seq(Event) /\ Len(events) = 0
    BY DEF Init, LogInit
  <2> QED BY <2>1 DEF LogTypeOK
<1>2. NotesOK
  <2>1. note \in [Scope -> [Day -> SUBSET (1..Len(events))]]
    <3>1. [d \in Day |-> {}] \in [Day -> SUBSET (1..Len(events))]
      OBVIOUS
    <3> QED BY <3>1 DEF Init
  <2> QED BY <2>1 DEF Init, NotesOK
<1>3. ProjectorsOK
  <2>1. Len(ScopeOrder) \in Nat
    OBVIOUS
  <2> QED BY <2>1 DEF Init, ProjectorsOK
<1>4. ClaimsOK
  BY DEF Init, ClaimsOK
<1>5. projectorCrashes \in 0..MaxProjectorCrashes
  BY DEF Init
<1>6. overlapped \in BOOLEAN
  BY DEF Init
<1> QED BY <1>1, <1>2, <1>3, <1>4, <1>5, <1>6 DEF TypeOK

LEMMA StopTyped ==
  ASSUME TypeOK, NEW p \in Projector, Stop(p), UNCHANGED events
  PROVE  ProjectorsOK'
<1>1. Len(ScopeOrder) \in Nat
  BY ConsumersAssumption
<1> QED BY <1>1 DEF TypeOK, ProjectorsOK, Stop

LEMMA ProjectTyped ==
  ASSUME TypeOK, NEW p \in Projector, Project(p) \/ CrashProjector(p)
  PROVE  TypeOK'
<1> USE ConsumersAssumption DEF TypeOK
<1>0. Len(ScopeOrder) \in Nat
  OBVIOUS
<1>1. CASE Begin(p)
  <2>1. ProjectorsOK'
    BY <1>0, <1>1 DEF Begin, ProjectorsOK, log
  <2>2. overlapped' \in BOOLEAN
    BY <1>1 DEF Begin
  <2> QED BY <1>1, <2>1, <2>2 DEF Begin, notes, claims, log, NotesOK, ClaimsOK, LogTypeOK
<1>2. CASE Skip(p)
  <2>1. ProjectorsOK'
    BY <1>0, <1>2 DEF Skip, Working, ProjectorsOK, log
  <2> QED BY <1>2, <2>1 DEF Skip, notes, claims, history, log, NotesOK, ClaimsOK, LogTypeOK
<1>3. CASE Take(p)
  <2>1. ProjectorsOK'
    <3>1. NextRows(At(p)) \in SUBSET (1..Len(events))
      BY DEF NextRows, Pending, EventsOf
    <3>2. lastSeq[At(p)] \in Nat
      <4>1. turn[p] \in 1..Len(ScopeOrder)
        BY <1>0, <1>3 DEF Take, Working, ProjectorsOK
      <4> QED BY <4>1 DEF At, NotesOK
    <3>3. \A n \in 1..Len(events) : DayAt(n) \in Day
      BY DEF DayAt, LogTypeOK
    <3>4. {DayAt(n) : n \in NextRows(At(p))} \in SUBSET Day
      BY <3>1, <3>3
    <3>5. turn[p] <= Len(ScopeOrder)
      BY <1>3 DEF Take, Working
    <3> HIDE DEF NextRows, DayAt
    <3> QED BY <1>0, <1>3, <3>1, <3>2, <3>4, <3>5 DEF Take, ProjectorsOK, log
  <2> QED BY <1>3, <2>1 DEF Take, notes, claims, history, log, NotesOK, ClaimsOK, LogTypeOK
<1>4. CASE Refuse(p)
  BY <1>4, StopTyped DEF Refuse, notes, claims, history, log, NotesOK, ClaimsOK, LogTypeOK
<1>5. CASE WriteDay(p)
  <2> PICK d \in days[p] :
        /\ note' = [note EXCEPT ![At(p)][d] = Content(p, d)]
        /\ days' = [days EXCEPT ![p] = @ \ {d}]
    BY <1>5 DEF WriteDay
  <2>1. ProjectorsOK'
    BY <1>5 DEF WriteDay, ProjectorsOK, log
  <2>2. Content(p, d) \in SUBSET (1..Len(events))
    BY <1>5 DEF Content, OfDay, NotesOK, ProjectorsOK, EventsOf
  <2>3. NotesOK'
    BY <1>5, <2>2 DEF WriteDay, NotesOK, log
  <2> QED BY <1>5, <2>1, <2>3 DEF WriteDay, claims, history, log, ClaimsOK, LogTypeOK
<1>6. CASE Commit(p)
  <2>1. NotesOK'
    <3>1. PICK n \in 1..Len(events) : lastSeq' = [lastSeq EXCEPT ![At(p)] = n]
      BY <1>6 DEF Commit
    <3>2. lastSeq' \in [Scope -> Nat]
      <4>1. Len(events) \in Nat
        BY DEF LogTypeOK
      <4>2. n \in Nat
        BY <4>1
      <4> QED BY <3>1, <4>2 DEF NotesOK
    <3>3. projected' \subseteq 1..Len(events')
      BY <1>6 DEF Commit, NotesOK, ProjectorsOK, log
    <3> QED BY <1>6, <3>2, <3>3 DEF Commit, NotesOK, log
  <2>2. ProjectorsOK'
    BY <1>0, <1>6 DEF Commit, ProjectorsOK, log
  <2> QED BY <1>6, <2>1, <2>2 DEF Commit, claims, history, log, ClaimsOK, LogTypeOK
<1>7. CASE Conflict(p)
  BY <1>7, StopTyped DEF Conflict, notes, claims, history, log, NotesOK, ClaimsOK, LogTypeOK
<1>8. CASE Finish(p)
  BY <1>8, StopTyped DEF Finish, notes, claims, history, log, NotesOK, ClaimsOK, LogTypeOK
<1>9. CASE CrashProjector(p)
  BY <1>9, StopTyped DEF CrashProjector, notes, claims, log, NotesOK, ClaimsOK, LogTypeOK
<1> QED BY <1>1, <1>2, <1>3, <1>4, <1>5, <1>6, <1>7, <1>8, <1>9 DEF Project

(* The log only grows.                                                     *)
LEMMA CaptureAppends ==
  ASSUME LogTypeOK, NEW e \in Event, Capture(e)
  PROVE  /\ LogTypeOK'
         /\ Len(events) \in Nat /\ Len(events') = Len(events) + 1
         /\ \A n \in 1..Len(events) : events'[n] = events[n]
<1>1. events \in Seq(Event) /\ events' = Append(events, e)
  BY DEF LogTypeOK, Capture, Record
<1>2. /\ events' \in Seq(Event)
      /\ Len(events) \in Nat /\ Len(events') = Len(events) + 1
      /\ \A n \in 1..Len(events) : events'[n] = events[n]
      /\ events'[Len(events) + 1] = e
  BY <1>1
<1>3. ASSUME NEW m \in 1..Len(events'), NEW n \in 1..Len(events'), events'[m] = events'[n]
      PROVE  m = n
  <2>1. \A k \in 1..Len(events) : events[k] # e
    BY DEF Capture
  <2> QED BY <1>2, <1>3, <2>1 DEF LogTypeOK
<1> QED BY <1>2, <1>3 DEF LogTypeOK

LEMMA CaptureTyped ==
  ASSUME TypeOK, NEW e \in Event, Capture(e), UNCHANGED consumerVars
  PROVE  TypeOK'
<1> USE DEF TypeOK, consumerVars
<1>1. /\ LogTypeOK'
      /\ 1..Len(events) \subseteq 1..Len(events')
  <2>1. Len(events) \in Nat /\ Len(events') = Len(events) + 1
    BY CaptureAppends
  <2> QED BY <2>1, CaptureAppends
<1> DEFINE A == 1..Len(events)
           B == 1..Len(events')
<1>2. NotesOK'
  <2>1. note \in [Scope -> [Day -> SUBSET A]]
    BY DEF NotesOK
  <2>2. note \in [Scope -> [Day -> SUBSET B]]
    <3>1. A \subseteq B
      BY <1>1
    <3> HIDE DEF A, B
    <3> QED BY <2>1, <3>1
  <2>3. note' \in [Scope -> [Day -> SUBSET B]]
    BY <2>2 DEF notes
  <2> QED BY <1>1, <2>3 DEF NotesOK, notes
<1>3. ProjectorsOK'
  <2>1. batch' \in [Projector -> SUBSET B]
    <3>1. batch \in [Projector -> SUBSET A] /\ A \subseteq B
      BY <1>1 DEF ProjectorsOK
    <3>2. batch' = batch
      BY DEF projector
    <3> HIDE DEF A, B
    <3> QED BY <3>1, <3>2
  <2> QED BY <2>1 DEF ProjectorsOK, projector
<1> QED BY <1>1, <1>2, <1>3 DEF ClaimsOK, claims, history

LEMMA AddClaimTyped ==
  ASSUME TypeOK, NEW c \in Claim, NEW s \in Scope, NEW some \in SUBSET Event,
         NEW old \in SUBSET Claim, AddClaim(c, s, some, old)
  PROVE  TypeOK'
<1>1. ClaimsOK'
  BY DEF TypeOK, AddClaim, ClaimsOK
<1> QED BY <1>1 DEF TypeOK, AddClaim, notes, projector, history, log, NotesOK, ProjectorsOK, LogTypeOK

LEMMA StutterTyped == TypeOK /\ UNCHANGED vars => TypeOK'
BY DEF TypeOK, vars, consumerVars, notes, projector, history, claims, log, NotesOK, ProjectorsOK,
       ClaimsOK, LogTypeOK

LEMMA NextTyped == TypeOK /\ [Next]_vars => TypeOK'
BY ProjectTyped, CaptureTyped, AddClaimTyped, StutterTyped DEF Next

(* The state stays well typed.                                             *)
THEOREM ConsumersTypeCorrect == Spec => []TypeOK
BY InitTyped, NextTyped, PTL DEF Spec

-----------------------------------------------------------------------------
(* The batch of a run at work is the events of its scope that come next    *)
(* after the cursor it read.                                               *)
IsNext(p) ==
  /\ batch[p] # {}
  /\ \A n \in batch[p] : ScopeOf[events[n]] = At(p) /\ start[p] < n
  /\ \A n \in batch[p] : \A k \in EventsOf(At(p)) : start[p] < k /\ k < n => k \in batch[p]

BatchesAreNext == \A p \in Projector : step[p] = "write" => IsNext(p)

CursorsAreInTheLog == \A s \in Scope : lastSeq[s] <= Len(events)

CursorInvariant == BatchesAreNext /\ CursorsAreInTheLog /\ CursorIsProjected

LEMMA InitCursor == Init => CursorInvariant
<1> SUFFICES ASSUME Init PROVE CursorInvariant
  OBVIOUS
<1>1. events = <<>> /\ Len(events) = 0
  BY DEF Init, LogInit
<1>2. BatchesAreNext
  BY DEF Init, BatchesAreNext
<1>3. CursorsAreInTheLog
  BY <1>1 DEF Init, CursorsAreInTheLog
<1>4. CursorIsProjected
  BY <1>1 DEF CursorIsProjected, EventsOf
<1> QED BY <1>2, <1>3, <1>4 DEF CursorInvariant

(* What a run takes comes next: between two of its events there is no      *)
(* other of the scope.                                                     *)
LEMMA NextRowsAreNext ==
  ASSUME TypeOK, NEW s \in Scope, NEW n \in NextRows(s), NEW k \in EventsOf(s),
         lastSeq[s] < k, k < n
  PROVE  k \in NextRows(s)
<1> DEFINE Before(m) == {j \in Pending(s) : j < m}
<1>1. Pending(s) \subseteq 1..Len(events) /\ Len(events) \in Nat
  BY DEF Pending, EventsOf, TypeOK, LogTypeOK
<1>2. IsFiniteSet(Before(n))
  <2>1. IsFiniteSet(1..Len(events))
    BY <1>1, FS_Interval
  <2> QED BY <1>1, <2>1, FS_Subset
<1>3. Before(k) \subseteq Before(n)
  <2>1. n \in 1..Len(events) /\ k \in 1..Len(events)
    BY <1>1 DEF NextRows, EventsOf
  <2> QED BY <1>1, <2>1
<1>4. Cardinality(Before(k)) <= Cardinality(Before(n))
  BY <1>2, <1>3, FS_Subset
<1>5. Cardinality(Before(k)) \in Nat /\ Cardinality(Before(n)) \in Nat
  BY <1>2, <1>3, FS_Subset, FS_CardinalityType
<1>6. Cardinality(Before(n)) < BatchLimit
  BY DEF NextRows
<1>7. Cardinality(Before(k)) < BatchLimit
  BY <1>4, <1>5, <1>6, ConsumersAssumption
<1>8. k \in Pending(s)
  BY DEF Pending
<1> QED BY <1>7, <1>8 DEF NextRows

(* A step that keeps the batches at work, the log and the cursors.         *)
LEMMA QuietCursor ==
  ASSUME TypeOK, CursorInvariant, UNCHANGED <<events, lastSeq, projected>>,
         \A p \in Projector : step'[p] = "write" =>
           /\ step[p] = "write"
           /\ batch'[p] = batch[p] /\ start'[p] = start[p] /\ turn'[p] = turn[p]
  PROVE  CursorInvariant'
<1>1. BatchesAreNext'
  BY DEF CursorInvariant, BatchesAreNext, IsNext, At, EventsOf
<1>2. CursorsAreInTheLog'
  BY DEF CursorInvariant, CursorsAreInTheLog
<1>3. CursorIsProjected'
  BY DEF CursorInvariant, CursorIsProjected, EventsOf
<1> QED BY <1>1, <1>2, <1>3 DEF CursorInvariant

LEMMA TakeCursor ==
  ASSUME TypeOK, TypeOK', CursorInvariant, NEW p \in Projector, Take(p)
  PROVE  CursorInvariant'
<1>1. At(p) \in Scope /\ At(p)' = At(p)
  <2>1. turn[p] \in 1..Len(ScopeOrder) /\ turn' = turn
    <3>1. Len(ScopeOrder) \in Nat
      BY ConsumersAssumption
    <3> QED BY <3>1 DEF Take, Working, TypeOK, ProjectorsOK
  <2> QED BY <2>1, ConsumersAssumption DEF At
<1>2. /\ batch'[p] = NextRows(At(p)) /\ start'[p] = lastSeq[At(p)]
      /\ NextRows(At(p)) # {}
  BY DEF Take, TypeOK, ProjectorsOK
<1>3. IsNext(p)'
  <2>1. events' = events
    BY DEF Take, log
  <2>2. \A n \in NextRows(At(p)) : ScopeOf[events[n]] = At(p) /\ lastSeq[At(p)] < n
    <3>1. \A n \in NextRows(At(p)) : n \in EventsOf(At(p)) /\ n > lastSeq[At(p)]
      BY DEF NextRows, Pending
    <3>2. lastSeq[At(p)] \in Nat /\ \A n \in EventsOf(At(p)) : n \in Int /\ ScopeOf[events[n]] = At(p)
      BY <1>1 DEF TypeOK, NotesOK, EventsOf
    <3> QED BY <3>1, <3>2
  <2>3. \A n \in NextRows(At(p)) : \A k \in EventsOf(At(p)) :
          lastSeq[At(p)] < k /\ k < n => k \in NextRows(At(p))
    BY <1>1, NextRowsAreNext
  <2> QED BY <1>1, <1>2, <2>1, <2>2, <2>3 DEF IsNext, EventsOf
<1>4. \A q \in Projector : q # p /\ step[q] = "write" => IsNext(q)'
  <2> TAKE q \in Projector
  <2> HAVE q # p /\ step[q] = "write"
  <2>1. IsNext(q)
    BY DEF CursorInvariant, BatchesAreNext
  <2>2. batch'[q] = batch[q] /\ start'[q] = start[q] /\ At(q)' = At(q) /\ events' = events
    BY DEF Take, TypeOK, ProjectorsOK, At, log
  <2> QED BY <2>1, <2>2 DEF IsNext, EventsOf
<1>5. BatchesAreNext'
  <2>1. \A q \in Projector : q # p /\ step'[q] = "write" => step[q] = "write"
    BY DEF Take, TypeOK, ProjectorsOK
  <2> QED BY <1>3, <1>4, <2>1 DEF BatchesAreNext
<1>6. CursorsAreInTheLog' /\ CursorIsProjected'
  BY DEF Take, notes, log, CursorInvariant, CursorsAreInTheLog, CursorIsProjected, EventsOf
<1> QED BY <1>5, <1>6 DEF CursorInvariant

LEMMA CommitCursor ==
  ASSUME TypeOK, TypeOK', CursorInvariant, NEW p \in Projector, Commit(p)
  PROVE  CursorInvariant'
<1>1. At(p) \in Scope
  <2>1. turn[p] \in 1..Len(ScopeOrder)
    <3>1. Len(ScopeOrder) \in Nat
      BY ConsumersAssumption
    <3> QED BY <3>1 DEF Commit, TypeOK, ProjectorsOK
  <2> QED BY <2>1, ConsumersAssumption DEF At
<1>2. PICK n \in 1..Len(events) :
        IsLast(n, batch[p]) /\ lastSeq' = [lastSeq EXCEPT ![At(p)] = n]
  BY DEF Commit
<1>3. /\ lastSeq'[At(p)] = n
      /\ \A s \in Scope \ {At(p)} : lastSeq'[s] = lastSeq[s]
  BY <1>1, <1>2 DEF TypeOK, NotesOK
<1>4. /\ events' = events /\ projected' = projected \cup batch[p]
      /\ start[p] = lastSeq[At(p)] /\ IsNext(p)
  BY DEF Commit, log, CursorInvariant, BatchesAreNext
<1>5. BatchesAreNext'
  <2> SUFFICES ASSUME NEW q \in Projector, step'[q] = "write" PROVE IsNext(q)'
    BY DEF BatchesAreNext
  <2>1. q # p /\ step[q] = "write"
    BY DEF Commit, TypeOK, ProjectorsOK
  <2>2. IsNext(q)
    BY <2>1 DEF CursorInvariant, BatchesAreNext
  <2>3. batch'[q] = batch[q] /\ start'[q] = start[q] /\ At(q)' = At(q)
    BY <2>1 DEF Commit, TypeOK, ProjectorsOK, At
  <2> QED BY <1>4, <2>2, <2>3 DEF IsNext, EventsOf
<1>6. CursorsAreInTheLog'
  <2>1. Len(events) \in Nat
    BY DEF TypeOK, LogTypeOK
  <2> QED BY <1>2, <1>3, <1>4, <2>1 DEF CursorInvariant, CursorsAreInTheLog
<1>7. CursorIsProjected'
  <2> SUFFICES ASSUME NEW s \in Scope, NEW k \in EventsOf(s)
               PROVE  k <= lastSeq'[s] <=> k \in projected \cup batch[p]
    BY <1>4 DEF CursorIsProjected, EventsOf
  <2>1. k <= lastSeq[s] <=> k \in projected
    BY DEF CursorInvariant, CursorIsProjected
  <2>2. CASE s # At(p)
    <3>1. k \notin batch[p]
      BY <1>4, <2>2 DEF IsNext, EventsOf
    <3> QED BY <1>3, <2>1, <2>2, <3>1
  <2>3. CASE s = At(p)
    <3>1. k \in Nat /\ n \in Nat /\ lastSeq[s] \in Nat
      BY DEF EventsOf, TypeOK, NotesOK, LogTypeOK
    <3>2. n \in batch[p] /\ (\A j \in batch[p] : j <= n) /\ lastSeq[s] < n
      BY <1>2, <1>4, <2>3 DEF IsLast, IsNext
    <3>3. lastSeq[s] < k /\ k < n => k \in batch[p]
      BY <1>4, <2>3, <3>2 DEF IsNext
    <3>4. k <= n <=> k \in projected \cup batch[p]
      BY <2>1, <3>1, <3>2, <3>3
    <3> QED BY <1>3, <2>3, <3>4
  <2> QED BY <2>2, <2>3
<1> QED BY <1>5, <1>6, <1>7 DEF CursorInvariant

LEMMA CaptureCursor ==
  ASSUME TypeOK, TypeOK', CursorInvariant, NEW e \in Event, Capture(e), UNCHANGED consumerVars
  PROVE  CursorInvariant'
<1>1. /\ Len(events) \in Nat /\ Len(events') = Len(events) + 1
      /\ \A n \in 1..Len(events) : events'[n] = events[n]
  BY CaptureAppends DEF TypeOK
<1>2. UNCHANGED <<lastSeq, projected, step, turn, start, batch>>
  BY DEF consumerVars, notes, projector
<1>3. BatchesAreNext'
  <2> SUFFICES ASSUME NEW p \in Projector, step[p] = "write" PROVE IsNext(p)'
    BY <1>2 DEF BatchesAreNext
  <2>1. IsNext(p) /\ At(p)' = At(p)
    BY <1>2 DEF CursorInvariant, BatchesAreNext, At
  <2>2. batch[p] \subseteq 1..Len(events)
    BY DEF TypeOK, ProjectorsOK
  <2>3. \A n \in batch[p] : ScopeOf[events'[n]] = At(p) /\ start[p] < n
    BY <1>1, <2>1, <2>2 DEF IsNext
  <2>4. ASSUME NEW n \in batch[p], NEW k \in EventsOf(At(p))', start[p] < k, k < n
        PROVE  k \in batch[p]
    <3>1. k \in 1..Len(events)
      BY <1>1, <2>2, <2>4 DEF EventsOf
    <3>2. k \in EventsOf(At(p))
      BY <1>1, <2>1, <2>4, <3>1 DEF EventsOf
    <3> QED BY <2>1, <2>4, <3>2 DEF IsNext
  <2> QED BY <1>2, <2>1, <2>3, <2>4 DEF IsNext
<1>4. CursorsAreInTheLog'
  BY <1>1, <1>2 DEF CursorInvariant, CursorsAreInTheLog, TypeOK, NotesOK
<1>5. CursorIsProjected'
  <2> SUFFICES ASSUME NEW s \in Scope, NEW n \in EventsOf(s)'
               PROVE  n <= lastSeq[s] <=> n \in projected
    BY <1>2 DEF CursorIsProjected
  <2>1. CASE n \in 1..Len(events)
    BY <1>1, <2>1 DEF EventsOf, CursorInvariant, CursorIsProjected
  <2>2. CASE n = Len(events) + 1
    BY <1>1, <2>2 DEF TypeOK, NotesOK, CursorInvariant, CursorsAreInTheLog
  <2>3. n \in 1..(Len(events) + 1)
    BY <1>1 DEF EventsOf
  <2> QED BY <1>1, <2>1, <2>2, <2>3
<1> QED BY <1>3, <1>4, <1>5 DEF CursorInvariant

LEMMA NextCursor ==
  ASSUME TypeOK, TypeOK', CursorInvariant, [Next]_vars
  PROVE  CursorInvariant'
<1>1. CASE \E p \in Projector : Project(p) \/ CrashProjector(p)
  <2> PICK p \in Projector : Project(p) \/ CrashProjector(p)
    BY <1>1
  <2>1. CASE Begin(p)
    BY <2>1, QuietCursor DEF Begin, notes, log, TypeOK, ProjectorsOK
  <2>2. CASE Skip(p)
    BY <2>2, QuietCursor DEF Skip, Working, notes, log, TypeOK, ProjectorsOK
  <2>3. CASE Take(p)
    BY <2>3, TakeCursor
  <2>4. CASE Refuse(p) \/ Conflict(p) \/ Finish(p) \/ CrashProjector(p)
    <3>1. Stop(p) /\ UNCHANGED <<events, lastSeq, projected>>
      BY <2>4 DEF Refuse, Conflict, Finish, CrashProjector, notes, log
    <3> QED BY <3>1, QuietCursor DEF Stop, TypeOK, ProjectorsOK
  <2>5. CASE WriteDay(p)
    BY <2>5, QuietCursor DEF WriteDay, log
  <2>6. CASE Commit(p)
    BY <2>6, CommitCursor
  <2> QED BY <2>1, <2>2, <2>3, <2>4, <2>5, <2>6 DEF Project
<1>2. CASE \E c \in Claim, s \in Scope, some \in SUBSET Event, old \in SUBSET Claim :
             AddClaim(c, s, some, old)
  BY <1>2, QuietCursor DEF AddClaim, notes, projector, log
<1>3. CASE \E e \in Event : Capture(e) /\ UNCHANGED consumerVars
  BY <1>3, CaptureCursor
<1>4. CASE UNCHANGED vars
  BY <1>4, QuietCursor DEF vars, consumerVars, notes, projector, log
<1> QED BY <1>1, <1>2, <1>3, <1>4 DEF Next

(* The cursor of a scope passes exactly the projected events, whatever runs
   overlap and wherever they crash.                                        *)
THEOREM CursorIsCorrect == Spec => []CursorIsProjected
<1>1. Init => TypeOK /\ CursorInvariant
  BY InitTyped, InitCursor
<1>2. TypeOK /\ CursorInvariant /\ [Next]_vars => (TypeOK /\ CursorInvariant)'
  BY NextTyped, NextCursor
<1>3. CursorInvariant => CursorIsProjected
  BY DEF CursorInvariant
<1> QED BY <1>1, <1>2, <1>3, PTL DEF Spec

-----------------------------------------------------------------------------
(* While no run ever met another: one runs, and what it has taken is in    *)
(* its file or in a file it has yet to write.                              *)
OneAtATime ==
  \A p, q \in Projector : step[p] # "idle" /\ step[q] # "idle" => p = q

BatchIsWritten ==
  \A p \in Projector : step[p] = "write" =>
    \A n \in batch[p] : DayAt(n) \in days[p] \/ n \in note[At(p)][DayAt(n)]

NoteInvariant == ~overlapped =>
  /\ OneAtATime
  /\ BatchIsWritten
  /\ \A n \in projected : n \in note[ScopeOf[events[n]]][DayAt(n)]

LEMMA InitNote == Init => NoteInvariant
BY DEF Init, NoteInvariant, OneAtATime, BatchIsWritten

LEMMA BeginNote ==
  ASSUME TypeOK, NoteInvariant, NEW p \in Projector, Begin(p)
  PROVE  NoteInvariant'
<1> SUFFICES ASSUME ~overlapped'
             PROVE  /\ OneAtATime'
                    /\ BatchIsWritten'
                    /\ \A n \in projected' : (n \in note[ScopeOf[events[n]]][DayAt(n)])'
  BY DEF NoteInvariant
<1>1. ~overlapped /\ \A q \in Projector : step[q] = "idle"
  BY DEF Begin
<1>2. \A q \in Projector : q # p => step'[q] = "idle"
  BY <1>1 DEF Begin, TypeOK, ProjectorsOK
<1>3. step'[p] = "scope"
  BY DEF Begin, TypeOK, ProjectorsOK
<1>4. OneAtATime'
  BY <1>2 DEF OneAtATime
<1>5. BatchIsWritten'
  BY <1>2, <1>3 DEF BatchIsWritten
<1> QED BY <1>1, <1>4, <1>5 DEF NoteInvariant, Begin, notes, log, DayAt

(* A step of a run at work that ends no batch and writes no file.          *)
LEMMA QuietNote ==
  ASSUME TypeOK, NoteInvariant, NEW p \in Projector, step[p] # "idle",
         UNCHANGED <<events, projected, note, overlapped>>,
         \A q \in Projector : q # p => step'[q] = step[q],
         step'[p] = "write" => \A n \in batch'[p] : DayAt(n) \in days'[p]
  PROVE  NoteInvariant'
<1> SUFFICES ASSUME ~overlapped
             PROVE  OneAtATime' /\ BatchIsWritten'
  BY DEF NoteInvariant, DayAt
<1>1. \A q \in Projector : q # p => step[q] = "idle" /\ step'[q] = "idle"
  BY DEF NoteInvariant, OneAtATime
<1>2. OneAtATime'
  BY <1>1 DEF OneAtATime
<1>3. BatchIsWritten'
  BY <1>1 DEF BatchIsWritten, DayAt
<1> QED BY <1>2, <1>3

LEMMA WriteDayNote ==
  ASSUME TypeOK, CursorInvariant, NoteInvariant, NEW p \in Projector, WriteDay(p)
  PROVE  NoteInvariant'
<1> SUFFICES ASSUME ~overlapped PROVE NoteInvariant'
  BY DEF WriteDay, history, NoteInvariant
<1> PICK d \in days[p] : /\ note' = [note EXCEPT ![At(p)][d] = Content(p, d)]
                         /\ days' = [days EXCEPT ![p] = @ \ {d}]
  BY DEF WriteDay
<1>1. /\ UNCHANGED <<events, projected, step, batch, turn, overlapped>>
      /\ At(p)' = At(p) /\ step[p] = "write"
  BY DEF WriteDay, log, history, At
<1>2. At(p) \in Scope /\ d \in Day
  <2>1. turn[p] \in 1..Len(ScopeOrder)
    <3>1. Len(ScopeOrder) \in Nat
      BY ConsumersAssumption
    <3> QED BY <1>1, <3>1 DEF TypeOK, ProjectorsOK
  <2> QED BY <2>1, ConsumersAssumption DEF At, TypeOK, ProjectorsOK
<1>3. \A q \in Projector : q # p => step[q] = "idle"
  BY <1>1 DEF NoteInvariant, OneAtATime
<1>4. /\ note'[At(p)][d] = Content(p, d)
      /\ \A s \in Scope, x \in Day : s # At(p) \/ x # d => note'[s][x] = note[s][x]
  BY <1>2 DEF TypeOK, NotesOK
<1>5. \A n \in 1..Len(events) : ScopeOf[events[n]] \in Scope /\ DayAt(n) \in Day
  BY ConsumersAssumption DEF DayAt, TypeOK, LogTypeOK
<1>6. BatchIsWritten'
  <2> SUFFICES ASSUME NEW n \in batch[p]
               PROVE  DayAt(n) \in days'[p] \/ n \in note'[At(p)][DayAt(n)]
    BY <1>1, <1>3 DEF BatchIsWritten, DayAt
  <2>1. n \in 1..Len(events)
    BY DEF TypeOK, ProjectorsOK
  <2>2. CASE DayAt(n) = d
    BY <1>4, <2>2 DEF Content, OfDay
  <2>3. CASE DayAt(n) # d
    <3>1. DayAt(n) \in days[p] \/ n \in note[At(p)][DayAt(n)]
      BY <1>1 DEF NoteInvariant, BatchIsWritten
    <3> QED BY <1>2, <1>4, <1>5, <2>1, <2>3, <3>1 DEF TypeOK, ProjectorsOK
  <2> QED BY <2>2, <2>3
<1>7. ASSUME NEW n \in projected PROVE n \in note'[ScopeOf[events[n]]][DayAt(n)]
  <2>1. n \in 1..Len(events) /\ n \in note[ScopeOf[events[n]]][DayAt(n)]
    BY DEF NoteInvariant, TypeOK, NotesOK
  <2>2. CASE ScopeOf[events[n]] = At(p) /\ DayAt(n) = d
    BY <1>4, <2>1, <2>2 DEF Content, OfDay, EventsOf
  <2> QED BY <1>4, <1>5, <2>1, <2>2
<1> QED BY <1>1, <1>6, <1>7 DEF NoteInvariant, OneAtATime, DayAt

LEMMA CommitNote ==
  ASSUME TypeOK, CursorInvariant, NoteInvariant, NEW p \in Projector, Commit(p)
  PROVE  NoteInvariant'
<1> SUFFICES ASSUME ~overlapped PROVE NoteInvariant'
  BY DEF Commit, history, NoteInvariant
<1>1. /\ UNCHANGED <<events, note, overlapped>> /\ projected' = projected \cup batch[p]
      /\ step[p] = "write" /\ days[p] = {} /\ step'[p] = "scope"
      /\ \A q \in Projector : q # p => step'[q] = step[q]
  BY DEF Commit, log, history, TypeOK, ProjectorsOK
<1>2. \A q \in Projector : q # p => step[q] = "idle"
  BY <1>1 DEF NoteInvariant, OneAtATime
<1>3. ASSUME NEW n \in projected' PROVE n \in note[ScopeOf[events[n]]][DayAt(n)]
  <2>1. CASE n \in projected
    BY <2>1 DEF NoteInvariant
  <2>2. CASE n \in batch[p]
    <3>1. n \in note[At(p)][DayAt(n)]
      BY <1>1, <2>2 DEF NoteInvariant, BatchIsWritten
    <3>2. ScopeOf[events[n]] = At(p)
      BY <1>1, <2>2 DEF CursorInvariant, BatchesAreNext, IsNext
    <3> QED BY <3>1, <3>2
  <2> QED BY <1>1, <1>3, <2>1, <2>2
<1>4. OneAtATime' /\ BatchIsWritten'
  BY <1>1, <1>2 DEF OneAtATime, BatchIsWritten
<1> QED BY <1>1, <1>3, <1>4 DEF NoteInvariant, DayAt

(* A step of no run, which may record an event.                            *)
LEMMA LogNote ==
  ASSUME TypeOK, NoteInvariant, UNCHANGED <<notes, projector, overlapped>>,
         \A n \in 1..Len(events) : events'[n] = events[n]
  PROVE  NoteInvariant'
<1>1. UNCHANGED <<step, turn, batch, days, projected, note>>
  BY DEF notes, projector
<1>2. \A n \in projected : n \in 1..Len(events)
  BY DEF TypeOK, NotesOK
<1>3. \A p \in Projector : \A n \in batch[p] : n \in 1..Len(events)
  BY DEF TypeOK, ProjectorsOK
<1>4. OneAtATime => OneAtATime'
  BY <1>1 DEF OneAtATime
<1>5. BatchIsWritten => BatchIsWritten'
  BY <1>1, <1>3 DEF BatchIsWritten, DayAt, At
<1> QED BY <1>1, <1>2, <1>4, <1>5 DEF NoteInvariant, DayAt

LEMMA NextNote ==
  ASSUME TypeOK, TypeOK', CursorInvariant, NoteInvariant, [Next]_vars
  PROVE  NoteInvariant'
<1>1. CASE \E p \in Projector : Project(p) \/ CrashProjector(p)
  <2> PICK p \in Projector : Project(p) \/ CrashProjector(p)
    BY <1>1
  <2>1. CASE Begin(p)
    BY <2>1, BeginNote
  <2>2. CASE Skip(p)
    BY <2>2, QuietNote DEF Skip, Working, notes, history, log
  <2>3. CASE Take(p)
    <3>1. \A n \in batch'[p] : DayAt(n) \in days'[p]
      BY <2>3 DEF Take, TypeOK, ProjectorsOK
    <3>2. \A q \in Projector : q # p => step'[q] = step[q]
      BY <2>3 DEF Take, TypeOK, ProjectorsOK
    <3> QED BY <2>3, <3>1, <3>2, QuietNote DEF Take, Working, notes, history, log
  <2>4. CASE Refuse(p) \/ Conflict(p) \/ Finish(p) \/ CrashProjector(p)
    <3>1. /\ Stop(p) /\ step[p] # "idle"
          /\ UNCHANGED <<events, projected, note, overlapped>>
      BY <2>4 DEF Refuse, Working, Conflict, Finish, CrashProjector, notes, history, log
    <3>2. step'[p] = "idle" /\ \A q \in Projector : q # p => step'[q] = step[q]
      BY <3>1 DEF Stop, TypeOK, ProjectorsOK
    <3> QED BY <3>1, <3>2, QuietNote
  <2>5. CASE WriteDay(p)
    BY <2>5, WriteDayNote
  <2>6. CASE Commit(p)
    BY <2>6, CommitNote
  <2> QED BY <2>1, <2>2, <2>3, <2>4, <2>5, <2>6 DEF Project
<1>2. CASE \E c \in Claim, s \in Scope, some \in SUBSET Event, old \in SUBSET Claim :
             AddClaim(c, s, some, old)
  BY <1>2, LogNote DEF AddClaim, history, log
<1>3. CASE \E e \in Event : Capture(e) /\ UNCHANGED consumerVars
  <2>1. UNCHANGED <<notes, projector, overlapped>>
    BY <1>3 DEF consumerVars, history
  <2>2. \A n \in 1..Len(events) : events'[n] = events[n]
    BY <1>3, CaptureAppends DEF TypeOK
  <2> QED BY <2>1, <2>2, LogNote
<1>4. CASE UNCHANGED vars
  BY <1>4, LogNote DEF vars, consumerVars, history, log
<1> QED BY <1>1, <1>2, <1>3, <1>4 DEF Next

(* A projected event is in its note, wherever runs crash, as long as no two
   of them are at work at once.                                            *)
THEOREM NotesAreComplete == Spec => []NoteHasProjected
<1>1. Init => TypeOK /\ CursorInvariant /\ NoteInvariant
  BY InitTyped, InitCursor, InitNote
<1>2. TypeOK /\ CursorInvariant /\ NoteInvariant /\ [Next]_vars
        => (TypeOK /\ CursorInvariant /\ NoteInvariant)'
  BY NextTyped, NextCursor, NextNote
<1>3. NoteInvariant => NoteHasProjected
  BY DEF NoteInvariant, NoteHasProjected
<1> QED BY <1>1, <1>2, <1>3, PTL DEF Spec

-----------------------------------------------------------------------------
OnlyClaimsAreReplaced == \A c \in Claim \ Claims : supersededBy[c] = None

LEMMA InitClaims == Init => ScopeNeverLoosens /\ OnlyClaimsAreReplaced
BY DEF Init, ScopeNeverLoosens, OnlyClaimsAreReplaced, Claims

LEMMA AddClaimKeepsScopes ==
  ASSUME TypeOK, ScopeNeverLoosens, OnlyClaimsAreReplaced,
         NEW c \in Claim, NEW s \in Scope, NEW some \in SUBSET Event, NEW old \in SUBSET Claim,
         AddClaim(c, s, some, old)
  PROVE  ScopeNeverLoosens' /\ OnlyClaimsAreReplaced'
<1>1. /\ c \notin Claims /\ old \subseteq Claims /\ s # None /\ c # None
      /\ claimScope'[c] = s /\ evidence'[c] = some
      /\ \A x \in Claim : x # c => claimScope'[x] = claimScope[x] /\ evidence'[x] = evidence[x]
      /\ \A x \in Claim : supersededBy'[x] = IF x \in old THEN c ELSE supersededBy[x]
  BY ConsumersAssumption DEF AddClaim, TypeOK, ClaimsOK
<1>2. Claims' = Claims \cup {c}
  BY <1>1 DEF Claims
<1>3. OnlyClaimsAreReplaced'
  BY <1>1, <1>2 DEF OnlyClaimsAreReplaced, Claims
<1>4. ASSUME NEW x \in Claims'
      PROVE  /\ \A e \in evidence'[x] : Rank[ScopeOf[e]] <= Rank[claimScope'[x]]
             /\ supersededBy'[x] # None =>
                  /\ supersededBy'[x] \in Claims'
                  /\ Rank[claimScope'[x]] <= Rank[claimScope'[supersededBy'[x]]]
  <2>1. CASE x = c
    BY <1>1, <1>2, <2>1 DEF AddClaim, Basis, OnlyClaimsAreReplaced, Claims
  <2>2. CASE x # c /\ x \in old
    BY <1>1, <1>2, <2>2 DEF AddClaim, Basis, ScopeNeverLoosens, Claims
  <2>3. CASE x # c /\ x \notin old
    <3>1. x \in Claims /\ supersededBy'[x] = supersededBy[x] /\ x \in Claim
      BY <1>1, <1>2, <2>3 DEF Claims
    <3>2. \A e \in evidence'[x] : Rank[ScopeOf[e]] <= Rank[claimScope'[x]]
      BY <1>1, <2>3, <3>1 DEF ScopeNeverLoosens
    <3>3. supersededBy[x] # None =>
            /\ supersededBy[x] \in Claims /\ supersededBy[x] # c /\ supersededBy[x] \in Claim
            /\ Rank[claimScope[x]] <= Rank[claimScope[supersededBy[x]]]
      BY <1>1, <3>1 DEF ScopeNeverLoosens, Claims
    <3> QED BY <1>1, <1>2, <2>3, <3>1, <3>2, <3>3
  <2> QED BY <2>1, <2>2, <2>3
<1> QED BY <1>3, <1>4 DEF ScopeNeverLoosens

(* Over any chain of claims that replace each other, the scope only becomes
   stricter, and it covers the evidence of each.                           *)
THEOREM ClaimsStayRestricted == Spec => []ScopeNeverLoosens
<1> DEFINE Inv == TypeOK /\ ScopeNeverLoosens /\ OnlyClaimsAreReplaced
<1>1. Init => Inv
  BY InitTyped, InitClaims
<1>2. Inv /\ [Next]_vars => Inv'
  <2> SUFFICES ASSUME Inv, [Next]_vars PROVE Inv'
    OBVIOUS
  <2>1. TypeOK'
    BY NextTyped
  <2>2. CASE \E c \in Claim, s \in Scope, some \in SUBSET Event, old \in SUBSET Claim :
               AddClaim(c, s, some, old)
    BY <2>1, <2>2, AddClaimKeepsScopes
  <2>3. CASE UNCHANGED claims
    BY <2>1, <2>3 DEF claims, ScopeNeverLoosens, OnlyClaimsAreReplaced, Claims
  <2>4. ASSUME NEW p \in Projector, Project(p) \/ CrashProjector(p)
        PROVE  UNCHANGED claims
    BY <2>4 DEF Project, Begin, Skip, Take, Refuse, WriteDay, Commit, Conflict, Finish,
                CrashProjector
  <2>5. ASSUME NEW e \in Event, Capture(e) /\ UNCHANGED consumerVars
        PROVE  UNCHANGED claims
    BY <2>5 DEF consumerVars
  <2>6. ASSUME UNCHANGED vars PROVE UNCHANGED claims
    BY <2>6 DEF vars, consumerVars
  <2> QED BY <2>2, <2>3, <2>4, <2>5, <2>6 DEF Next
<1> QED BY <1>1, <1>2, PTL DEF Spec
=============================================================================
