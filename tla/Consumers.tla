------------------------------ MODULE Consumers ------------------------------
(***************************************************************************)
(* The optional projections of consumers.py over the event log: the daily  *)
(* notes, one file per scope and day with a durable cursor per scope, and  *)
(* the claims, immutable statements backed by events.                      *)
(*                                                                         *)
(* An event is named by its event_seq, its position in the log: each run   *)
(* numbers what is new in rowid order before it reads (_index_new_events). *)
(***************************************************************************)
EXTENDS EventLog

CONSTANTS
  Scope, Rank,        \* _PRIVACY_RANK: the stricter, the higher
  ScopeOf,            \* event -> privacy_scope of its row
  Day, DayOf,         \* event -> day of occurred_at
  Undated,            \* events whose occurred_at names no day
  ScopeOrder,         \* the allowed scopes of a run, by rank
  BatchLimit,         \* events of a scope that one run takes
  Projector,          \* processes that run the daily notes of one consumer id
  Claim,
  MaxEvidence, MaxProjectorCrashes \* bounds

ASSUME ConsumersAssumption ==
  /\ Rank \in [Scope -> Nat] /\ ScopeOf \in [Event -> Scope]
  /\ DayOf \in [Event -> Day] /\ Undated \subseteq Event
  /\ ScopeOrder \in Seq(Scope)
  /\ BatchLimit \in Nat \ {0} /\ {MaxEvidence, MaxProjectorCrashes} \subseteq Nat
  /\ None \notin Scope \cup Claim

VARIABLES
  lastSeq,      \* mirror_consumer_cursors.last_event_seq of each scope
  projected,    \* mirror_daily_note_events
  note,         \* scope -> day -> the events in the file
  step, turn, start, batch, days,     \* the projectors
  projectorCrashes,
  overlapped,   \* two runs were ever at work at once
  claimScope,   \* claim -> its scope, None while it does not exist
  evidence,     \* claim -> events
  supersededBy  \* mirror_claim_supersessions, old claim -> new claim

notes     == <<lastSeq, projected, note>>
projector == <<step, turn, start, batch, days>>
history   == <<projectorCrashes, overlapped>>
claims    == <<claimScope, evidence, supersededBy>>
consumerVars == <<notes, projector, history, claims>>

Init ==
  /\ LogInit
  /\ lastSeq = [s \in Scope |-> 0]
  /\ projected = {}
  /\ note = [s \in Scope |-> [d \in Day |-> {}]]
  /\ step = [p \in Projector |-> "idle"]
  /\ turn = [p \in Projector |-> 1]
  /\ start = [p \in Projector |-> 0]
  /\ batch = [p \in Projector |-> {}]
  /\ days = [p \in Projector |-> {}]
  /\ projectorCrashes = 0 /\ overlapped = FALSE
  /\ claimScope = [c \in Claim |-> None]
  /\ evidence = [c \in Claim |-> {}]
  /\ supersededBy = [c \in Claim |-> None]

-----------------------------------------------------------------------------
(* A producer commits an event.                                            *)
Capture(e) == e \notin Recorded /\ Record(e)

-----------------------------------------------------------------------------
(* project_daily_notes: the scopes of a run in the order of their rank.    *)

EventsOf(s) == {n \in 1..Len(events) : ScopeOf[events[n]] = s}
DayAt(n) == DayOf[events[n]]
At(p) == ScopeOrder[turn[p]]
Working(p) == step[p] = "scope" /\ turn[p] <= Len(ScopeOrder)

Pending(s) == {n \in EventsOf(s) : n > lastSeq[s]}
NextRows(s) == {n \in Pending(s) : Cardinality({k \in Pending(s) : k < n}) < BatchLimit}

Begin(p) ==
  /\ step[p] = "idle"
  /\ step' = [step EXCEPT ![p] = "scope"]
  /\ turn' = [turn EXCEPT ![p] = 1]
  /\ overlapped' = (overlapped \/ \E q \in Projector : step[q] # "idle")
  /\ UNCHANGED <<notes, start, batch, days, projectorCrashes, claims, log>>

(* faulty Stop: the next run begins where this one ended.                  *)
StopInPlace(p) ==
  /\ step' = [step EXCEPT ![p] = "idle"]
  /\ UNCHANGED <<turn, start, batch, days>>

Stop(p) ==
  /\ step' = [step EXCEPT ![p] = "idle"]
  /\ turn' = [turn EXCEPT ![p] = 1]
  /\ start' = [start EXCEPT ![p] = 0]
  /\ batch' = [batch EXCEPT ![p] = {}]
  /\ days' = [days EXCEPT ![p] = {}]

Skip(p) ==
  /\ Working(p)
  /\ NextRows(At(p)) = {}
  /\ turn' = [turn EXCEPT ![p] = @ + 1]
  /\ UNCHANGED <<notes, step, start, batch, days, history, claims, log>>

Take(p) ==
  /\ Working(p)
  /\ NextRows(At(p)) # {}
  /\ \A n \in NextRows(At(p)) : events[n] \notin Undated
  /\ start' = [start EXCEPT ![p] = lastSeq[At(p)]]
  /\ batch' = [batch EXCEPT ![p] = NextRows(At(p))]
  /\ days' = [days EXCEPT ![p] = {DayAt(n) : n \in NextRows(At(p))}]
  /\ step' = [step EXCEPT ![p] = "write"]
  /\ UNCHANGED <<notes, turn, history, claims, log>>

(* An event without a day aborts the run, before it writes for its scope.  *)
Refuse(p) ==
  /\ Working(p)
  /\ \E n \in NextRows(At(p)) : events[n] \in Undated
  /\ Stop(p)
  /\ UNCHANGED <<notes, history, claims, log>>

OfDay(set, d) == {n \in set : DayAt(n) = d}
(* faulty Content: the file of the day is begun anew with each batch.      *)
BatchOnly(p, d) == OfDay(batch[p], d)

Content(p, d) == OfDay((projected \cap EventsOf(At(p))) \cup batch[p], d)

WriteDay(p) ==
  /\ step[p] = "write"
  /\ \E d \in days[p] :
       /\ note' = [note EXCEPT ![At(p)][d] = Content(p, d)]
       /\ days' = [days EXCEPT ![p] = @ \ {d}]
  /\ UNCHANGED <<lastSeq, projected, step, turn, start, batch, history, claims, log>>

(* faulty IsLast: the cursor moves to the end of the log.                  *)
IsEnd(n, set) == n = Len(events)

IsLast(n, set) == n \in set /\ \A k \in set : k <= n

(* faulty Commit: the cursor is moved wherever it is.                      *)
CommitBlindly(p) ==
  /\ step[p] = "write" /\ days[p] = {}
  /\ projected' = projected \cup batch[p]
  /\ \E n \in 1..Len(events) :
       IsLast(n, batch[p]) /\ lastSeq' = [lastSeq EXCEPT ![At(p)] = n]
  /\ step' = [step EXCEPT ![p] = "scope"]
  /\ turn' = [turn EXCEPT ![p] = @ + 1]
  /\ batch' = [batch EXCEPT ![p] = {}]
  /\ start' = [start EXCEPT ![p] = 0]
  /\ UNCHANGED <<note, days, history, claims, log>>

(* The rows and the cursor of the scope in one transaction, unless another
   run has moved the cursor.                                               *)
Commit(p) ==
  /\ step[p] = "write" /\ days[p] = {}
  /\ lastSeq[At(p)] = start[p]
  /\ projected' = projected \cup batch[p]
  /\ \E n \in 1..Len(events) :
       IsLast(n, batch[p]) /\ lastSeq' = [lastSeq EXCEPT ![At(p)] = n]
  /\ step' = [step EXCEPT ![p] = "scope"]
  /\ turn' = [turn EXCEPT ![p] = @ + 1]
  /\ batch' = [batch EXCEPT ![p] = {}]
  /\ start' = [start EXCEPT ![p] = 0]
  /\ UNCHANGED <<note, days, history, claims, log>>

Conflict(p) ==
  /\ step[p] = "write" /\ days[p] = {}
  /\ lastSeq[At(p)] # start[p]
  /\ Stop(p)
  /\ UNCHANGED <<notes, history, claims, log>>

Finish(p) ==
  /\ step[p] = "scope" /\ turn[p] > Len(ScopeOrder)
  /\ Stop(p)
  /\ UNCHANGED <<notes, history, claims, log>>

CrashProjector(p) ==
  /\ step[p] # "idle"
  /\ projectorCrashes < MaxProjectorCrashes
  /\ projectorCrashes' = projectorCrashes + 1
  /\ Stop(p)
  /\ UNCHANGED <<notes, overlapped, claims, log>>

Project(p) ==
  \/ Begin(p) \/ Skip(p) \/ Take(p) \/ Refuse(p) \/ WriteDay(p)
  \/ Commit(p) \/ Conflict(p) \/ Finish(p)

-----------------------------------------------------------------------------
(* add_claim, one transaction; a claim added again is returned unchanged.  *)

Claims == {c \in Claim : claimScope[c] # None}

(* faulty Basis: what a claim replaces does not count.                     *)
EvidenceScopes(some, old) == {ScopeOf[e] : e \in some}

Basis(some, old) == {ScopeOf[e] : e \in some} \cup {claimScope[o] : o \in old}

AddClaim(c, s, some, old) ==
  /\ c \notin Claims
  /\ some # {} /\ some \subseteq Recorded /\ Cardinality(some) <= MaxEvidence
  /\ old \subseteq Claims
  /\ \A x \in Basis(some, old) : Rank[x] <= Rank[s]
  /\ \A o \in old : supersededBy[o] = None
  /\ claimScope' = [claimScope EXCEPT ![c] = s]
  /\ evidence' = [evidence EXCEPT ![c] = some]
  /\ supersededBy' = [o \in Claim |-> IF o \in old THEN c ELSE supersededBy[o]]
  /\ UNCHANGED <<notes, projector, history, log>>

Next ==
  \/ \E p \in Projector : Project(p) \/ CrashProjector(p)
  \/ \E c \in Claim, s \in Scope, some \in SUBSET Event, old \in SUBSET Claim :
       AddClaim(c, s, some, old)
  \/ \E e \in Event : Capture(e) /\ UNCHANGED consumerVars

vars == <<log, consumerVars>>

Spec == Init /\ [][Next]_vars

(* The daily notes are run again and again, and every run ends.            *)
FairSpec == Spec /\ \A p \in Projector : WF_vars(Project(p))

-----------------------------------------------------------------------------
NotesOK ==
  /\ lastSeq \in [Scope -> Nat]
  /\ projected \subseteq 1..Len(events)
  /\ note \in [Scope -> [Day -> SUBSET (1..Len(events))]]

ProjectorsOK ==
  /\ step \in [Projector -> {"idle", "scope", "write"}]
  /\ turn \in [Projector -> 1..Len(ScopeOrder) + 1]
  /\ start \in [Projector -> Nat]
  /\ batch \in [Projector -> SUBSET (1..Len(events))]
  /\ days \in [Projector -> SUBSET Day]
  /\ \A p \in Projector :
       /\ step[p] = "write" => turn[p] <= Len(ScopeOrder)
       /\ step[p] # "write" => batch[p] = {} /\ days[p] = {}

ClaimsOK ==
  /\ claimScope \in [Claim -> Scope \cup {None}]
  /\ evidence \in [Claim -> SUBSET Event]
  /\ supersededBy \in [Claim -> Claim \cup {None}]

TypeOK ==
  /\ LogTypeOK
  /\ NotesOK
  /\ ProjectorsOK
  /\ ClaimsOK
  /\ projectorCrashes \in 0..MaxProjectorCrashes
  /\ overlapped \in BOOLEAN

(* A projected event is in the file of its scope and day, whatever crash
   came between the files and the commit.  One projector runs at a time.   *)
NoteHasProjected ==
  ~overlapped =>
  \A n \in projected : n \in note[ScopeOf[events[n]]][DayAt(n)]

(* The cursor of a scope passes no event of the scope that is not
   projected, also when runs overlap.                                      *)
CursorIsProjected ==
  \A s \in Scope : \A n \in EventsOf(s) : n <= lastSeq[s] <=> n \in projected

(* An event is projected at last, unless an event without a day is in its
   scope or in one of lower rank, which a run takes first.                 *)
EventsAreProjected ==
  <>[](\A n \in 1..Len(events) :
         (\A k \in 1..Len(events) :
            events[k] \in Undated => Rank[ScopeOf[events[k]]] > Rank[ScopeOf[events[n]]])
         => n \in projected)

(* A claim is at least as restricted as the evidence of every claim it
   replaced, over any chain of supersessions.                              *)
ScopeNeverLoosens ==
  \A c \in Claims :
    /\ \A e \in evidence[c] : Rank[ScopeOf[e]] <= Rank[claimScope[c]]
    /\ supersededBy[c] # None =>
         /\ supersededBy[c] \in Claims
         /\ Rank[claimScope[c]] <= Rank[claimScope[supersededBy[c]]]
=============================================================================
