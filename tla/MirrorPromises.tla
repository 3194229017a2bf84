--------------------------- MODULE MirrorPromises ---------------------------
(***************************************************************************)
(* What the mirror promises beyond MirrorSafety: nothing captured falls    *)
(* out of the tables, files go only when justified, decisions are audited, *)
(* claims follow the route, sending is serial while heartbeats are timely, *)
(* and every step is a step of MirrorOutbox.                               *)
(*                                                                         *)
(* Most of it rests on one lemma, NextEventStep: whatever a step of the    *)
(* system does, it does one of eight things to the delivery of an event.   *)
(***************************************************************************)
EXTENDS MirrorSafety

USE DEF Reached, Accounted, Waived, HasLease, ResultIsTrue, HadNoEffect

-----------------------------------------------------------------------------
(* What a step may do to the delivery of event e.                          *)

Decided      == {"uncertain_mark_sent", "uncertain_retry"}
Decisions(e) == {d \in audit : d.event = e /\ d.resolution \in Decided}

SameLog(e)       == /\ attempts'[e] = attempts[e]
                    /\ outcome'[e] = outcome[e]
                    /\ posted'[e] = posted[e]
SameDecisions(e) == Decisions(e)' = Decisions(e)

Rests(e) == state'[e] = state[e] /\ SameLog(e) /\ SameDecisions(e)

(* An enqueue of the tail looked the event up before the import listed it. *)
Admitted == {e \in Event : e \notin legacy \/ tail[e].at = "clear"}

Queued(e) ==
  /\ \/ state[e] = "none" /\ e \in Admitted
     \/ state[e] = "blocked"
  /\ state'[e] = "pending"
  /\ SameLog(e) /\ SameDecisions(e)

Parked(e) ==
  /\ state[e] \in Waiting /\ state'[e] = "blocked"
  /\ SameLog(e) /\ SameDecisions(e)

Dispatched(e) ==
  /\ state[e] \in Waiting /\ state'[e] = "inflight"
  /\ attempts'[e] = attempts[e] + 1
  /\ outcome'[e] = Append(outcome[e], "started")
  /\ posted'[e] = posted[e]
  /\ SameDecisions(e)
  /\ route[ConversationOf[e]] = [topic |-> target'[e], enabled |-> TRUE]
  /\ \E w \in Worker : lease'[e].owner = w /\ ProfileOf[e] = WorkerProfile[w]

Landed(e) ==
  /\ state'[e] = state[e] /\ attempts'[e] = attempts[e] /\ outcome'[e] = outcome[e]
  /\ \E k \in Nat : [event |-> e, attempt |-> k] \in wire /\ posted'[e] = posted[e] \cup {k}
  /\ SameDecisions(e)

Ended(e) ==
  /\ state[e] = "inflight"
  /\ \E r \in {"sent", "retry", "dead", "uncertain"} :
       /\ state'[e] = r
       /\ outcome'[e] = [outcome[e] EXCEPT ![attempts[e]] = r]
       /\ r = "sent" => attempts[e] \in posted[e]
       /\ r \in {"retry", "dead"} => attempts[e] \notin posted[e]
  /\ attempts'[e] = attempts[e] /\ posted'[e] = posted[e]
  /\ SameDecisions(e)

Lapsed(e) ==
  /\ state[e] = "inflight" /\ state'[e] = "uncertain"
  /\ outcome'[e] = Settle(outcome[e])
  /\ attempts'[e] = attempts[e] /\ posted'[e] = posted[e]
  /\ SameDecisions(e)

Resolved(e) ==
  /\ state[e] = "uncertain"
  /\ \/ /\ state'[e] = "sent"
        /\ Decisions(e)' = Decisions(e) \cup {Audit(e, "uncertain_mark_sent")}
     \/ /\ state'[e] = "retry"
        /\ Decisions(e)' = Decisions(e) \cup {Audit(e, "uncertain_retry")}
  /\ SameLog(e)

EventStep(e) ==
  \/ Rests(e) \/ Queued(e) \/ Parked(e) \/ Dispatched(e) \/ Landed(e) \/ Ended(e)
  \/ Lapsed(e) \/ Resolved(e)

-----------------------------------------------------------------------------
(* Steps that leave every delivery alone.                                  *)
LEMMA RestingStep ==
  ASSUME UNCHANGED <<state, attempts, outcome, posted, audit>>, NEW e \in Event
  PROVE  Rests(e)
BY DEF Rests, SameLog, SameDecisions, Decisions

LEMMA InsertStep ==
  ASSUME TypeOK, NEW E \in SUBSET Admitted, NEW topic, InsertDelivery(E, topic),
         UNCHANGED <<posted, audit>>, NEW e \in Event
  PROVE  Rests(e) \/ Queued(e)
<1>1. SameLog(e) /\ SameDecisions(e)
  BY DEF InsertDelivery, SameLog, SameDecisions, Decisions
<1>2. CASE e \in E /\ state[e] = "none"
  BY <1>1, <1>2 DEF InsertDelivery, Queued
<1>3. CASE ~(e \in E /\ state[e] = "none")
  BY <1>1, <1>3 DEF InsertDelivery, Rests
<1> QED BY <1>2, <1>3

LEMMA ProduceStep ==
  ASSUME TypeOK, NEW f \in Event, Produce(f) \/ TailStep(f), NEW e \in Event
  PROVE  EventStep(e)
<1>1. UNCHANGED <<posted, audit>>
  BY DEF Produce, CaptureEvent, RecordEvent, TailStep, TailLooks, TailReadsRoute, TailHolds,
         TailReadsBlock, TailQueues, TailEnds, ledgerVars, netVars
<1>2. CASE UNCHANGED deliveryVars
  BY <1>1, <1>2, RestingStep DEF deliveryVars, EventStep
<1>3. ASSUME NEW topic, InsertDelivery({f}, topic), f \in Admitted
      PROVE  EventStep(e)
  BY <1>1, <1>3, InsertStep DEF EventStep
<1>4. Enqueue(f) => \/ UNCHANGED deliveryVars
                    \/ f \in Admitted /\ \E topic : InsertDelivery({f}, topic)
  BY DEF Enqueue, Admitted
<1>5. CASE Produce(f)
  BY <1>2, <1>3, <1>4, <1>5 DEF Produce, CaptureEvent, RecordEvent
<1>6. CASE TailQueues(f)
  BY <1>3, <1>6 DEF TailQueues, Admitted
<1>7. CASE TailStep(f) /\ ~TailQueues(f)
  BY <1>2, <1>7 DEF TailStep, TailLooks, TailReadsRoute, TailHolds, TailReadsBlock, TailEnds,
     ledgerVars
<1> QED BY <1>5, <1>6, <1>7

(* What an expiry or a claim at time t does to the events it does not take.*)
LEMMA ExpiryStep ==
  ASSUME TypeOK, AttemptInvariant, NEW t, NEW e \in Event,
         state'[e] \in {ExpiredState(t)[e], RoutedState(t)[e]},
         outcome'[e] = ExpiredLogs(t)[e],
         attempts'[e] = attempts[e], posted'[e] = posted[e], UNCHANGED audit
  PROVE  Rests(e) \/ Parked(e) \/ Lapsed(e)
<1>1. SameDecisions(e)
  BY DEF SameDecisions, Decisions
<1>2. CASE Expired(e, t)
  <2>1. state[e] = "inflight"
    BY <1>2 DEF Expired, AttemptInvariant, LeaseIsTheInflightDelivery
  <2>2. state'[e] = "uncertain" /\ outcome'[e] = Settle(outcome[e])
    BY <1>2, <2>1 DEF ExpiredState, RoutedState, ExpiredLogs, Waiting
  <2> QED BY <1>1, <2>1, <2>2 DEF Lapsed
<1>3. CASE ~Expired(e, t)
  <2>1. outcome'[e] = outcome[e]
    BY <1>3 DEF ExpiredLogs
  <2>2. state'[e] = state[e] \/ (state[e] \in Waiting /\ state'[e] = "blocked")
    BY <1>3 DEF ExpiredState, RoutedState
  <2> QED BY <1>1, <2>1, <2>2 DEF Rests, Parked, SameLog
<1> QED BY <1>2, <1>3

LEMMA ClaimStep ==
  ASSUME TypeOK, AttemptInvariant, NEW w \in Worker, Claim(w), NEW e \in Event
  PROVE  EventStep(e)
<1> DEFINE t == stamp[w]
           p == WorkerProfile[w]
<1>1. UNCHANGED <<posted, audit, route>>
  BY DEF Claim, netVars
<1>2. CASE ClaimBusy(t) \/ ClaimNothing(p, t)
  BY <1>1, <1>2, ExpiryStep DEF ClaimBusy, ClaimNothing, EventStep
<1>3. ASSUME NEW f \in Event, ClaimEvent(f, p, w, t)
      PROVE  EventStep(e)
  <2>1. /\ DOMAIN RoutedState(t) = Event /\ DOMAIN ExpiredLeases(t) = Event
        /\ DOMAIN ExpiredLogs(t) = Event /\ attempts \in [Event -> Nat]
    BY DEF RoutedState, ExpiredLeases, ExpiredLogs, TypeOK, DeliveriesOK
  <2>2. CASE e # f
    <3>1. /\ state'[e] = RoutedState(t)[e] /\ outcome'[e] = ExpiredLogs(t)[e]
          /\ attempts'[e] = attempts[e]
      BY <1>3, <2>1, <2>2 DEF ClaimEvent
    <3> QED BY <1>1, <3>1, ExpiryStep DEF EventStep
  <2>3. CASE e = f
    <3>1. RoutedState(t)[e] \in Waiting /\ ProfileOf[e] = p
      BY <1>3, <2>3 DEF ClaimEvent, Oldest, Due
    <3>2. state[e] \in Waiting /\ OnCurrentRoute(e)
      BY <3>1 DEF RoutedState, ExpiredState, Waiting
    <3>3. ~Expired(e, t)
      BY <3>2 DEF Expired, Waiting, AttemptInvariant, LeaseIsTheInflightDelivery
    <3>4. /\ state'[e] = "inflight" /\ attempts'[e] = attempts[e] + 1
          /\ outcome'[e] = Append(ExpiredLogs(t)[e], "started")
          /\ lease'[e].owner = w /\ target'[e] = target[e]
      BY <1>3, <2>1, <2>3 DEF ClaimEvent
    <3>5. ExpiredLogs(t)[e] = outcome[e]
      BY <3>3 DEF ExpiredLogs
    <3>6. route[ConversationOf[e]] = [topic |-> target'[e], enabled |-> TRUE]
      <4>1. route[ConversationOf[e]] \in [topic : Topic \cup {None}, enabled : BOOLEAN]
        BY LedgerAssumption DEF TypeOK, TablesOK
      <4> QED BY <3>2, <3>4, <4>1 DEF OnCurrentRoute
    <3>7. SameDecisions(e)
      BY <1>1 DEF SameDecisions, Decisions
    <3> QED BY <1>1, <3>1, <3>2, <3>4, <3>5, <3>6, <3>7 DEF Dispatched, EventStep
  <2> QED BY <2>2, <2>3
<1> QED BY <1>2, <1>3 DEF Claim

LEMMA FinishStep ==
  ASSUME TypeOK, AttemptInvariant, NEW w \in Worker, Finish(w), NEW e \in Event
  PROVE  EventStep(e)
<1> DEFINE f == claim[w].event
           n == claim[w].attempt
<1>1. /\ pc[w] \in Claimed /\ pc[w] = "finished" /\ f \in Event
      /\ UNCHANGED <<posted, audit>>
  BY DEF Finish, Claimed, TypeOK, WorkersOK, netVars
<1>2. PICK r \in {"sent", "retry", "dead", "uncertain"} :
        /\ EndAttempt(claim[w], r) /\ RequireLease(claim[w], w)
        /\ r = "sent" => result[w] = "ok"
        /\ r \in {"retry", "dead"} => result[w] \in {"retryable", "rejected", "policy"}
  BY DEF Finish, MarkSent, MarkFailed, MarkUncertain
<1>3. /\ lease[f].owner = w /\ n = attempts[f] /\ HasLease(f) /\ state[f] = "inflight"
  <2>1. lease[f].owner = w /\ n = attempts[f]
    BY <1>1, <1>2 DEF RequireLease, AttemptInvariant, ClaimsAreApart
  <2>2. HasLease(f)
    <3>1. None \notin Worker /\ NoRow.owner = None
      BY LedgerAssumption, WorkerAssumption DEF NoRow
    <3> QED BY <2>1, <3>1
  <2> QED BY <1>1, <2>1, <2>2 DEF AttemptInvariant, LeaseIsTheInflightDelivery
<1>4. /\ r = "sent" => n \in posted[f]
      /\ r \in {"retry", "dead"} => n \notin posted[f]
  BY <1>1, <1>2 DEF AttemptInvariant, ResultsAreTrue
<1>5. /\ state' = [state EXCEPT ![f] = r] /\ attempts' = attempts
      /\ outcome' = [outcome EXCEPT ![f] = [outcome[f] EXCEPT ![n] = r]]
      /\ DOMAIN state = Event /\ DOMAIN outcome = Event
  BY <1>2 DEF EndAttempt, TypeOK, DeliveriesOK
<1>6. SameDecisions(e)
  BY <1>1 DEF SameDecisions, Decisions
<1> HIDE DEF f, n
<1>7. CASE e = f
  BY <1>1, <1>3, <1>4, <1>5, <1>6, <1>7 DEF Ended, EventStep
<1>8. CASE e # f
  BY <1>1, <1>5, <1>6, <1>8 DEF Rests, SameLog, EventStep
<1> QED BY <1>7, <1>8

LEMMA WorkerEventStep ==
  ASSUME TypeOK, AttemptInvariant, NEW w \in Worker, WorkerStep(w), NEW e \in Event
  PROVE  EventStep(e)
<1>1. CASE Claim(w)
  BY <1>1, ClaimStep
<1>2. CASE Finish(w)
  BY <1>2, FinishStep
<1>3. ASSUME ~Claim(w), ~Finish(w)
      PROVE  UNCHANGED <<state, attempts, outcome, posted, audit>>
  BY <1>3 DEF WorkerStep, Start, Clean, Send, Refuse, Rejected, Accepted, Unknown, Return,
     LeaseLost, Close, Heartbeat, HeartbeatError, ledgerVars, deliveryVars, netVars
<1> QED BY <1>1, <1>2, <1>3, RestingStep DEF EventStep

LEMMA ApplyStep ==
  ASSUME TypeOK, NEW r \in wire, Apply(r), NEW e \in Event
  PROVE  Rests(e) \/ Landed(e)
<1>1. /\ r = [event |-> r.event, attempt |-> r.attempt] /\ r.attempt \in Nat
      /\ posted \in [Event -> SUBSET Nat]
  BY DEF TypeOK, NetworkOK
<1>2. /\ UNCHANGED <<state, attempts, outcome, audit>> /\ SameDecisions(e)
      /\ posted' = [posted EXCEPT ![r.event] = @ \cup {r.attempt}]
  BY DEF Apply, ledgerVars, deliveryVars, SameDecisions, Decisions
<1>3. CASE e = r.event
  BY <1>1, <1>2, <1>3 DEF Landed
<1>4. CASE e # r.event
  BY <1>1, <1>2, <1>4 DEF Rests, SameLog
<1> QED BY <1>3, <1>4

(* A decision of resolution r about event f is written.                    *)
LEMMA AuditStep ==
  ASSUME NEW f \in Event, NEW r, audit' = audit \cup {Audit(f, r)}, NEW e \in Event
  PROVE  /\ e # f \/ r \notin Decided => SameDecisions(e)
         /\ e = f /\ r \in Decided => Decisions(e)' = Decisions(e) \cup {Audit(e, r)}
BY DEF SameDecisions, Decisions, Audit

LEMMA OperatorEventStep ==
  ASSUME TypeOK, NEW o \in Operator, OperatorStep(o), NEW e \in Event
  PROVE  EventStep(e)
<1>1. UNCHANGED posted
  BY DEF OperatorStep, OpBegin, OpReadRoute, OpReconcileBlocks, OpCommand, OpEnd, netVars
<1>2. CASE UNCHANGED <<deliveryVars, audit>>
  BY <1>1, <1>2, RestingStep DEF deliveryVars, EventStep
<1>3. CASE OpReconcileBlocks(o)
  <2>1. PICK E, topic : E \in SUBSET Admitted /\ InsertDelivery(E, topic)
    BY <1>3 DEF OpReconcileBlocks, ReconcileRouteBlocks, Admitted
  <2>2. UNCHANGED audit
    BY <1>3 DEF OpReconcileBlocks, ReconcileRouteBlocks
  <2> QED BY <1>1, <2>1, <2>2, InsertStep DEF EventStep
<1>4. ASSUME NEW c \in Conversation, RebindRouteChanged(c)
      PROVE  EventStep(e)
  <2>1. SameLog(e)
    BY <1>1, <1>4 DEF RebindRouteChanged, SameLog
  <2>2. SameDecisions(e)
    BY <1>4 DEF RebindRouteChanged, SameDecisions, Decisions, Decided, Audit
  <2>3. state'[e] = state[e] \/ (state[e] = "blocked" /\ state'[e] = "pending")
    BY <1>4 DEF RebindRouteChanged
  <2> QED BY <2>1, <2>2, <2>3 DEF Rests, Queued, EventStep
<1>5. ASSUME NEW f \in Event, ReconcileUncertainSent(f)
      PROVE  EventStep(e)
  <2>1. SameLog(e) /\ (e # f => state'[e] = state[e])
    BY <1>1, <1>5 DEF ReconcileUncertainSent, SameLog, TypeOK, DeliveriesOK
  <2>2. e = f => state[e] = "uncertain" /\ state'[e] = "sent"
    BY <1>5 DEF ReconcileUncertainSent, TypeOK, DeliveriesOK
  <2>3. audit' = audit \cup {Audit(f, "uncertain_mark_sent")}
    BY <1>5 DEF ReconcileUncertainSent
  <2> QED BY <2>1, <2>2, <2>3, AuditStep DEF Rests, Resolved, EventStep, Decided
<1>6. ASSUME NEW f \in Event, ReconcileUncertainRetry(f)
      PROVE  EventStep(e)
  <2>1. SameLog(e) /\ (e # f => state'[e] = state[e])
    BY <1>1, <1>6 DEF ReconcileUncertainRetry, SameLog, TypeOK, DeliveriesOK
  <2>2. e = f => state[e] = "uncertain" /\ state'[e] = "retry"
    BY <1>6 DEF ReconcileUncertainRetry, TypeOK, DeliveriesOK
  <2>3. audit' = audit \cup {Audit(f, "uncertain_retry")}
    BY <1>6 DEF ReconcileUncertainRetry
  <2> QED BY <2>1, <2>2, <2>3, AuditStep DEF Rests, Resolved, EventStep, Decided
<1>7. CASE OpCommand(o)
  BY <1>2, <1>4, <1>5, <1>6, <1>7 DEF OpCommand, SetRoute, ImportLegacy, AuthorizeMediaPurge
<1>8. CASE OpBegin(o) \/ OpEnd(o) \/ \E c \in Conversation : OpReadRoute(o, c)
  BY <1>2, <1>8 DEF OpBegin, OpEnd, OpReadRoute, ledgerVars
<1> QED BY <1>3, <1>7, <1>8 DEF OperatorStep

LEMMA NextEventStep ==
  ASSUME TypeOK, AttemptInvariant, [Next]_vars, NEW e \in Event
  PROVE  EventStep(e)
<1> USE DEF EventStep
<1>1. ASSUME NEW f \in Event, Produce(f) \/ TailStep(f) PROVE EventStep(e)
  BY <1>1, ProduceStep
<1>2. ASSUME NEW c \in Conversation, NEW topic \in Topic, ProvisionRoute(c, topic)
      PROVE  EventStep(e)
  BY <1>2, RestingStep DEF ProvisionRoute, SetRoute, deliveryVars, netVars
<1>3. ASSUME NEW w \in Worker, WorkerStep(w) PROVE EventStep(e)
  BY <1>3, WorkerEventStep
<1>4. ASSUME NEW r \in wire, Apply(r) PROVE EventStep(e)
  BY <1>4, ApplyStep
<1>5. ASSUME NEW r \in wire, Lose(r) PROVE EventStep(e)
  BY <1>5, RestingStep DEF Lose, ledgerVars, deliveryVars
<1>6. ASSUME NEW o \in Operator, OperatorStep(o) PROVE EventStep(e)
  BY <1>6, OperatorEventStep
<1>7. ASSUME NEW x \in Process, Crash(x) PROVE EventStep(e)
  BY <1>7, RestingStep DEF Crash, netVars
<1>8. CASE Tick
  BY <1>8, RestingStep DEF Tick, netVars
<1>9. CASE UNCHANGED vars
  BY <1>9, RestingStep DEF vars, ledgerVars, deliveryVars, netVars
<1> QED BY <1>1, <1>2, <1>3, <1>4, <1>5, <1>6, <1>7, <1>8, <1>9 DEF Next

-----------------------------------------------------------------------------
(* The decisions an operator has taken about a delivery.                   *)

(* Decisions concern attempts that were made, and what is being sent or    *)
(* waits for a decision has none yet about its last attempt.               *)
DecisionsArePast ==
  \A e \in Event :
    /\ \A d \in Decisions(e) : d.attempt \in 1..attempts[e]
    /\ state[e] \in {"inflight", "uncertain"} =>
         attempts[e] >= 1 /\ \A d \in Decisions(e) : d.attempt # attempts[e]

LEMMA InitDecisions == Init => DecisionsArePast
BY DEF Init, LedgerInit, DecisionsArePast, Decisions

LEMMA NextDecisions ==
  ASSUME TypeOK, AttemptInvariant, DecisionsArePast, [Next]_vars
  PROVE  DecisionsArePast'
<1> SUFFICES ASSUME NEW e \in Event
             PROVE  /\ \A d \in Decisions(e)' : d.attempt \in 1..attempts'[e]
                    /\ state'[e] \in {"inflight", "uncertain"} =>
                         attempts'[e] >= 1 /\ \A d \in Decisions(e)' : d.attempt # attempts'[e]
  BY DEF DecisionsArePast
<1>1. EventStep(e)
  BY NextEventStep
<1>2. /\ attempts[e] \in Nat
      /\ \A d \in Decisions(e) : d.attempt \in 1..attempts[e]
      /\ state[e] \in {"inflight", "uncertain"} =>
           attempts[e] >= 1 /\ \A d \in Decisions(e) : d.attempt # attempts[e]
  BY DEF TypeOK, DeliveriesOK, DecisionsArePast
<1>3. CASE Dispatched(e)
  BY <1>2, <1>3 DEF Dispatched, SameDecisions
<1>4. CASE Resolved(e)
  BY <1>2, <1>4 DEF Resolved, SameLog, Audit
<1>5. CASE Rests(e) \/ Queued(e) \/ Parked(e) \/ Landed(e) \/ Ended(e) \/ Lapsed(e)
  BY <1>2, <1>5 DEF Rests, Queued, Parked, Landed, Ended, Lapsed, SameDecisions, SameLog
<1> QED BY <1>1, <1>3, <1>4, <1>5 DEF EventStep

LEMMA DecisionsCorrect == Spec => []DecisionsArePast
BY InitType, NextType, InitAttempts, NextAttempts, InitDecisions, NextDecisions, PTL DEF Spec

(* A delivery leaves uncertain only with a new audit row of the operator's *)
(* decision, and never leaves sent or dead.                                *)
THEOREM UncertaintyEndsByDecision == Spec => OperatorResolvesUncertain
<1> DEFINE Audited(e) ==
             /\ state[e] \in {"sent", "dead"} => state'[e] = state[e]
             /\ state[e] = "uncertain" /\ state'[e] # "uncertain" =>
                  \E r \in Decided : Audit(e, r) \in audit' \ audit
<1>1. ASSUME TypeOK, AttemptInvariant, DecisionsArePast, [Next]_vars, NEW e \in Event
      PROVE  Audited(e)
  <2>1. EventStep(e)
    BY <1>1, NextEventStep
  <2>2. CASE Resolved(e)
    <3>1. PICK r \in Decided : Audit(e, r) \in Decisions(e)'
      BY <2>2 DEF Resolved, Decided
    <3>2. Audit(e, r) \in audit'
      BY <3>1 DEF Decisions
    <3>3. Audit(e, r) \notin audit
      BY <1>1, <2>2 DEF Resolved, DecisionsArePast, Decisions, Audit
    <3> QED BY <2>2, <3>2, <3>3 DEF Resolved
  <2>3. CASE ~Resolved(e)
    BY <2>1, <2>3 DEF EventStep, Rests, Queued, Parked, Dispatched, Landed, Ended, Lapsed,
                     Waiting
  <2> QED BY <2>2, <2>3
<1>2. TypeOK /\ AttemptInvariant /\ DecisionsArePast /\ [Next]_vars =>
        [\A e \in Event :
           /\ state[e] \in {"sent", "dead"} => state'[e] = state[e]
           /\ state[e] = "uncertain" /\ state'[e] # "uncertain" =>
                \E r \in {"uncertain_mark_sent", "uncertain_retry"} :
                  Audit(e, r) \in audit' \ audit]_vars
  BY <1>1 DEF Decided
<1> QED BY <1>2, TypeCorrect, AttemptsCorrect, DecisionsCorrect, PTL
        DEF Spec, OperatorResolvesUncertain

(* A claim goes to the topic that is the conversation's enabled route at   *)
(* that moment, by a worker of the event's profile.                        *)
THEOREM ClaimsAreRouted == Spec => ClaimsFollowTheRoute
<1>1. TypeOK /\ AttemptInvariant /\ [Next]_vars =>
        [\A e \in Event : state[e] # "inflight" /\ state'[e] = "inflight" =>
           /\ route[ConversationOf[e]] = [topic |-> target'[e], enabled |-> TRUE]
           /\ \E w \in Worker : /\ lease'[e].owner = w
                                /\ ProfileOf[e] = WorkerProfile[w]]_vars
  <2> SUFFICES ASSUME TypeOK, AttemptInvariant, [Next]_vars, NEW e \in Event,
                      state[e] # "inflight", state'[e] = "inflight"
               PROVE  /\ route[ConversationOf[e]] = [topic |-> target'[e], enabled |-> TRUE]
                      /\ \E w \in Worker : /\ lease'[e].owner = w
                                           /\ ProfileOf[e] = WorkerProfile[w]
    OBVIOUS
  <2>1. EventStep(e)
    BY NextEventStep
  <2>2. Dispatched(e)
    BY <2>1 DEF EventStep, Rests, Queued, Parked, Landed, Ended, Lapsed, Resolved
  <2> QED BY <2>2 DEF Dispatched
<1> QED BY <1>1, TypeCorrect, AttemptsCorrect, PTL DEF Spec, ClaimsFollowTheRoute

-----------------------------------------------------------------------------
(* The refinement.                                                         *)

Failed(e)   == {k \in DOMAIN outcome[e] : outcome[e][k] \in {"retry", "dead"}}
Released(e) == {k \in 1..attempts[e] : Waived(e, k)}

LEMMA Phases ==
  /\ PhaseOf["none"] = "absent"      /\ PhaseOf["pending"] = "queued"
  /\ PhaseOf["retry"] = "queued"     /\ PhaseOf["inflight"] = "sending"
  /\ PhaseOf["blocked"] = "parked"   /\ PhaseOf["dead"] = "dead"
  /\ PhaseOf["sent"] = "sent"        /\ PhaseOf["uncertain"] = "uncertain"
BY DEF PhaseOf

(* A changed box, field by field.                                          *)
Box(p, n, l, f, r) == [phase |-> p, n |-> n, landed |-> l, failed |-> f, released |-> r]

LEMMA BoxDispatch ==
  ASSUME NEW n, NEW l, NEW f, NEW r,
         1..n \subseteq f \cup r
  PROVE  Outbox!Dispatch(Box("queued", n, l, f, r), Box("sending", n + 1, l, f, r))
<1> DEFINE b == Box("queued", n, l, f, r)
           m == [b EXCEPT !.phase = "sending"]
<1>1. m = [phase |-> "sending", n |-> n, landed |-> l, failed |-> f, released |-> r]
  BY DEF Box
<1>2. b.phase = "queued" /\ b.n = n /\ b.failed = f /\ b.released = r
  BY DEF Box
<1> HIDE DEF b, m
<1>3. [m EXCEPT !.n = n + 1] = Box("sending", n + 1, l, f, r)
  BY <1>1 DEF Box
<1>4. [b EXCEPT !.phase = "sending", !.n = @ + 1] = Box("sending", n + 1, l, f, r)
  BY <1>2, <1>3, Zenon DEF m
<1> QED BY <1>2, <1>4 DEF Outbox!Dispatch, b

LEMMA BoxLand ==
  ASSUME NEW p, NEW n, NEW l, NEW f, NEW r, NEW k \in 1..n \ f
  PROVE  Outbox!Land(Box(p, n, l, f, r), Box(p, n, l \cup {k}, f, r))
<1> DEFINE b == Box(p, n, l, f, r)
<1>1. b.n = n /\ b.failed = f
  BY DEF Box
<1>2. [b EXCEPT !.landed = @ \cup {k}] = Box(p, n, l \cup {k}, f, r)
  BY DEF Box
<1> QED BY <1>1, <1>2 DEF Outbox!Land

LEMMA BoxFail ==
  ASSUME NEW n, NEW next \in {"queued", "dead"}, NEW l, NEW f, NEW r, n \notin l
  PROVE  Outbox!Fail(Box("sending", n, l, f, r), Box(next, n, l, f \cup {n}, r))
<1> DEFINE b == Box("sending", n, l, f, r)
           m == [b EXCEPT !.phase = next]
<1>1. m = [phase |-> next, n |-> n, landed |-> l, failed |-> f, released |-> r]
  BY DEF Box
<1>2. b.phase = "sending" /\ b.n = n /\ b.landed = l /\ b.failed = f
  BY DEF Box
<1> HIDE DEF b, m
<1>3. [m EXCEPT !.failed = f \cup {n}] = Box(next, n, l, f \cup {n}, r)
  BY <1>1 DEF Box
<1>4. [b EXCEPT !.phase = next, !.failed = @ \cup {b.n}] = Box(next, n, l, f \cup {n}, r)
  BY <1>2, <1>3, Zenon DEF m
<1> QED BY <1>2, <1>4 DEF Outbox!Fail, b

LEMMA BoxRelease ==
  ASSUME NEW n, NEW l, NEW f, NEW r
  PROVE  Outbox!Release(Box("uncertain", n, l, f, r), Box("queued", n, l, f, r \cup {n}))
<1> DEFINE b == Box("uncertain", n, l, f, r)
           m == [b EXCEPT !.phase = "queued"]
<1>1. m = [phase |-> "queued", n |-> n, landed |-> l, failed |-> f, released |-> r]
  BY DEF Box
<1>2. b.phase = "uncertain" /\ b.n = n /\ b.released = r
  BY DEF Box
<1> HIDE DEF b, m
<1>3. [m EXCEPT !.released = r \cup {n}] = Box("queued", n, l, f, r \cup {n})
  BY <1>1 DEF Box
<1>4. [b EXCEPT !.phase = "queued", !.released = @ \cup {b.n}] = Box("queued", n, l, f, r \cup {n})
  BY <1>2, <1>3, Zenon DEF m
<1> QED BY <1>2, <1>4 DEF Outbox!Release, b

(* The view of one event.                                                  *)
LEMMA ViewOf ==
  ASSUME NEW e \in Event
  PROVE  /\ OutboxView[e] = Box(PhaseOf[state[e]], attempts[e], posted[e], Failed(e),
                               Released(e))
         /\ OutboxView'[e] = Box(PhaseOf[state'[e]], attempts'[e], posted'[e], Failed(e)',
                                Released(e)')
BY DEF OutboxView, Failed, Released, Box

(* What the decisions release and what the log refutes, from one state to  *)
(* the next.                                                               *)
LEMMA ReleasedBy ==
  ASSUME NEW e \in Event, SameDecisions(e), attempts'[e] = attempts[e]
  PROVE  Released(e)' = Released(e)
<1>1. \A k : Waived(e, k)' <=> Waived(e, k)
  <2>1. \A k : /\ Waived(e, k) <=> [event |-> e, attempt |-> k, resolution |-> "uncertain_retry"]
                                     \in Decisions(e)
               /\ Waived(e, k)' <=> [event |-> e, attempt |-> k, resolution |-> "uncertain_retry"]
                                      \in Decisions(e)'
    BY DEF Decisions, Decided
  <2> QED BY <2>1 DEF SameDecisions
<1> QED BY <1>1 DEF Released

LEMMA SameView ==
  ASSUME NEW e \in Event, SameLog(e), SameDecisions(e)
  PROVE  /\ attempts'[e] = attempts[e] /\ posted'[e] = posted[e]
         /\ Failed(e)' = Failed(e) /\ Released(e)' = Released(e)
BY ReleasedBy DEF SameLog, Failed

(* Each thing a step may do to a delivery is a step of the outbox.         *)
LEMMA EventStepRefines ==
  ASSUME TypeOK, AttemptInvariant, DecisionsArePast, NEW e \in Event, EventStep(e)
  PROVE  OutboxView'[e] = OutboxView[e] \/ Outbox!Step(OutboxView[e], OutboxView'[e])
<1> USE DEF Outbox!Step
<1> DEFINE n == attempts[e]
           b == OutboxView[e]
           c == OutboxView'[e]
<1>1. /\ b = Box(PhaseOf[state[e]], attempts[e], posted[e], Failed(e), Released(e))
      /\ c = Box(PhaseOf[state'[e]], attempts'[e], posted'[e], Failed(e)', Released(e)')
  BY ViewOf
<1>2. /\ n \in Nat /\ outcome[e] \in Seq(Outcome) /\ Len(outcome[e]) = n
      /\ DOMAIN outcome[e] = 1..n /\ posted[e] \subseteq 1..n
  BY DEF TypeOK, DeliveriesOK, AttemptInvariant, AttemptsAreLogged
<1>3. state[e] = "inflight" => n \in 1..n /\ outcome[e][n] = "started"
  BY <1>2 DEF AttemptInvariant, LeaseIsTheInflightDelivery, DecisionsArePast
<1> HIDE DEF b, c
<1>4. CASE Rests(e)
  BY <1>1, <1>4, SameView DEF Rests, b, c
<1>5. CASE Queued(e)
  <2>1. Outbox!Queue(b, c)
    BY <1>1, <1>5, SameView, Phases DEF Box, Queued, Outbox!Queue, Outbox!Moves
  <2> QED BY <2>1 DEF b, c
<1>6. CASE Parked(e)
  <2>1. Outbox!Park(b, c)
    BY <1>1, <1>6, SameView, Phases DEF Box, Parked, Waiting, Outbox!Park, Outbox!Moves
  <2> QED BY <2>1 DEF b, c
<1>7. CASE Dispatched(e)
  <2>1. 1..n \subseteq Failed(e) \cup Released(e)
    BY <1>2, <1>7 DEF Dispatched, Waiting, AttemptInvariant, RepeatsAreAccounted, Failed, Released
  <2>2. Failed(e)' = Failed(e)
    <3>1. /\ DOMAIN outcome'[e] = 1..(n+1) /\ outcome'[e][n+1] = "started"
          /\ \A k \in 1..n : outcome'[e][k] = outcome[e][k]
      BY <1>2, <1>7, AppendProperties DEF Dispatched, Outcome
    <3>2. \A k \in 1..(n+1) : k \in 1..n \/ k = n + 1
      BY <1>2
    <3>3. \A k \in 1..n : k \in 1..(n+1)
      BY <1>2
    <3> QED BY <1>2, <3>1, <3>2, <3>3 DEF Failed
  <2>3. Released(e)' = Released(e)
    <3>1. \A k : Waived(e, k)' <=> Waived(e, k)
      <4>1. \A k : /\ Waived(e, k) <=> [event |-> e, attempt |-> k, resolution |-> "uncertain_retry"]
                                         \in Decisions(e)
                   /\ Waived(e, k)' <=> [event |-> e, attempt |-> k, resolution |-> "uncertain_retry"]
                                          \in Decisions(e)'
        BY DEF Decisions, Decided
      <4> QED BY <1>7, <4>1 DEF Dispatched, SameDecisions
    <3>2. \A k : Waived(e, k) => k \in 1..n
      BY DEF DecisionsArePast, Decisions, Decided
    <3>3. \A k \in 1..n : k \in 1..(n+1)
      BY <1>2
    <3> QED BY <1>7, <3>1, <3>2, <3>3 DEF Released, Dispatched
  <2>4. b = Box("queued", n, posted[e], Failed(e), Released(e))
    BY <1>1, <1>7, Phases DEF Dispatched, Waiting
  <2>5. c = Box("sending", n + 1, posted[e], Failed(e), Released(e))
    BY <1>1, <1>7, <2>2, <2>3, Phases DEF Dispatched
  <2>6. Outbox!Dispatch(b, c)
    BY <2>1, <2>4, <2>5, BoxDispatch
  <2> QED BY <2>6 DEF b, c
<1>8. CASE Landed(e)
  <2>1. PICK k \in Nat : [event |-> e, attempt |-> k] \in wire /\ posted'[e] = posted[e] \cup {k}
    BY <1>8 DEF Landed
  <2>2. k \in 1..n \ Failed(e)
    BY <2>1 DEF AttemptInvariant, AttemptsAreLogged, KnownFailuresNeverLand, Failed
  <2>3. Failed(e)' = Failed(e) /\ Released(e)' = Released(e)
    BY <1>8, ReleasedBy DEF Landed, Failed
  <2>4. c = Box(PhaseOf[state[e]], n, posted[e] \cup {k}, Failed(e), Released(e))
    BY <1>1, <1>8, <2>1, <2>3 DEF Landed
  <2>5. Outbox!Land(b, c)
    BY <1>1, <2>2, <2>4, BoxLand
  <2> QED BY <2>5 DEF b, c
<1>9. CASE Ended(e)
  <2>1. PICK r \in {"sent", "retry", "dead", "uncertain"} :
          /\ state'[e] = r
          /\ outcome'[e] = [outcome[e] EXCEPT ![n] = r]
          /\ r = "sent" => n \in posted[e]
          /\ r \in {"retry", "dead"} => n \notin posted[e]
    BY <1>9 DEF Ended
  <2>2. /\ state[e] = "inflight" /\ attempts'[e] = n /\ posted'[e] = posted[e]
        /\ Released(e)' = Released(e)
    BY <1>9, ReleasedBy DEF Ended
  <2>3. /\ DOMAIN outcome'[e] = 1..n /\ outcome'[e][n] = r
        /\ \A k \in 1..n : k # n => outcome'[e][k] = outcome[e][k]
    BY <1>2, <1>3, <2>1, <2>2
  <2>4. Failed(e)' = IF r \in {"retry", "dead"} THEN Failed(e) \cup {n} ELSE Failed(e)
    BY <1>2, <1>3, <2>2, <2>3 DEF Failed
  <2>5. CASE r = "sent"
    <3>1. Outbox!Confirm(b, c)
      BY <1>1, <2>1, <2>2, <2>4, <2>5, Phases DEF Box, Outbox!Confirm, Outbox!Moves
    <3> QED BY <3>1 DEF b, c
  <2>6. CASE r \in {"retry", "dead"}
    <3>1. PICK next \in {"queued", "dead"} : PhaseOf[state'[e]] = next
      BY <2>1, <2>6, Phases
    <3>2. b = Box("sending", n, posted[e], Failed(e), Released(e))
      BY <1>1, <2>2, Phases
    <3>3. c = Box(next, n, posted[e], Failed(e) \cup {n}, Released(e))
      BY <1>1, <2>2, <2>4, <2>6, <3>1
    <3>4. Outbox!Fail(b, c)
      BY <2>1, <2>6, <3>2, <3>3, BoxFail
    <3> QED BY <3>4 DEF b, c
  <2>7. CASE r = "uncertain"
    <3>1. Outbox!Doubt(b, c)
      BY <1>1, <2>1, <2>2, <2>4, <2>7, Phases DEF Box, Outbox!Doubt, Outbox!Moves
    <3> QED BY <3>1 DEF b, c
  <2> QED BY <2>5, <2>6, <2>7
<1>10. CASE Lapsed(e)
  <2>1. Failed(e)' = Failed(e)
    BY <1>2, <1>10, SettleType DEF Lapsed, Failed
  <2>2. Released(e)' = Released(e)
    BY <1>10, ReleasedBy DEF Lapsed
  <2>3. Outbox!Doubt(b, c)
    BY <1>1, <1>10, <2>1, <2>2, Phases DEF Box, Lapsed, Outbox!Doubt, Outbox!Moves
  <2> QED BY <2>3 DEF b, c
<1>11. CASE Resolved(e)
  <2>1. /\ state[e] = "uncertain" /\ attempts'[e] = n /\ posted'[e] = posted[e]
        /\ Failed(e)' = Failed(e) /\ n \in 1..n
    BY <1>2, <1>11 DEF Resolved, SameLog, Failed, DecisionsArePast
  <2>2. \A k : /\ Waived(e, k) <=> [event |-> e, attempt |-> k, resolution |-> "uncertain_retry"]
                                     \in Decisions(e)
               /\ Waived(e, k)' <=> [event |-> e, attempt |-> k, resolution |-> "uncertain_retry"]
                                      \in Decisions(e)'
    BY DEF Decisions, Decided
  <2>3. CASE /\ state'[e] = "sent"
             /\ Decisions(e)' = Decisions(e) \cup {Audit(e, "uncertain_mark_sent")}
    <3>1. \A k : Waived(e, k)' <=> Waived(e, k)
      BY <2>2, <2>3 DEF Audit
    <3>2. Released(e)' = Released(e)
      BY <2>1, <3>1 DEF Released
    <3>3. Outbox!Vouch(b, c)
      BY <1>1, <2>1, <2>3, <3>2, Phases DEF Box, Outbox!Vouch, Outbox!Moves
    <3> QED BY <3>3 DEF b, c
  <2>4. CASE /\ state'[e] = "retry"
             /\ Decisions(e)' = Decisions(e) \cup {Audit(e, "uncertain_retry")}
    <3>1. \A k : Waived(e, k)' <=> Waived(e, k) \/ k = n
      BY <2>2, <2>4 DEF Audit
    <3>2. Released(e)' = Released(e) \cup {n}
      BY <2>1, <3>1 DEF Released
    <3>3. b = Box("uncertain", n, posted[e], Failed(e), Released(e))
      BY <1>1, <2>1, Phases
    <3>4. c = Box("queued", n, posted[e], Failed(e), Released(e) \cup {n})
      BY <1>1, <2>1, <2>4, <3>2, Phases
    <3>5. Outbox!Release(b, c)
      BY <3>3, <3>4, BoxRelease
    <3> QED BY <3>5 DEF b, c
  <2> QED BY <1>11, <2>3, <2>4 DEF Resolved
<1> QED BY <1>4, <1>5, <1>6, <1>7, <1>8, <1>9, <1>10, <1>11 DEF EventStep

(* Every step of every process is a step of the outbox, or hidden from it: *)
(* the mirror keeps the promise of docs/ARCHITECTURE.md, however many      *)
(* workers, operators, crashes and late answers there are.                 *)
THEOREM OutboxImplemented == Spec => ImplementsOutbox
<1>1. Init => Outbox!Init
  <2> SUFFICES ASSUME Init PROVE OutboxView = [e \in Event |-> Outbox!Empty]
    BY DEF Outbox!Init
  <2>1. ASSUME NEW e \in Event
        PROVE  /\ state[e] = "none" /\ attempts[e] = 0 /\ posted[e] = {}
               /\ Failed(e) = {} /\ Released(e) = {}
    BY DEF Init, LedgerInit, Failed, Released
  <2> QED BY <2>1, Phases DEF OutboxView, Outbox!Empty, Failed, Released
<1>2. TypeOK /\ AttemptInvariant /\ DecisionsArePast /\ [Next]_vars
        => [Outbox!Next]_OutboxView
  <2> SUFFICES ASSUME TypeOK, AttemptInvariant, DecisionsArePast, [Next]_vars
               PROVE  Outbox!Next
    OBVIOUS
  <2>1. AttemptInvariant'
    BY NextAttempts
  <2>2. OutboxView' \in [Event -> {OutboxView'[e] : e \in Event}]
    BY DEF OutboxView
  <2>3. \A e \in Event : OutboxView'[e] = OutboxView[e]
                         \/ Outbox!Step(OutboxView[e], OutboxView'[e])
    BY NextEventStep, EventStepRefines
  <2>4. ASSUME NEW e \in Event, OutboxView'[e].phase = "sending" PROVE HasLease(e)'
    <3>1. TypeOK'
      BY NextType
    <3>2. PhaseOf[state'[e]] = "sending"
      <4>1. OutboxView'[e] = Box(PhaseOf[state'[e]], attempts'[e], posted'[e], Failed(e)',
                                 Released(e)')
        BY ViewOf
      <4> QED BY <2>4, <4>1 DEF Box
    <3>3. state'[e] \in {"none", "pending", "inflight", "retry", "sent", "dead", "blocked",
                         "uncertain"}
      BY <3>1 DEF TypeOK, DeliveriesOK, DeliveryState
    <3>4. state'[e] = "inflight"
      BY <3>2, <3>3, Phases
    <3> QED BY <2>1, <3>4 DEF AttemptInvariant, LeaseIsTheInflightDelivery
  <2>5. \A e, f \in Outbox!Sending' : e = f
    BY <2>1, <2>4 DEF Box, Outbox!Sending, AttemptInvariant, LeaseIsTheInflightDelivery
  <2> QED BY <2>2, <2>3, <2>5 DEF Outbox!Next
<1> QED BY <1>1, <1>2, TypeCorrect, AttemptsCorrect, DecisionsCorrect, PTL
        DEF Spec, Outbox!Spec, ImplementsOutbox

-----------------------------------------------------------------------------
(* Nothing captured falls out of the tables.                               *)

(* A delivery row, once there, stays, and the legacy list only grows.      *)
LEMMA RowsStay ==
  ASSUME TypeOK, AttemptInvariant, [Next]_vars, NEW e \in Event
  PROVE  /\ state[e] # "none" => state'[e] # "none"
         /\ state[e] = "sent" => state'[e] = "sent"
BY NextEventStep DEF EventStep, Rests, Queued, Parked, Dispatched, Landed, Ended, Lapsed,
                     Resolved, Waiting

LEMMA LegacyGrows == ASSUME [Next]_vars PROVE legacy \subseteq legacy'
<1>1. ASSUME NEW e \in Event, Produce(e) \/ TailStep(e) PROVE UNCHANGED legacy
  BY <1>1 DEF Produce, CaptureEvent, RecordEvent, TailStep, TailLooks, TailReadsRoute,
     TailHolds, TailReadsBlock, TailQueues, TailEnds, ledgerVars
<1>2. ASSUME NEW w \in Worker, WorkerStep(w) PROVE UNCHANGED legacy
  BY <1>2 DEF WorkerStep, Start, Clean, Claim, Send, Refuse, Rejected, Accepted, Unknown,
     Return, Finish, LeaseLost, Close, Heartbeat, HeartbeatError, ledgerVars
<1>3. ASSUME NEW o \in Operator, OperatorStep(o) PROVE legacy \subseteq legacy'
  BY <1>3 DEF OperatorStep, OpBegin, OpReadRoute, OpReconcileBlocks, OpCommand, OpEnd,
     SetRoute, ImportLegacy, RebindRouteChanged, ReconcileUncertainSent,
     ReconcileUncertainRetry, AuthorizeMediaPurge, ReconcileRouteBlocks, ledgerVars
<1>4. CASE UNCHANGED vars
  BY <1>4 DEF vars, ledgerVars
<1> QED BY <1>1, <1>2, <1>3, <1>4 DEF Next, ProvisionRoute, SetRoute, Apply, Lose, Crash, Tick,
        ledgerVars

(* No enqueue of the tail begins for a legacy id.                          *)
LEMMA LegacyEndsTheCall ==
  ASSUME [Next]_vars, NEW e \in legacy, tail[e] = NoCall, TypeOK
  PROVE  tail'[e] = NoCall
<1>1. ASSUME NEW f \in Event, TailStep(f) PROVE tail'[e] = NoCall
  <2>1. e \in Event /\ tail \in [Event -> [at : {"idle", "looked", "unrouted", "routed", "clear"},
                                         topic : Topic \cup {None}]]
    BY DEF TypeOK, TablesOK, TailOK
  <2>2. CASE e = f
    BY <1>1, <2>2 DEF TailStep, TailLooks, TailReadsRoute, TailHolds, TailReadsBlock,
       TailQueues, TailEnds, NoCall
  <2>3. CASE e # f
    BY <1>1, <2>1, <2>3 DEF TailStep, TailLooks, TailReadsRoute, TailHolds, TailReadsBlock,
       TailQueues, TailEnds
  <2> QED BY <2>2, <2>3
<1>2. ASSUME NEW f \in Event, Produce(f) PROVE UNCHANGED tail
  BY <1>2 DEF Produce
<1>3. ASSUME NEW w \in Worker, WorkerStep(w) PROVE UNCHANGED tail
  BY <1>3 DEF WorkerStep, Start, Clean, Claim, Send, Refuse, Rejected, Accepted, Unknown,
     Return, Finish, LeaseLost, Close, Heartbeat, HeartbeatError
<1>4. ASSUME NEW o \in Operator, OperatorStep(o) PROVE UNCHANGED tail
  BY <1>4 DEF OperatorStep, OpBegin, OpReadRoute, OpReconcileBlocks, OpCommand, OpEnd
<1>5. CASE UNCHANGED vars
  BY <1>5 DEF vars
<1> QED BY <1>1, <1>2, <1>3, <1>4, <1>5 DEF Next, ProvisionRoute, Apply, Lose, Crash, Tick

(* What the import has listed, and no enqueue of the tail had looked up    *)
(* before, is not queued from then on.                                     *)
THEOREM LegacyStaysOut == Spec => LegacyIsNotQueued
<1>1. TypeOK /\ AttemptInvariant /\ [Next]_vars =>
        [\A e \in Event : Barred(e) => Barred(e)']_vars
  <2> SUFFICES ASSUME TypeOK, AttemptInvariant, [Next]_vars, NEW e \in Event, Barred(e)
               PROVE  Barred(e)'
    OBVIOUS
  <2>1. EventStep(e) /\ e \in legacy /\ state[e] = "none" /\ tail[e] = NoCall
    BY NextEventStep DEF Barred
  <2>2. e \notin Admitted
    BY <2>1 DEF Admitted, NoCall
  <2>3. state'[e] = "none"
    BY <2>1, <2>2 DEF EventStep, Rests, Queued, Parked, Dispatched, Landed, Ended, Lapsed,
       Resolved, Waiting
  <2>4. e \in legacy' /\ tail'[e] = NoCall
    BY <2>1, LegacyGrows, LegacyEndsTheCall
  <2> QED BY <2>3, <2>4 DEF Barred
<1> QED BY <1>1, TypeCorrect, AttemptsCorrect, PTL DEF Spec, LegacyIsNotQueued

(* An event that still has no row after a step was not let out of its      *)
(* block by the step, and if the step captured it, it is blocked now.      *)
Found(e) ==
  /\ block'[e] \in {block[e], "blocked_no_route"}
  /\ e \in captured' \ Tailed => e \in captured \/ block'[e] = "blocked_no_route"

LEMMA EnqueueBlocks ==
  ASSUME TypeOK, NEW f \in Event, Enqueue(f), NEW e \in Event \ legacy, state'[e] = "none"
  PROVE  block'[e] = IF e = f THEN "blocked_no_route" ELSE block[e]
<1>1. block \in [Event -> {"none", "blocked_no_route", "requeued"}]
  BY DEF TypeOK, TablesOK
<1>2. ASSUME NEW topic, InsertDelivery({f}, topic) PROVE e # f
  BY <1>2 DEF InsertDelivery
<1> QED BY <1>1, <1>2 DEF Enqueue

LEMMA ProduceFound ==
  ASSUME TypeOK, NEW f \in Event, Produce(f) \/ TailStep(f),
         NEW e \in Event \ legacy, state'[e] = "none"
  PROVE  Found(e)
<1>1. CASE CaptureEvent(f)
  BY <1>1, EnqueueBlocks DEF CaptureEvent, Found
<1>2. CASE RecordEvent(f)
  BY <1>2 DEF RecordEvent, Found
<1>3. CASE TailStep(f)
  <2>1. block \in [Event -> {"none", "blocked_no_route", "requeued"}]
    BY DEF TypeOK, TablesOK
  <2> QED BY <1>3, <2>1 DEF TailStep, TailLooks, TailReadsRoute, TailHolds, TailReadsBlock,
             TailQueues, TailEnds, ledgerVars, Found
<1> QED BY <1>1, <1>2, <1>3 DEF Produce

LEMMA OperatorFound ==
  ASSUME TypeOK, NEW o \in Operator, OperatorStep(o),
         NEW e \in Event \ legacy, state'[e] = "none"
  PROVE  Found(e)
<1>1. CASE UNCHANGED <<captured, block>>
  BY <1>1 DEF Found
<1>2. ASSUME NEW c, NEW topic, ReconcileRouteBlocks(c, topic)
      PROVE  Found(e)
  <2>1. ~(ConversationOf[e] = c /\ block[e] = "blocked_no_route")
    BY <1>2 DEF ReconcileRouteBlocks, InsertDelivery
  <2>2. block'[e] = block[e] /\ captured' = captured
    BY <1>2, <2>1 DEF ReconcileRouteBlocks
  <2> QED BY <2>2 DEF Found
<1>3. OpReconcileBlocks(o) \/ UNCHANGED <<captured, block>>
  BY DEF OperatorStep, OpBegin, OpReadRoute, OpCommand, OpEnd, SetRoute, ImportLegacy,
     RebindRouteChanged, ReconcileUncertainSent, ReconcileUncertainRetry,
     AuthorizeMediaPurge, ledgerVars
<1> QED BY <1>1, <1>2, <1>3 DEF OpReconcileBlocks

LEMMA NextFound ==
  ASSUME TypeOK, [Next]_vars, NEW e \in Event \ legacy, state'[e] = "none"
  PROVE  Found(e)
<1>1. CASE UNCHANGED <<captured, block>>
  BY <1>1 DEF Found
<1>2. ASSUME NEW w \in Worker, WorkerStep(w) PROVE UNCHANGED <<captured, block>>
  BY <1>2 DEF WorkerStep, Start, Clean, Claim, Send, Refuse, Rejected, Accepted, Unknown,
     Return, Finish, LeaseLost, Close, Heartbeat, HeartbeatError, ledgerVars
<1>3. CASE UNCHANGED vars
  BY <1>1, <1>3 DEF vars, ledgerVars
<1> QED BY <1>1, <1>2, <1>3, ProduceFound, OperatorFound
        DEF Next, ProvisionRoute, SetRoute, Apply, Lose, Crash, Tick, ledgerVars

(* What a producer committed stays visible: in a delivery, or in a block   *)
(* that is lifted only together with a delivery.                           *)
THEOREM NothingIsDropped == Spec => []NothingFallsOut
<1>1. Init => NothingFallsOut
  BY DEF Init, LedgerInit, NothingFallsOut
<1>2. TypeOK /\ AttemptInvariant /\ NothingFallsOut /\ [Next]_vars => NothingFallsOut'
  <2> SUFFICES ASSUME TypeOK, AttemptInvariant, NothingFallsOut, [Next]_vars,
                      NEW e \in Event \ legacy', state'[e] = "none"
               PROVE  /\ e \in captured' \ Tailed => block'[e] = "blocked_no_route"
                      /\ block'[e] # "requeued"
    BY DEF NothingFallsOut
  <2>1. e \in Event \ legacy /\ state[e] = "none"
    BY LegacyGrows, RowsStay
  <2>2. Found(e)
    BY <2>1, NextFound
  <2>3. /\ e \in captured \ Tailed => block[e] = "blocked_no_route"
        /\ block[e] # "requeued"
    BY <2>1 DEF NothingFallsOut
  <2> QED BY <2>2, <2>3 DEF Found
<1> QED BY <1>1, <1>2, TypeCorrect, AttemptsCorrect, PTL DEF Spec

-----------------------------------------------------------------------------
(* Files go only when that is justified.                                   *)

(* The inventory row of a captured event is active while its file must     *)
(* stay; only a sent delivery or a purge ends that.                        *)
FilesAreInventoried ==
  \A e \in HasMedia :
    /\ e \notin captured => media[e] = "none"
    /\ e \in captured => /\ media[e] = "active" => file[e]
                         /\ media[e] # "active" => state[e] = "sent" \/ e \in purged

(* What a step may do to the file and the inventory row of event e.        *)
FileStep(e) ==
  \/ media'[e] = media[e] /\ file'[e] = file[e]
     /\ (e \in captured' <=> e \in captured)
  \/ /\ e \notin captured /\ e \in captured'                    \* captured
     /\ media'[e] = "active" /\ file'[e]
  \/ /\ media[e] # "active" /\ media'[e] \in {media[e], "none"} \* swept
     /\ (e \in captured' <=> e \in captured)
  \/ /\ media[e] = "active" /\ media'[e] # "active"             \* to be swept
     /\ state'[e] = "sent" \/ e \in purged'
     /\ (e \in captured' <=> e \in captured)

LEMMA SweepFileStep ==
  ASSUME TypeOK, NEW t, CleanupMedia(t), UNCHANGED captured, NEW e \in Event
  PROVE  FileStep(e)
<1>1. PICK removed \in SUBSET CleanupDue(t) :
        /\ media' = [x \in Event |-> IF x \in removed THEN "none" ELSE media[x]]
        /\ file' = [x \in Event |-> file[x] /\ x \notin removed]
  BY DEF CleanupMedia
<1>2. CASE e \in removed
  <2>1. media[e] # "active" /\ media'[e] = "none"
    BY <1>1, <1>2 DEF CleanupDue
  <2> QED BY <2>1 DEF FileStep
<1>3. CASE e \notin removed
  <2>1. media'[e] = media[e] /\ file'[e] = file[e]
    BY <1>1, <1>3 DEF TypeOK, MediaOK
  <2> QED BY <2>1 DEF FileStep
<1> QED BY <1>2, <1>3

LEMMA QueueFileStep ==
  ASSUME TypeOK, NEW f \in Event, NEW due, QueueCleanup(f, due), UNCHANGED captured,
         media[f] = "active" => state'[f] = "sent" \/ f \in purged', NEW e \in HasMedia
  PROVE  FileStep(e)
<1>1. media \in [Event -> {"none", "active", "cleanup_pending"}] /\ e \in Event
  BY LedgerAssumption DEF TypeOK, MediaOK
<1>2. CASE e = f
  BY <1>1, <1>2 DEF QueueCleanup, FileStep
<1>3. CASE e # f
  BY <1>1, <1>3 DEF QueueCleanup, FileStep
<1> QED BY <1>2, <1>3

LEMMA ProduceFileStep ==
  ASSUME TypeOK, NEW f \in Event, Produce(f) \/ TailStep(f), NEW e \in HasMedia
  PROVE  FileStep(e)
<1>1. /\ media \in [Event -> {"none", "active", "cleanup_pending"}]
      /\ file \in [Event -> BOOLEAN] /\ e \in Event /\ e \notin Tailed
  BY LedgerAssumption DEF TypeOK, MediaOK
<1>2. CASE CaptureEvent(f) /\ e = f
  BY <1>1, <1>2 DEF CaptureEvent, FileStep
<1>3. CASE CaptureEvent(f) /\ e # f
  BY <1>1, <1>3 DEF CaptureEvent, FileStep
<1>4. CASE RecordEvent(f)
  BY <1>1, <1>4 DEF RecordEvent, mediaVars, FileStep
<1>5. CASE TailStep(f)
  BY <1>5 DEF TailStep, TailLooks, TailReadsRoute, TailHolds, TailReadsBlock, TailQueues,
     TailEnds, ledgerVars, mediaVars, FileStep
<1> QED BY <1>2, <1>3, <1>4, <1>5 DEF Produce

LEMMA WorkerFileStep ==
  ASSUME TypeOK, NEW w \in Worker, WorkerStep(w), NEW e \in HasMedia
  PROVE  FileStep(e)
<1>1. e \in Event /\ UNCHANGED captured
  BY LedgerAssumption DEF WorkerStep, Start, Clean, Claim, Send, Refuse, Rejected, Accepted,
     Unknown, Return, Finish, LeaseLost, Close, Heartbeat, HeartbeatError, ledgerVars
<1>2. CASE UNCHANGED mediaVars
  BY <1>1, <1>2 DEF mediaVars, FileStep
<1>3. CASE Clean(w)
  BY <1>1, <1>3, SweepFileStep DEF Clean
<1>4. ASSUME MarkSent(claim[w], w, stamp[w]), pc[w] = "finished"
      PROVE  FileStep(e)
  <2>1. claim[w].event \in Event
    BY <1>4 DEF TypeOK, WorkersOK, Claimed
  <2>2. state'[claim[w].event] = "sent"
    BY <1>4, <2>1 DEF MarkSent, EndAttempt, TypeOK, DeliveriesOK
  <2> QED BY <1>1, <1>4, <2>1, <2>2, QueueFileStep DEF MarkSent
<1>5. CASE Finish(w)
  BY <1>2, <1>4, <1>5 DEF Finish, MarkFailed, MarkUncertain
<1>6. Clean(w) \/ Finish(w) \/ UNCHANGED mediaVars
  BY DEF WorkerStep, Start, Claim, Send, Refuse, Rejected, Accepted,
     Unknown, Return, LeaseLost, Close, Heartbeat, HeartbeatError, ledgerVars
<1> QED BY <1>2, <1>3, <1>5, <1>6

LEMMA OperatorFileStep ==
  ASSUME TypeOK, NEW o \in Operator, OperatorStep(o), NEW e \in HasMedia
  PROVE  FileStep(e)
<1>1. e \in Event /\ UNCHANGED captured
  BY LedgerAssumption DEF OperatorStep, OpBegin, OpReadRoute, OpReconcileBlocks, OpCommand,
     OpEnd, SetRoute, ImportLegacy, RebindRouteChanged, ReconcileUncertainSent,
     ReconcileUncertainRetry, AuthorizeMediaPurge, ReconcileRouteBlocks, ledgerVars
<1>2. CASE UNCHANGED mediaVars
  BY <1>1, <1>2 DEF mediaVars, FileStep
<1>3. ASSUME NEW f \in Event, ReconcileUncertainSent(f)
      PROVE  FileStep(e)
  <2>1. state'[f] = "sent"
    BY <1>3 DEF ReconcileUncertainSent, TypeOK, DeliveriesOK
  <2> QED BY <1>1, <1>3, <2>1, QueueFileStep DEF ReconcileUncertainSent
<1>4. ASSUME NEW f \in Event, AuthorizeMediaPurge(f)
      PROVE  FileStep(e)
  <2>1. media[f] = "active" => f \in purged'
    BY <1>4 DEF AuthorizeMediaPurge
  <2> QED BY <1>1, <1>4, <2>1, QueueFileStep DEF AuthorizeMediaPurge
<1>5. CASE CleanupMedia(0)
  BY <1>1, <1>5, SweepFileStep
<1>6. CASE OpCommand(o)
  BY <1>2, <1>3, <1>4, <1>5, <1>6 DEF OpCommand, SetRoute, ImportLegacy, RebindRouteChanged,
     ReconcileUncertainRetry
<1>7. OpCommand(o) \/ UNCHANGED mediaVars
  BY DEF OperatorStep, OpBegin, OpReadRoute, OpReconcileBlocks, OpEnd, ReconcileRouteBlocks,
     ledgerVars
<1> QED BY <1>2, <1>6, <1>7

LEMMA NextFileStep ==
  ASSUME TypeOK, [Next]_vars, NEW e \in HasMedia
  PROVE  FileStep(e)
<1>1. CASE UNCHANGED <<mediaVars, captured>>
  BY <1>1 DEF FileStep, mediaVars
<1>2. CASE UNCHANGED vars
  BY <1>1, <1>2 DEF vars, ledgerVars
<1>3. ASSUME NEW c, NEW topic, ProvisionRoute(c, topic) PROVE FileStep(e)
  BY <1>1, <1>3 DEF ProvisionRoute, SetRoute
<1>4. ASSUME NEW r, Apply(r) \/ Lose(r) PROVE FileStep(e)
  BY <1>1, <1>4 DEF Apply, Lose, ledgerVars
<1>5. ASSUME NEW x, Crash(x) PROVE FileStep(e)
  BY <1>1, <1>5 DEF Crash
<1>6. CASE Tick
  <2>1. mediaDue \in [Event -> Int] /\ e \in Event
    BY LedgerAssumption DEF TypeOK, MediaOK
  <2> QED BY <1>6, <2>1 DEF Tick, FileStep
<1> QED BY <1>2, <1>3, <1>4, <1>5, <1>6, ProduceFileStep, WorkerFileStep, OperatorFileStep
        DEF Next

LEMMA PurgesStay == ASSUME [Next]_vars PROVE purged \subseteq purged'
<1>1. ASSUME NEW e \in Event, Produce(e) \/ TailStep(e) PROVE UNCHANGED purged
  BY <1>1 DEF Produce, CaptureEvent, RecordEvent, TailStep, TailLooks, TailReadsRoute,
     TailHolds, TailReadsBlock, TailQueues, TailEnds, ledgerVars, mediaVars
<1>2. ASSUME NEW w \in Worker, WorkerStep(w) PROVE UNCHANGED purged
  BY <1>2 DEF WorkerStep, Start, Clean, CleanupMedia, Claim, Send, Refuse, Rejected, Accepted,
     Unknown, Return, Finish, MarkSent, MarkFailed, MarkUncertain, LeaseLost, Close,
     Heartbeat, HeartbeatError, ledgerVars, mediaVars
<1>3. ASSUME NEW o \in Operator, OperatorStep(o) PROVE purged \subseteq purged'
  BY <1>3 DEF OperatorStep, OpBegin, OpReadRoute, OpReconcileBlocks, OpCommand, OpEnd,
     SetRoute, ImportLegacy, RebindRouteChanged, ReconcileUncertainSent, CleanupMedia,
     ReconcileUncertainRetry, AuthorizeMediaPurge, ReconcileRouteBlocks, ledgerVars,
     mediaVars
<1>4. CASE UNCHANGED vars
  BY <1>4 DEF vars, ledgerVars, mediaVars
<1> QED BY <1>1, <1>2, <1>3, <1>4 DEF Next, ProvisionRoute, SetRoute, Apply, Lose, Crash, Tick,
        ledgerVars, mediaVars

LEMMA InventoryCorrect == Spec => []FilesAreInventoried
<1>1. Init => FilesAreInventoried
  BY LedgerAssumption DEF Init, LedgerInit, FilesAreInventoried
<1>2. TypeOK /\ AttemptInvariant /\ FilesAreInventoried /\ [Next]_vars => FilesAreInventoried'
  <2> SUFFICES ASSUME TypeOK, AttemptInvariant, FilesAreInventoried, [Next]_vars,
                      NEW e \in HasMedia
               PROVE  /\ e \notin captured' => media'[e] = "none"
                      /\ e \in captured' =>
                           /\ media'[e] = "active" => file'[e]
                           /\ media'[e] # "active" => state'[e] = "sent" \/ e \in purged'
    BY DEF FilesAreInventoried
  <2>1. FileStep(e)
    BY NextFileStep
  <2>2. state[e] = "sent" \/ e \in purged => state'[e] = "sent" \/ e \in purged'
    BY RowsStay, PurgesStay, LedgerAssumption
  <2>3. /\ e \notin captured => media[e] = "none"
        /\ e \in captured => /\ media[e] = "active" => file[e]
                             /\ media[e] # "active" => state[e] = "sent" \/ e \in purged
    BY DEF FilesAreInventoried
  <2> QED BY <2>1, <2>2, <2>3 DEF FileStep
<1> QED BY <1>1, <1>2, TypeCorrect, AttemptsCorrect, PTL DEF Spec

(* A spool file is missing only when its event is sent or purged.          *)
THEOREM RemovalIsJustified == Spec => []MediaRemovalIsJustified
<1>1. FilesAreInventoried => MediaRemovalIsJustified
  BY DEF FilesAreInventoried, MediaRemovalIsJustified
<1> QED BY <1>1, InventoryCorrect, PTL

-----------------------------------------------------------------------------
(* Sending is serial while every call finishes, or is renewed, in time.    *)

(* A worker past its claim owns a lease with time left, and one on its way *)
(* to a claim uses a clock reading at most MaxStall seconds old.           *)
ClaimsAreTimely ==
  \A w \in Worker :
    /\ pc[w] = "idle" => stamp[w] = 0
    /\ pc[w] \in PreClaim => stamp[w] \in -MaxStall..0
    /\ pc[w] \in Claimed => /\ lease[claim[w].event].owner = w
                            /\ lease[claim[w].event].expires >= 1

(* A step that touches no lease and lets no worker into a claim.           *)
LEMMA SameLeases ==
  ASSUME TypeOK, ClaimsAreTimely, UNCHANGED <<lease, stamp>>,
         \A w \in Worker :
           /\ pc'[w] \in Claimed => pc[w] \in Claimed /\ claim'[w] = claim[w]
           /\ pc'[w] \in PreClaim => pc[w] \in PreClaim \cup {"idle"}
           /\ pc'[w] = "idle" => pc[w] = "idle"
  PROVE  ClaimsAreTimely'
BY WorkerAssumption DEF ClaimsAreTimely, PreClaim, Claimed

(* A worker that goes idle lets the others be.                             *)
LEMMA IdleIsTimely ==
  ASSUME TypeOK, ClaimsAreTimely, NEW w \in Worker, Idle(w),
         \A v \in Worker : v # w /\ pc[v] \in Claimed =>
           lease'[claim[v].event] = lease[claim[v].event]
  PROVE  ClaimsAreTimely'
<1>1. /\ pc'[w] = "idle" /\ stamp'[w] = 0
      /\ \A v \in Worker : v # w => /\ pc'[v] = pc[v] /\ stamp'[v] = stamp[v]
                                    /\ claim'[v] = claim[v]
  BY DEF Idle, TypeOK, WorkersOK
<1> QED BY <1>1 DEF ClaimsAreTimely, PreClaim, Claimed

LEMMA ClaimIsTimely ==
  ASSUME MaxStall < LeaseSeconds, TypeOK, ClaimsAreTimely, NEW w \in Worker, Claim(w)
  PROVE  ClaimsAreTimely'
<1>1. /\ stamp[w] \in -MaxStall..0 /\ stamp[w] \in Int /\ MaxStall \in Nat
      /\ LeaseSeconds \in Nat
  BY LedgerAssumption, WorkerAssumption DEF Claim, PreClaim, ClaimsAreTimely, TypeOK, WorkersOK
<1>2. ASSUME NEW v \in Worker, pc[v] \in Claimed
      PROVE  /\ claim[v].event \in Event /\ HasLease(claim[v].event)
             /\ ~Expired(claim[v].event, stamp[w])
  <2>1. None \notin Worker /\ NoRow.owner = None
    BY LedgerAssumption, WorkerAssumption DEF NoRow
  <2>2. claim[v].event \in Event
    BY <1>2 DEF TypeOK, WorkersOK
  <2>3. HasLease(claim[v].event)
    BY <1>2, <2>1 DEF ClaimsAreTimely
  <2>4. lease[claim[v].event].expires \in Int
    BY <2>2 DEF TypeOK, DeliveriesOK, Hold
  <2> QED BY <1>1, <1>2, <2>2, <2>3, <2>4 DEF Expired, ClaimsAreTimely
<1>3. CASE /\ ClaimBusy(stamp[w]) \/ ClaimNothing(WorkerProfile[w], stamp[w])
           /\ Idle(w)
  <2>1. lease' = ExpiredLeases(stamp[w])
    BY <1>3 DEF ClaimBusy, ClaimNothing
  <2>2. \A v \in Worker : pc[v] \in Claimed => lease'[claim[v].event] = lease[claim[v].event]
    BY <1>2, <2>1 DEF ExpiredLeases
  <2> QED BY <1>3, <2>2, IdleIsTimely
<1>4. ASSUME NEW e \in Event, ClaimEvent(e, WorkerProfile[w], w, stamp[w]),
             pc' = [pc EXCEPT ![w] = "claimed"], stamp' = stamp,
             claim' = [claim EXCEPT ![w] = [event |-> e, attempt |-> attempts[e] + 1]]
      PROVE  ClaimsAreTimely'
  <2>1. \A v \in Worker : pc[v] \notin Claimed
    BY <1>2, <1>4 DEF ClaimEvent, Busy
  <2>2. lease'[e] = [owner |-> w, expires |-> stamp[w] + LeaseSeconds]
    BY <1>4 DEF ClaimEvent, ExpiredLeases
  <2>3. lease'[e].owner = w /\ lease'[e].expires >= 1
    BY <1>1, <2>2
  <2>4. /\ pc'[w] = "claimed" /\ claim'[w].event = e
        /\ \A v \in Worker : v # w => pc'[v] = pc[v]
    BY <1>4 DEF TypeOK, WorkersOK
  <2> QED BY <1>4, <2>1, <2>3, <2>4 DEF ClaimsAreTimely, PreClaim, Claimed
<1> QED BY <1>3, <1>4 DEF Claim

LEMMA FinishIsTimely ==
  ASSUME TypeOK, ClaimsAreTimely, NEW w \in Worker, Finish(w)
  PROVE  ClaimsAreTimely'
<1>1. pc[w] = "finished" /\ claim[w].event \in Event /\ lease[claim[w].event].owner = w
  BY DEF Finish, Claimed, TypeOK, WorkersOK, ClaimsAreTimely
<1>2. lease' = [lease EXCEPT ![claim[w].event] = NoRow]
  BY DEF Finish, MarkSent, MarkFailed, MarkUncertain, EndAttempt
<1>3. ASSUME NEW v \in Worker, v # w, pc[v] \in Claimed
      PROVE  lease'[claim[v].event] = lease[claim[v].event]
  <2>1. lease[claim[v].event].owner = v /\ claim[v].event # claim[w].event
    BY <1>1, <1>3 DEF ClaimsAreTimely
  <2> QED BY <1>2, <2>1 DEF TypeOK, DeliveriesOK
<1>4. CASE Idle(w)
  BY <1>3, <1>4, IdleIsTimely
<1>5. CASE /\ pc' = [pc EXCEPT ![w] = "sweeping"] /\ UNCHANGED stamp
           /\ claim' = [claim EXCEPT ![w] = NoClaim]
  <2>1. /\ pc'[w] = "sweeping"
        /\ \A v \in Worker : v # w => pc'[v] = pc[v] /\ claim'[v] = claim[v]
    BY <1>5 DEF TypeOK, WorkersOK
  <2> QED BY <1>3, <1>5, <2>1 DEF ClaimsAreTimely, PreClaim, Claimed
<1> QED BY <1>4, <1>5 DEF Finish

LEMMA HeartbeatIsTimely ==
  ASSUME TypeOK, ClaimsAreTimely, NEW w \in Worker, Heartbeat(w)
  PROVE  ClaimsAreTimely'
<1>1. UNCHANGED <<pc, stamp, claim>> /\ LeaseSeconds \in Nat
  BY LedgerAssumption DEF Heartbeat
<1>2. ASSUME NEW e \in Event, lease[e].expires >= 1, lease[e].owner \in Worker
      PROVE  lease'[e].owner = lease[e].owner /\ lease'[e].expires >= 1
  <2>1. lease \in [Event -> [owner : Owner \cup {None}, expires : Int]]
    BY DEF TypeOK, DeliveriesOK, Hold
  <2>2. CASE lease' = [lease EXCEPT ![claim[w].event].expires = LeaseSeconds + 1]
    BY <1>1, <1>2, <2>1, <2>2
  <2>3. CASE lease' = lease
    BY <1>2, <2>3
  <2> QED BY <2>2, <2>3 DEF Heartbeat, RenewDeliveryLease
<1>3. \A v \in Worker : pc[v] \in Claimed => claim[v].event \in Event
  BY DEF TypeOK, WorkersOK
<1> QED BY <1>1, <1>2, <1>3 DEF ClaimsAreTimely

LEMMA WorkerStepIsTimely ==
  ASSUME MaxStall < LeaseSeconds, TypeOK, ClaimsAreTimely, NEW w \in Worker, WorkerStep(w)
  PROVE  ClaimsAreTimely'
<1>1. pc \in [Worker -> {"idle", "sweeping"} \cup PreClaim \cup Claimed]
  BY DEF TypeOK, WorkersOK
<1>2. CASE Start(w)
  BY <1>1, <1>2, SameLeases DEF Start, deliveryVars, PreClaim, Claimed
<1>3. CASE Clean(w) /\ Idle(w)
  BY <1>3, IdleIsTimely DEF Clean, deliveryVars
<1>4. CASE /\ Clean(w) /\ pc[w] = "cleaning" /\ pc' = [pc EXCEPT ![w] = "claiming"]
           /\ UNCHANGED <<stamp, claim>>
  BY <1>1, <1>4, SameLeases DEF Clean, deliveryVars, PreClaim, Claimed
<1>5. CASE Send(w)
  BY <1>1, <1>5, SameLeases DEF Send, ledgerVars, deliveryVars, PreClaim, Claimed
<1>6. ASSUME NEW how, Return(w, how), pc[w] \in {"claimed", "sending"}
      PROVE  ClaimsAreTimely'
  BY <1>1, <1>6, SameLeases DEF Return, ledgerVars, deliveryVars, PreClaim, Claimed
<1>7. CASE LeaseLost(w)
  BY <1>7, IdleIsTimely DEF LeaseLost, deliveryVars
<1>8. CASE Close(w) \/ HeartbeatError(w)
  BY <1>8, SameLeases DEF Close, HeartbeatError, ledgerVars, deliveryVars, workerVars
<1>9. CASE Refuse(w) \/ Rejected(w) \/ Accepted(w) \/ Unknown(w)
  BY <1>6, <1>9 DEF Refuse, Rejected, Accepted, Unknown
<1>10. CASE Clean(w)
  BY <1>3, <1>4, <1>10 DEF Clean
<1> QED BY <1>2, <1>5, <1>7, <1>8, <1>9, <1>10, ClaimIsTimely, FinishIsTimely,
           HeartbeatIsTimely DEF WorkerStep

LEMMA CrashIsTimely ==
  ASSUME TypeOK, ClaimsAreTimely, NEW x \in Process, Crash(x)
  PROVE  ClaimsAreTimely'
<1>1. \A v \in Worker : v # x /\ pc[v] \in Claimed =>
        claim[v].event \in Event /\ lease'[claim[v].event] = lease[claim[v].event]
  BY DEF Crash, Orphan, ClaimsAreTimely, TypeOK, WorkersOK
<1>2. CASE x \in Worker /\ Idle(x)
  BY <1>1, <1>2, IdleIsTimely
<1>3. CASE x \in Operator /\ UNCHANGED workerVars
  <2>1. x \notin Worker
    BY <1>3, WorkerAssumption
  <2> QED BY <1>1, <1>3, <2>1 DEF ClaimsAreTimely, workerVars
<1> QED BY <1>2, <1>3 DEF Crash

LEMMA TickIsTimely ==
  ASSUME Timely, TypeOK, ClaimsAreTimely, Tick
  PROVE  ClaimsAreTimely'
<1> SUFFICES ASSUME NEW w \in Worker
             PROVE  /\ pc[w] = "idle" => stamp'[w] = 0
                    /\ pc[w] \in PreClaim => stamp'[w] \in -MaxStall..0
                    /\ pc[w] \in Claimed => /\ lease'[claim[w].event].owner = w
                                            /\ lease'[claim[w].event].expires >= 1
  BY DEF ClaimsAreTimely, Tick
<1>1. stamp[w] \in Int /\ MaxStall \in Nat /\ Horizon \in Nat /\ MaxStall < Horizon
  BY LedgerAssumption, WorkerAssumption DEF TypeOK, WorkersOK
<1>2. pc[w] = "idle" => stamp'[w] = 0
  BY DEF Tick
<1>3. ASSUME pc[w] \in PreClaim PROVE stamp'[w] \in -MaxStall..0
  <2>1. stamp[w] \in -MaxStall..0 /\ stamp[w] > -MaxStall /\ stamp'[w] = Earlier(stamp[w])
    BY <1>3 DEF Tick, ClaimsAreTimely, PreClaim
  <2> QED BY <1>1, <2>1 DEF Earlier
<1>4. ASSUME pc[w] \in Claimed
      PROVE  lease'[claim[w].event].owner = w /\ lease'[claim[w].event].expires >= 1
  <2> DEFINE row == lease[claim[w].event]
  <2>1. claim[w].event \in Event /\ row \in Hold
    BY <1>4 DEF TypeOK, WorkersOK, DeliveriesOK
  <2>2. row.owner = w /\ row.expires > 1
    BY <1>4 DEF Tick, ClaimsAreTimely
  <2>3. lease'[claim[w].event] = Older(row)
    BY <2>1 DEF Tick
  <2>4. row \in [owner : Owner \cup {None}, expires : Int] /\ row # NoRow
    <3>1. NoRow.expires = 0
      BY DEF NoRow
    <3> QED BY <2>1, <2>2, <3>1 DEF Hold
  <2> HIDE DEF row
  <2>5. Older(row).owner = w /\ Older(row).expires = row.expires - 1
    BY <1>1, <2>2, <2>4 DEF Older, Earlier
  <2> QED BY <2>2, <2>3, <2>4, <2>5
<1> QED BY <1>2, <1>3, <1>4

LEMMA TimelyClaims ==
  ASSUME Timely, MaxStall < LeaseSeconds
  PROVE  Spec => []ClaimsAreTimely
<1>1. Init => ClaimsAreTimely
  BY DEF Init, ClaimsAreTimely, PreClaim, Claimed
<1>2. TypeOK /\ ClaimsAreTimely /\ [Next]_vars => ClaimsAreTimely'
  <2> SUFFICES ASSUME TypeOK, ClaimsAreTimely, [Next]_vars PROVE ClaimsAreTimely'
    OBVIOUS
  <2>1. CASE UNCHANGED <<lease, stamp, pc, claim>>
    BY <2>1, SameLeases
  <2>2. CASE UNCHANGED vars
    BY <2>1, <2>2 DEF vars, ledgerVars, deliveryVars, workerVars
  <2>3. ASSUME NEW e \in Event, Produce(e) \/ TailStep(e) PROVE ClaimsAreTimely'
    BY <2>1, <2>3 DEF Produce, CaptureEvent, RecordEvent, Enqueue, InsertDelivery, TailStep,
       TailLooks, TailReadsRoute, TailHolds, TailReadsBlock, TailQueues, TailEnds, ledgerVars,
       deliveryVars, workerVars
  <2>4. ASSUME NEW o \in Operator, OperatorStep(o) PROVE ClaimsAreTimely'
    BY <2>1, <2>4 DEF OperatorStep, OpBegin, OpReadRoute, OpReconcileBlocks, OpCommand, OpEnd,
       SetRoute, ImportLegacy, RebindRouteChanged, ReconcileUncertainSent,
       ReconcileUncertainRetry, AuthorizeMediaPurge, ReconcileRouteBlocks, InsertDelivery,
       ledgerVars, deliveryVars, workerVars
  <2>5. ASSUME NEW c, NEW topic, ProvisionRoute(c, topic) PROVE ClaimsAreTimely'
    BY <2>1, <2>5 DEF ProvisionRoute, SetRoute, deliveryVars, workerVars
  <2>6. ASSUME NEW r, Apply(r) \/ Lose(r) PROVE ClaimsAreTimely'
    BY <2>1, <2>6 DEF Apply, Lose, ledgerVars, deliveryVars, workerVars
  <2> QED BY <2>2, <2>3, <2>4, <2>5, <2>6, WorkerStepIsTimely, CrashIsTimely, TickIsTimely
          DEF Next
<1> QED BY <1>1, <1>2, TypeCorrect, PTL DEF Spec

(* While no call outlives its lease without a heartbeat, and a clock       *)
(* reading is younger than a lease when it is used, one worker at a time   *)
(* has a request out, of whatever profile: docs/ARCHITECTURE.md, WIP=1.    *)
THEOREM SendsAreSerial ==
  ASSUME Timely, MaxStall < LeaseSeconds
  PROVE  Spec => []NoConcurrentSends
<1>1. TypeOK /\ AttemptInvariant /\ ClaimsAreTimely => NoConcurrentSends
  <2> SUFFICES ASSUME TypeOK, AttemptInvariant, ClaimsAreTimely,
                      NEW v \in Worker, NEW w \in Worker,
                      pc[v] = "sending", pc[w] = "sending"
               PROVE  v = w
    BY DEF NoConcurrentSends
  <2>1. /\ claim[v].event \in Event /\ lease[claim[v].event].owner = v
        /\ claim[w].event \in Event /\ lease[claim[w].event].owner = w
    BY DEF TypeOK, WorkersOK, ClaimsAreTimely, Claimed
  <2>2. None \notin Worker /\ NoRow.owner = None
    BY LedgerAssumption, WorkerAssumption DEF NoRow
  <2>3. claim[v].event = claim[w].event
    BY <2>1, <2>2 DEF AttemptInvariant, LeaseIsTheInflightDelivery
  <2> QED BY <2>1, <2>3
<1> QED BY <1>1, TypeCorrect, AttemptsCorrect, TimelyClaims, PTL
=============================================================================
