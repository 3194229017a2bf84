----------------------------- MODULE MirrorTypes -----------------------------
(***************************************************************************)
(* Type correctness of MirrorWorker, for every set of events, profiles,    *)
(* workers and operators and every duration.  One lemma per ledger         *)
(* transaction, then one step per action of Next.                          *)
(***************************************************************************)
EXTENDS MirrorWorker, SequenceTheorems, TLAPS

-----------------------------------------------------------------------------
(* Sequences of outcomes.                                                  *)

LEMMA UpdateOutcome ==
  ASSUME NEW log \in Seq(Outcome), NEW k, NEW r \in Outcome
  PROVE  /\ [log EXCEPT ![k] = r] \in Seq(Outcome)
         /\ DOMAIN [log EXCEPT ![k] = r] = DOMAIN log
         /\ Len([log EXCEPT ![k] = r]) = Len(log)
<1>1. CASE k \in 1..Len(log)
  BY <1>1, ExceptSeq
<1>2. CASE k \notin 1..Len(log)
  <2>1. [log EXCEPT ![k] = r] = log
    BY <1>2
  <2> QED BY <2>1
<1> QED BY <1>1, <1>2

LEMMA SettleType ==
  ASSUME NEW log \in Seq(Outcome)
  PROVE  /\ Settle(log) \in Seq(Outcome)
         /\ Len(Settle(log)) = Len(log)
         /\ \A k \in 1..Len(log) :
              Settle(log)[k] = IF log[k] = "started" THEN "uncertain" ELSE log[k]
BY DEF Settle, Outcome

LEMMA DelayType ==
  ASSUME NEW n \in Nat
  PROVE  Delay(n) \in 0..MaxBackoff
<1> MaxBackoff \in Nat
  BY LedgerAssumption
<1> DEFINE doubled == BaseBackoff * 2 ^ (n - 1)
<1>1. Delay(n) = IF doubled \in 0..MaxBackoff THEN doubled ELSE MaxBackoff
  BY DEF Delay
<1> HIDE DEF doubled
<1> QED BY <1>1

-----------------------------------------------------------------------------
(* Timestamps and leases.                                                  *)

LEMMA EarlierType ==
  ASSUME NEW x \in Int
  PROVE  Earlier(x) \in Int
BY LedgerAssumption DEF Earlier

LEMMA OlderType ==
  ASSUME NEW row \in Hold
  PROVE  Older(row) \in Hold
BY EarlierType DEF Older, Hold

LEMMA RowTypes ==
  /\ NoRow \in Hold
  /\ \A o \in Owner, x \in Int : [owner |-> o, expires |-> x] \in Hold
  /\ \A row \in Hold : row.owner \in Owner \cup {None} /\ row.expires \in Int
  /\ Worker \cup Operator \cup {Gone} \subseteq Owner
BY WorkerAssumption DEF NoRow, Hold

(* The transactions on the runtime locks.                                  *)
LEMMA RuntimeLockType ==
  ASSUME runtimeLock \in [Profile -> Hold],
         NEW p \in Profile, NEW o \in Owner,
         \/ AcquireRuntimeLock(p, o, 0)
         \/ RenewRuntimeLock(p, o)
         \/ ReleaseRuntimeLock(p, o)
  PROVE  runtimeLock' \in [Profile -> Hold]
<1> RuntimeLockSeconds \in Nat
  BY LedgerAssumption
<1>1. \A q \in Profile : LiveLock(q, 0) \in Hold
  BY RowTypes DEF LiveLock
<1>2. CASE AcquireRuntimeLock(p, o, 0)
  BY <1>1, <1>2, RowTypes DEF AcquireRuntimeLock
<1>3. CASE RenewRuntimeLock(p, o)
  BY <1>3 DEF RenewRuntimeLock, Hold
<1>4. CASE ReleaseRuntimeLock(p, o)
  BY <1>4, RowTypes DEF ReleaseRuntimeLock
<1> QED BY <1>2, <1>3, <1>4

-----------------------------------------------------------------------------
(* The transactions on the deliveries.                                     *)

LEMMA InsertDeliveryType ==
  ASSUME DeliveriesOK, NEW E, NEW topic \in Topic \cup {None}, InsertDelivery(E, topic)
  PROVE  DeliveriesOK'
BY DEF DeliveriesOK, InsertDelivery, DeliveryState

(* What a claim finds expired, and what it finds off its route.            *)
LEMMA ExpiryTypes ==
  ASSUME DeliveriesOK, NEW t
  PROVE  /\ ExpiredState(t) \in [Event -> DeliveryState \cup {"none"}]
         /\ RoutedState(t) \in [Event -> DeliveryState \cup {"none"}]
         /\ ExpiredLeases(t) \in [Event -> Hold]
         /\ ExpiredLogs(t) \in [Event -> Seq(Outcome)]
<1>1. ExpiredState(t) \in [Event -> DeliveryState \cup {"none"}]
  BY DEF DeliveriesOK, ExpiredState, DeliveryState
<1>2. RoutedState(t) \in [Event -> DeliveryState \cup {"none"}]
  BY <1>1 DEF RoutedState, DeliveryState
<1>3. ExpiredLeases(t) \in [Event -> Hold]
  BY RowTypes DEF DeliveriesOK, ExpiredLeases
<1>4. ExpiredLogs(t) \in [Event -> Seq(Outcome)]
  BY SettleType DEF DeliveriesOK, ExpiredLogs
<1> QED BY <1>1, <1>2, <1>3, <1>4

LEMMA ClaimEmptyType ==
  ASSUME DeliveriesOK, NEW p, NEW t, ClaimBusy(t) \/ ClaimNothing(p, t)
  PROVE  DeliveriesOK'
BY ExpiryTypes DEF DeliveriesOK, ClaimBusy, ClaimNothing

LEMMA ClaimEventType ==
  ASSUME DeliveriesOK, NEW e \in Event, NEW p, NEW o \in Owner, NEW t \in Int,
         ClaimEvent(e, p, o, t)
  PROVE  DeliveriesOK'
<1>1. [owner |-> o, expires |-> t + LeaseSeconds] \in Hold
  BY RowTypes, LedgerAssumption
<1>2. Append(ExpiredLogs(t)[e], "started") \in Seq(Outcome)
  BY ExpiryTypes, AppendProperties DEF Outcome
<1>3. /\ state' \in [Event -> DeliveryState \cup {"none"}]
      /\ lease' \in [Event -> Hold]
      /\ outcome' \in [Event -> Seq(Outcome)]
  BY <1>1, <1>2, ExpiryTypes DEF ClaimEvent, DeliveryState
<1> QED BY <1>3 DEF ClaimEvent, DeliveriesOK

LEMMA RenewLeaseType ==
  ASSUME lease \in [Event -> Hold], NEW e, NEW o, RenewDeliveryLease(e, o)
  PROVE  lease' \in [Event -> Hold]
<1>1. LeaseSeconds + 1 \in Int
  BY LedgerAssumption
<1>2. CASE lease' = lease
  BY <1>2
<1>3. CASE lease' = [lease EXCEPT ![e].expires = LeaseSeconds + 1]
  <2>1. CASE e \in Event
    BY <1>1, <1>3, <2>1 DEF Hold
  <2>2. CASE e \notin Event
    BY <1>3, <2>2
  <2> QED BY <2>1, <2>2
<1> QED BY <1>2, <1>3 DEF RenewDeliveryLease

LEMMA EndAttemptType ==
  ASSUME DeliveriesOK, NEW c \in [event : Event, attempt : Nat],
         NEW r \in {"sent", "retry", "dead", "uncertain"}, EndAttempt(c, r)
  PROVE  /\ state' \in [Event -> DeliveryState \cup {"none"}]
         /\ target' \in [Event -> Topic \cup {None}]
         /\ attempts' \in [Event -> Nat]
         /\ outcome' \in [Event -> Seq(Outcome)]
         /\ lease' \in [Event -> Hold]
<1>1. [outcome[c.event] EXCEPT ![c.attempt] = r] \in Seq(Outcome)
  BY UpdateOutcome DEF DeliveriesOK, Outcome
<1>2. outcome' \in [Event -> Seq(Outcome)]
  BY <1>1 DEF DeliveriesOK, EndAttempt
<1> QED BY <1>2, RowTypes DEF DeliveriesOK, EndAttempt, DeliveryState

LEMMA QueueCleanupType ==
  ASSUME MediaOK, NEW e, NEW due \in Int, QueueCleanup(e, due)
  PROVE  /\ media' \in [Event -> {"none", "active", "cleanup_pending"}]
         /\ mediaDue' \in [Event -> Int]
         /\ file' \in [Event -> BOOLEAN]
BY DEF MediaOK, QueueCleanup

LEMMA MarkType ==
  ASSUME DeliveriesOK, MediaOK, NEW c \in [event : Event, attempt : Nat],
         NEW o, NEW t \in Int,
         \/ MarkSent(c, o, t)
         \/ \E permanent \in BOOLEAN : MarkFailed(c, o, t, permanent)
         \/ MarkUncertain(c, o)
  PROVE  DeliveriesOK' /\ MediaOK'
<1>1. CASE MarkSent(c, o, t)
  <2>1. t + RetentionSeconds \in Int
    BY LedgerAssumption
  <2> QED BY <1>1, <2>1, EndAttemptType, QueueCleanupType DEF MarkSent, DeliveriesOK, MediaOK
<1>2. ASSUME NEW permanent \in BOOLEAN, MarkFailed(c, o, t, permanent)
      PROVE  DeliveriesOK' /\ MediaOK'
  <2>1. t + Delay(c.attempt) \in Int
    BY DelayType, LedgerAssumption
  <2> DEFINE r == IF permanent \/ c.attempt >= MaxAttempts THEN "dead" ELSE "retry"
  <2>2. r \in {"sent", "retry", "dead", "uncertain"} /\ EndAttempt(c, r)
    BY <1>2 DEF MarkFailed
  <2>3. nextAttempt' \in [Event -> Int]
    BY <1>2, <2>1 DEF MarkFailed, DeliveriesOK
  <2>4. MediaOK'
    BY <1>2 DEF MarkFailed, MediaOK, mediaVars
  <2> HIDE DEF r
  <2> QED BY <2>2, <2>3, <2>4, EndAttemptType DEF DeliveriesOK
<1>3. CASE MarkUncertain(c, o)
  BY <1>3, EndAttemptType DEF MarkUncertain, DeliveriesOK, MediaOK, mediaVars
<1> QED BY <1>1, <1>2, <1>3

LEMMA CleanupMediaType ==
  ASSUME MediaOK, NEW t \in Int, CleanupMedia(t)
  PROVE  MediaOK'
<1>1. t + CleanupRetrySeconds \in Int
  BY LedgerAssumption
<1> QED BY <1>1 DEF MediaOK, CleanupMedia

-----------------------------------------------------------------------------
(* Capture and the operator's transactions.                                *)

LEMMA EnqueueType ==
  ASSUME DeliveriesOK, TablesOK, NEW e \in Event, Enqueue(e)
  PROVE  /\ DeliveriesOK'
         /\ block' \in [Event -> {"none", "blocked_no_route", "requeued"}]
<1> DEFINE r == route[ConversationOf[e]]
<1>1. r.topic \in Topic \cup {None}
  BY LedgerAssumption DEF TablesOK
<1>2. CASE UNCHANGED <<block, deliveryVars>>
  BY <1>2 DEF DeliveriesOK, TablesOK, deliveryVars
<1>3. CASE /\ block' = [block EXCEPT ![e] = "blocked_no_route"]
           /\ UNCHANGED deliveryVars
  BY <1>3 DEF DeliveriesOK, TablesOK, deliveryVars
<1>4. CASE InsertDelivery({e}, r.topic) /\ UNCHANGED block
  BY <1>1, <1>4, InsertDeliveryType DEF TablesOK
<1> QED BY <1>2, <1>3, <1>4 DEF Enqueue

LEMMA CaptureType ==
  ASSUME DeliveriesOK, MediaOK, TablesOK, NEW e \in Event,
         CaptureEvent(e) \/ RecordEvent(e)
  PROVE  DeliveriesOK' /\ MediaOK' /\ TablesOK'
<1>1. CASE CaptureEvent(e)
  BY <1>1, EnqueueType DEF CaptureEvent, MediaOK, TablesOK
<1>2. CASE RecordEvent(e)
  BY <1>2 DEF RecordEvent, DeliveriesOK, MediaOK, TablesOK, deliveryVars, mediaVars
<1> QED BY <1>1, <1>2

LEMMA SetRouteType ==
  ASSUME DeliveriesOK, MediaOK, TablesOK, UNCHANGED runtimeLock,
         NEW c \in Conversation, NEW topic \in Topic,
         \/ \E enabled \in BOOLEAN : SetRoute(c, topic, enabled)
         \/ \E E \in SUBSET Event : ImportLegacy(c, topic, E)
  PROVE  DeliveriesOK' /\ MediaOK' /\ TablesOK'
<1>1. \A enabled \in BOOLEAN : [topic |-> topic, enabled |-> enabled]
                               \in [topic : Topic \cup {None}, enabled : BOOLEAN]
  OBVIOUS
<1>2. route' \in [Conversation -> [topic : Topic \cup {None}, enabled : BOOLEAN]]
  BY <1>1 DEF SetRoute, ImportLegacy, TablesOK
<1>3. legacy' \in SUBSET Event
  BY DEF SetRoute, ImportLegacy, TablesOK
<1>4. UNCHANGED <<captured, block, deliveryVars, audit, mediaVars>>
  BY DEF SetRoute, ImportLegacy
<1> QED BY <1>2, <1>3, <1>4 DEF DeliveriesOK, MediaOK, TablesOK, deliveryVars, mediaVars

LEMMA AuditType ==
  ASSUME DeliveriesOK, NEW e \in Event, NEW r \in Resolution
  PROVE  Audit(e, r) \in [event : Event, attempt : Nat, resolution : Resolution]
BY DEF DeliveriesOK, Audit

LEMMA ReconcileBlocksType ==
  ASSUME DeliveriesOK, MediaOK, TablesOK, UNCHANGED runtimeLock,
         NEW c, NEW topic \in Topic \cup {None}, ReconcileRouteBlocks(c, topic)
  PROVE  DeliveriesOK' /\ MediaOK' /\ TablesOK'
<1>1. DeliveriesOK'
  BY InsertDeliveryType DEF ReconcileRouteBlocks
<1>2. MediaOK' /\ TablesOK'
  BY DEF ReconcileRouteBlocks, MediaOK, TablesOK, mediaVars
<1> QED BY <1>1, <1>2

LEMMA ReconcileType ==
  ASSUME DeliveriesOK, MediaOK, TablesOK, UNCHANGED runtimeLock, NEW e \in Event,
         \/ ReconcileUncertainSent(e)
         \/ ReconcileUncertainRetry(e)
         \/ AuthorizeMediaPurge(e)
  PROVE  DeliveriesOK' /\ MediaOK' /\ TablesOK'
<1>1. CASE ReconcileUncertainSent(e)
  <2>1. Audit(e, "uncertain_mark_sent") \in [event : Event, attempt : Nat, resolution : Resolution]
    BY AuditType DEF Resolution
  <2> QED BY <1>1, <2>1, QueueCleanupType
          DEF ReconcileUncertainSent, DeliveriesOK, MediaOK, TablesOK, DeliveryState
<1>2. CASE ReconcileUncertainRetry(e)
  <2>1. Audit(e, "uncertain_retry") \in [event : Event, attempt : Nat, resolution : Resolution]
    BY AuditType DEF Resolution
  <2> QED BY <1>2, <2>1
          DEF ReconcileUncertainRetry, DeliveriesOK, MediaOK, TablesOK, DeliveryState, mediaVars
<1>3. CASE AuthorizeMediaPurge(e)
  BY <1>3, QueueCleanupType
     DEF AuthorizeMediaPurge, DeliveriesOK, MediaOK, TablesOK, deliveryVars
<1> QED BY <1>1, <1>2, <1>3

LEMMA RebindType ==
  ASSUME DeliveriesOK, MediaOK, TablesOK, UNCHANGED runtimeLock,
         NEW c \in Conversation, RebindRouteChanged(c)
  PROVE  DeliveriesOK' /\ MediaOK' /\ TablesOK'
<1>1. \A e \in Event : Audit(e, "route_rebind")
         \in [event : Event, attempt : Nat, resolution : Resolution]
  BY AuditType DEF Resolution
<1>2. route[c].topic \in Topic \cup {None}
  BY DEF TablesOK
<1>3. audit' \in SUBSET [event : Event, attempt : Nat, resolution : Resolution]
  BY <1>1 DEF RebindRouteChanged, TablesOK
<1> QED BY <1>2, <1>3
        DEF RebindRouteChanged, DeliveriesOK, MediaOK, TablesOK, DeliveryState, mediaVars

-----------------------------------------------------------------------------
(* The processes.                                                          *)

LEMMA IdleType ==
  ASSUME WorkersOK, NEW w \in Worker, Idle(w)
  PROVE  WorkersOK'
BY DEF WorkersOK, Idle, NoClaim, PreClaim, Claimed

LEMMA ReturnType ==
  ASSUME WorkersOK, NEW w \in Worker, pc[w] \in Claimed,
         NEW how \in {"ok", "retryable", "rejected", "unknown", "policy"}, Return(w, how)
  PROVE  WorkersOK' /\ UNCHANGED <<ledgerVars, opVars, tail, crashes>>
BY DEF WorkersOK, Return, PreClaim, Claimed

LEMMA ClaimRecord ==
  ASSUME WorkersOK, NEW w \in Worker, pc[w] \in Claimed
  PROVE  claim[w] \in [event : Event, attempt : Nat]
BY DEF WorkersOK

(* What each group of unchanged variables keeps.                           *)
LEMMA Kept ==
  ASSUME TypeOK
  PROVE  /\ UNCHANGED deliveryVars => DeliveriesOK'
         /\ UNCHANGED mediaVars => MediaOK'
         /\ UNCHANGED <<captured, legacy, route, block, runtimeLock, audit>> => TablesOK'
         /\ UNCHANGED ledgerVars => DeliveriesOK' /\ MediaOK' /\ TablesOK'
         /\ UNCHANGED workerVars => WorkersOK'
         /\ UNCHANGED <<opVars, crashes>> => OperatorsOK'
         /\ UNCHANGED netVars => NetworkOK'
         /\ UNCHANGED tail => TailOK'
<1>1. UNCHANGED deliveryVars => DeliveriesOK'
  BY DEF TypeOK, DeliveriesOK, deliveryVars
<1>2. UNCHANGED mediaVars => MediaOK'
  BY DEF TypeOK, MediaOK, mediaVars
<1>3. UNCHANGED <<captured, legacy, route, block, runtimeLock, audit>> => TablesOK'
  BY DEF TypeOK, TablesOK
<1>4. UNCHANGED ledgerVars => DeliveriesOK' /\ MediaOK' /\ TablesOK'
  BY <1>1, <1>2, <1>3 DEF ledgerVars
<1>5. UNCHANGED workerVars => WorkersOK'
  BY DEF TypeOK, WorkersOK, workerVars
<1>6. UNCHANGED <<opVars, crashes>> => OperatorsOK'
  BY DEF TypeOK, OperatorsOK, opVars
<1>7. UNCHANGED netVars => NetworkOK'
  BY DEF TypeOK, NetworkOK, netVars
<1>8. UNCHANGED tail => TailOK'
  BY DEF TypeOK, TailOK
<1> QED BY <1>1, <1>2, <1>3, <1>4, <1>5, <1>6, <1>7, <1>8

(* The statements of the tail's enqueue.                                   *)
LEMMA TailStepType ==
  ASSUME TypeOK, NEW e \in Event, TailStep(e)
  PROVE  TypeOK'
<1>1. /\ DeliveriesOK /\ MediaOK /\ TablesOK /\ TailOK
      /\ WorkersOK' /\ OperatorsOK' /\ NetworkOK'
  BY Kept DEF TypeOK, TailStep
<1>2. TailOK'
  <2>1. /\ ConversationOf[e] \in Conversation
        /\ route[ConversationOf[e]].topic \in Topic \cup {None}
    BY <1>1, LedgerAssumption DEF TablesOK
  <2>2. NoCall \in [at : {"idle", "looked", "unrouted", "routed", "clear"},
                    topic : Topic \cup {None}]
    BY DEF NoCall
  <2>3. CASE TailReadsRoute(e)
    BY <1>1, <2>1, <2>3 DEF TailReadsRoute, TailOK
  <2>4. CASE TailLooks(e) \/ TailReadsBlock(e)
    BY <1>1, <2>4 DEF TailLooks, TailReadsBlock, TailOK
  <2>5. CASE TailHolds(e) \/ TailQueues(e) \/ TailEnds(e)
    BY <1>1, <2>2, <2>5 DEF TailHolds, TailQueues, TailEnds, TailOK
  <2> QED BY <2>3, <2>4, <2>5 DEF TailStep
<1>3. CASE TailHolds(e)
  BY <1>1, <1>2, <1>3, Kept DEF TailHolds, TablesOK, TypeOK
<1>4. CASE TailQueues(e)
  <2>1. tail[e].topic \in Topic \cup {None}
    BY <1>1 DEF TailOK
  <2>2. DeliveriesOK'
    BY <1>1, <1>4, <2>1, InsertDeliveryType DEF TailQueues
  <2> QED BY <1>1, <1>2, <1>4, <2>2, Kept DEF TailQueues, TypeOK
<1>5. CASE UNCHANGED ledgerVars
  BY <1>1, <1>2, <1>5, Kept DEF TypeOK
<1> QED BY <1>3, <1>4, <1>5 DEF TailStep, TailLooks, TailReadsRoute, TailReadsBlock, TailEnds

LEMMA WorkerStepType ==
  ASSUME TypeOK, NEW w \in Worker, WorkerStep(w)
  PROVE  TypeOK'
<1> USE RowTypes
<1>1. WorkerProfile[w] \in Profile /\ w \in Owner
  BY WorkerAssumption
<1>2. stamp[w] \in Int
  BY DEF TypeOK, WorkersOK
<1>3. /\ DeliveriesOK /\ MediaOK /\ TablesOK /\ WorkersOK /\ OperatorsOK /\ NetworkOK
      /\ runtimeLock \in [Profile -> Hold]
  BY DEF TypeOK, TablesOK
<1>4. CASE Start(w)
  <2>1. runtimeLock' \in [Profile -> Hold]
    BY <1>1, <1>3, <1>4, RuntimeLockType DEF Start
  <2>2. TablesOK'
    BY <1>3, <1>4, <2>1 DEF Start, TablesOK
  <2>3. WorkersOK'
    BY <1>3, <1>4 DEF Start, WorkersOK, PreClaim, Claimed
  <2> QED BY <1>4, <2>2, <2>3, Kept DEF Start, TypeOK
<1>5. CASE Clean(w)
  <2>1. MediaOK'
    BY <1>2, <1>3, <1>5, CleanupMediaType DEF Clean
  <2>2. WorkersOK'
    BY <1>3, <1>5, IdleType DEF Clean, WorkersOK, PreClaim, Claimed
  <2> QED BY <1>5, <2>1, <2>2, Kept DEF Clean, TypeOK
<1>6. CASE Claim(w)
  <2>1. CASE (ClaimBusy(stamp[w]) \/ ClaimNothing(WorkerProfile[w], stamp[w])) /\ Idle(w)
    BY <1>3, <1>6, <2>1, ClaimEmptyType, IdleType, Kept DEF Claim, TypeOK
  <2>2. ASSUME NEW e \in Event,
               ClaimEvent(e, WorkerProfile[w], w, stamp[w]),
               pc' = [pc EXCEPT ![w] = "claimed"],
               claim' = [claim EXCEPT ![w] = [event |-> e, attempt |-> attempts[e] + 1]],
               UNCHANGED <<stamp, beat, result>>
        PROVE  TypeOK'
    <3>1. DeliveriesOK'
      BY <1>1, <1>2, <1>3, <2>2, ClaimEventType
    <3>2. [event |-> e, attempt |-> attempts[e] + 1] \in [event : Event, attempt : Nat]
      BY <1>3 DEF DeliveriesOK
    <3>3. WorkersOK'
      BY <1>3, <2>2, <3>2 DEF WorkersOK, PreClaim, Claimed
    <3> QED BY <1>6, <3>1, <3>3, Kept DEF Claim, TypeOK
  <2> QED BY <1>6, <2>1, <2>2 DEF Claim
<1>7. CASE Send(w)
  <2>1. claim[w] \in [event : Event, attempt : Nat]
    BY <1>3, <1>7, ClaimRecord DEF Send, Claimed
  <2>2. NetworkOK'
    BY <1>3, <1>7, <2>1 DEF Send, NetworkOK
  <2>3. WorkersOK'
    BY <1>3, <1>7 DEF Send, WorkersOK, PreClaim, Claimed
  <2> QED BY <1>7, <2>2, <2>3, Kept DEF Send, TypeOK
<1>8. CASE Refuse(w)
  BY <1>3, <1>8, ReturnType, Kept DEF Refuse, TypeOK, Claimed
<1>9. CASE Rejected(w)
  <2>1. NetworkOK'
    BY <1>3, <1>9 DEF Rejected, NetworkOK
  <2> QED BY <1>3, <1>9, <2>1, ReturnType, Kept DEF Rejected, TypeOK, Claimed
<1>10. CASE Accepted(w)
  BY <1>3, <1>10, ReturnType, Kept DEF Accepted, TypeOK, Claimed
<1>11. CASE Unknown(w)
  BY <1>3, <1>11, ReturnType, Kept DEF Unknown, TypeOK, Claimed
<1>12. CASE Finish(w)
  <2>1. claim[w] \in [event : Event, attempt : Nat]
    BY <1>3, <1>12, ClaimRecord DEF Finish, Claimed
  <2>2. DeliveriesOK' /\ MediaOK'
    BY <1>2, <1>3, <1>12, <2>1, MarkType DEF Finish
  <2>3. WorkersOK'
    <3>1. CASE Idle(w)
      BY <1>3, <3>1, IdleType
    <3>2. CASE /\ pc' = [pc EXCEPT ![w] = "sweeping"]
               /\ result' = [result EXCEPT ![w] = "none"]
               /\ claim' = [claim EXCEPT ![w] = NoClaim]
               /\ UNCHANGED <<stamp, beat>>
      BY <1>3, <3>2 DEF WorkersOK, NoClaim, PreClaim, Claimed
    <3> QED BY <1>12, <3>1, <3>2 DEF Finish
  <2> QED BY <1>12, <2>2, <2>3, Kept DEF Finish, TypeOK
<1>13. CASE LeaseLost(w)
  <2>1. runtimeLock' \in [Profile -> Hold]
    BY <1>1, <1>3, <1>13, RuntimeLockType DEF LeaseLost
  <2>2. TablesOK'
    BY <1>3, <1>13, <2>1 DEF LeaseLost, TablesOK
  <2> QED BY <1>3, <1>13, <2>2, IdleType, Kept DEF LeaseLost, TypeOK
<1>14. CASE Close(w)
  <2>1. runtimeLock' \in [Profile -> Hold]
    BY <1>1, <1>3, <1>14, RuntimeLockType DEF Close
  <2>2. TablesOK'
    BY <1>3, <1>14, <2>1 DEF Close, TablesOK
  <2> QED BY <1>14, <2>2, Kept DEF Close, TypeOK
<1>15. CASE Heartbeat(w)
  <2>1. runtimeLock' \in [Profile -> Hold]
    BY <1>1, <1>3, <1>15, RuntimeLockType DEF Heartbeat
  <2>2. TablesOK'
    BY <1>3, <1>15, <2>1 DEF Heartbeat, TablesOK
  <2>3. lease' \in [Event -> Hold]
    BY <1>3, <1>15, RenewLeaseType DEF Heartbeat, DeliveriesOK
  <2>4. DeliveriesOK'
    BY <1>3, <1>15, <2>3 DEF Heartbeat, DeliveriesOK
  <2>5. WorkersOK'
    BY <1>3, <1>15 DEF Heartbeat, WorkersOK
  <2> QED BY <1>15, <2>2, <2>4, <2>5, Kept DEF Heartbeat, TypeOK
<1>16. CASE HeartbeatError(w)
  <2>1. WorkersOK'
    BY <1>3, <1>16 DEF HeartbeatError, WorkersOK
  <2> QED BY <1>16, <2>1, Kept DEF HeartbeatError, TypeOK
<1> QED BY <1>4, <1>5, <1>6, <1>7, <1>8, <1>9, <1>10, <1>11, <1>12, <1>13, <1>14, <1>15,
           <1>16 DEF WorkerStep

LEMMA OperatorStepType ==
  ASSUME TypeOK, NEW o \in Operator, OperatorStep(o)
  PROVE  TypeOK'
<1> USE RowTypes
<1>1. OperatorProfile[o] \in Profile /\ o \in Owner
  BY WorkerAssumption
<1>2. /\ DeliveriesOK /\ MediaOK /\ TablesOK /\ WorkersOK /\ OperatorsOK /\ NetworkOK
      /\ runtimeLock \in [Profile -> Hold]
  BY DEF TypeOK, TablesOK
<1>3. CASE OpBegin(o)
  <2>1. runtimeLock' \in [Profile -> Hold]
    BY <1>1, <1>2, <1>3, RuntimeLockType DEF OpBegin
  <2>2. TablesOK'
    BY <1>2, <1>3, <2>1 DEF OpBegin, TablesOK
  <2>3. OperatorsOK'
    BY <1>2, <1>3, WorkerAssumption DEF OpBegin, OperatorsOK
  <2> QED BY <1>3, <2>2, <2>3, Kept DEF OpBegin, TypeOK
<1>4. CASE \E c \in Conversation : OpReadRoute(o, c)
  <2>1. PICK c \in Conversation : OpReadRoute(o, c)
    BY <1>4
  <2>2. [conversation |-> c, topic |-> route[c].topic]
          \in [conversation : Conversation \cup {None}, topic : Topic \cup {None}]
    BY <1>2 DEF TablesOK
  <2>3. OperatorsOK'
    BY <1>2, <2>1, <2>2 DEF OpReadRoute, OperatorsOK
  <2> QED BY <2>1, <2>3, Kept DEF OpReadRoute, TypeOK
<1>5. CASE OpReconcileBlocks(o)
  <2>1. opRoute[o].topic \in Topic \cup {None}
    BY <1>2 DEF OperatorsOK
  <2>2. DeliveriesOK' /\ MediaOK' /\ TablesOK'
    BY <1>2, <1>5, <2>1, ReconcileBlocksType DEF OpReconcileBlocks
  <2>3. OperatorsOK'
    BY <1>2, <1>5 DEF OpReconcileBlocks, OperatorsOK, NoRead
  <2> QED BY <1>5, <2>2, <2>3, Kept DEF OpReconcileBlocks, TypeOK
<1>6. CASE OpCommand(o)
  <2>1. UNCHANGED runtimeLock
    BY <1>6 DEF OpCommand
  <2>2. DeliveriesOK' /\ MediaOK' /\ TablesOK'
    <3>1. CASE \E c \in Conversation, topic \in Topic :
                 \/ \E enabled \in BOOLEAN : SetRoute(c, topic, enabled)
                 \/ \E E \in SUBSET Event : ImportLegacy(c, topic, E)
      BY <1>2, <2>1, <3>1, SetRouteType
    <3>2. CASE \E c \in Conversation : RebindRouteChanged(c)
      BY <1>2, <2>1, <3>2, RebindType
    <3>3. CASE \E e \in Event : \/ ReconcileUncertainSent(e)
                               \/ ReconcileUncertainRetry(e)
                               \/ AuthorizeMediaPurge(e)
      BY <1>2, <2>1, <3>3, ReconcileType
    <3>4. CASE /\ CleanupMedia(0)
               /\ UNCHANGED <<captured, legacy, route, block, deliveryVars, audit>>
      BY <1>2, <2>1, <3>4, CleanupMediaType, Kept
    <3>5. \A c \in Conversation, topic \in Topic :
            (\E E \in SUBSET {e \in Event : ConversationOf[e] = c} : ImportLegacy(c, topic, E))
              => \E E \in SUBSET Event : ImportLegacy(c, topic, E)
      OBVIOUS
    <3> QED BY <1>6, <3>1, <3>2, <3>3, <3>4, <3>5 DEF OpCommand
  <2>3. OperatorsOK'
    BY <1>2, <1>6 DEF OpCommand, OperatorsOK
  <2> QED BY <1>6, <2>2, <2>3, Kept DEF OpCommand, TypeOK
<1>7. CASE OpEnd(o)
  <2>1. runtimeLock' \in [Profile -> Hold]
    BY <1>1, <1>2, <1>7, RuntimeLockType DEF OpEnd
  <2>2. TablesOK'
    BY <1>2, <1>7, <2>1 DEF OpEnd, TablesOK
  <2>3. OperatorsOK'
    BY <1>2, <1>7 DEF OpEnd, OperatorsOK, NoRead
  <2> QED BY <1>7, <2>2, <2>3, Kept DEF OpEnd, TypeOK
<1> QED BY <1>3, <1>4, <1>5, <1>6, <1>7 DEF OperatorStep

LEMMA CrashType ==
  ASSUME TypeOK, NEW x \in Process, Crash(x)
  PROVE  TypeOK'
<1> USE RowTypes
<1>1. \A row \in Hold : Orphan(row, x) \in Hold
  BY DEF Orphan, Hold
<1>2. DeliveriesOK'
  BY <1>1 DEF TypeOK, Crash, DeliveriesOK
<1>3. TablesOK'
  BY <1>1 DEF TypeOK, Crash, TablesOK
<1>4. WorkersOK'
  BY IdleType, Kept DEF TypeOK, Crash
<1>5. OperatorsOK'
  <2>1. crashes' \in 0..MaxCrashes
    BY WorkerAssumption DEF TypeOK, Crash, OperatorsOK
  <2>2. NoRead \in [conversation : Conversation \cup {None}, topic : Topic \cup {None}]
    BY DEF NoRead
  <2> QED BY <2>1, <2>2 DEF TypeOK, Crash, OperatorsOK, opVars
<1> QED BY <1>2, <1>3, <1>4, <1>5, Kept DEF Crash, TypeOK

LEMMA TickType ==
  ASSUME TypeOK, Tick
  PROVE  TypeOK'
<1>1. DeliveriesOK'
  BY EarlierType, OlderType DEF TypeOK, Tick, DeliveriesOK
<1>2. MediaOK'
  BY EarlierType DEF TypeOK, Tick, MediaOK
<1>3. TablesOK'
  BY OlderType DEF TypeOK, Tick, TablesOK
<1>4. WorkersOK'
  BY EarlierType DEF TypeOK, Tick, WorkersOK
<1> QED BY <1>1, <1>2, <1>3, <1>4, Kept DEF Tick, TypeOK

(* The rows that mirror_routes may hold at the start.                      *)
LEMMA RouteRows ==
  {NoRoute} \cup {[topic |-> x, enabled |-> TRUE] : x \in Topic}
    \subseteq [topic : Topic \cup {None}, enabled : BOOLEAN]
<1>1. NoRoute \in [topic : Topic \cup {None}, enabled : BOOLEAN]
  BY DEF NoRoute
<1>2. ASSUME NEW x \in Topic
      PROVE  [topic |-> x, enabled |-> TRUE] \in [topic : Topic \cup {None}, enabled : BOOLEAN]
  OBVIOUS
<1> QED BY <1>1, <1>2

LEMMA InitType == Init => TypeOK
<1> SUFFICES ASSUME Init PROVE TypeOK
  OBVIOUS
<1> USE RowTypes DEF Init, LedgerInit
<1>1. DeliveriesOK
  BY DEF DeliveriesOK
<1>2. MediaOK
  BY DEF MediaOK
<1>3. TablesOK
  <2>1. route \in [Conversation -> [topic : Topic \cup {None}, enabled : BOOLEAN]]
    BY RouteRows
  <2> QED BY <2>1 DEF TablesOK
<1>4. WorkersOK
  BY DEF WorkersOK, NoClaim, PreClaim, Claimed
<1>5. OperatorsOK
  BY WorkerAssumption DEF OperatorsOK, NoRead
<1>6. NetworkOK
  BY DEF NetworkOK
<1>7. TailOK
  BY DEF TailOK, NoCall
<1> QED BY <1>1, <1>2, <1>3, <1>4, <1>5, <1>6, <1>7 DEF TypeOK

LEMMA NextType ==
  ASSUME TypeOK, [Next]_vars
  PROVE  TypeOK'
<1>1. ASSUME NEW e \in Event, Produce(e) PROVE TypeOK'
  BY <1>1, CaptureType, Kept DEF Produce, TypeOK
<1>2. ASSUME NEW c \in Conversation, NEW topic \in Topic, ProvisionRoute(c, topic)
      PROVE  TypeOK'
  BY <1>2, SetRouteType, Kept DEF ProvisionRoute, TypeOK
<1>3. ASSUME NEW w \in Worker, WorkerStep(w) PROVE TypeOK'
  BY <1>3, WorkerStepType
<1>4. ASSUME NEW r \in wire, Apply(r) \/ Lose(r) PROVE TypeOK'
  <2>1. NetworkOK'
    BY <1>4 DEF Apply, Lose, NetworkOK, TypeOK
  <2> QED BY <1>4, <2>1, Kept DEF Apply, Lose, TypeOK
<1>5. ASSUME NEW o \in Operator, OperatorStep(o) PROVE TypeOK'
  BY <1>5, OperatorStepType
<1>6. ASSUME NEW x \in Process, Crash(x) PROVE TypeOK'
  BY <1>6, CrashType
<1>7. CASE Tick
  BY <1>7, TickType
<1>8. CASE UNCHANGED vars
  BY <1>8, Kept DEF vars, workerVars, opVars, netVars, TypeOK
<1>9. ASSUME NEW e \in Event, TailStep(e) PROVE TypeOK'
  BY <1>9, TailStepType
<1> QED BY <1>1, <1>2, <1>3, <1>4, <1>5, <1>6, <1>7, <1>8, <1>9 DEF Next

(* Whatever the processes, crashes and network do, every table column and  *)
(* every process variable holds a value of its type.                       *)
THEOREM TypeCorrect == Spec => []TypeOK
BY InitType, NextType, PTL DEF Spec
=============================================================================
