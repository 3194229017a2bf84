---------------------------- MODULE MirrorLedger ----------------------------
(***************************************************************************)
(* The delivery tables of src/espelho_zap/ledger.py and the transactions   *)
(* that write them.  Every operator below is one SQLite transaction (or    *)
(* one autocommitted statement), so it is atomic here too; which process   *)
(* runs it, and when, is the business of MirrorWorker.                     *)
(*                                                                         *)
(* TIME.  A timestamp column holds its distance from the current second:   *)
(* 0 is now, a positive value lies in the future.  A transaction takes the *)
(* timestamp t its caller passes as now=..., which is 0 when the caller    *)
(* has just read the clock and negative when it uses a reading it took     *)
(* earlier.  One second passing decrements every stored timestamp (see     *)
(* Earlier), down to the bound -Horizon, below which nothing tells two     *)
(* timestamps apart.                                                       *)
(***************************************************************************)
EXTENDS Integers, Sequences, FiniteSets

CONSTANTS
  Event,            \* inbound WhatsApp events (mirror_events.event_id)
  Conversation, Profile, Topic,
  ConversationOf,   \* event -> conversation
  ProfileOf,        \* event -> source_profile_id
  HasMedia,         \* events that carry one managed spool file
  Tailed,           \* events read by the OpenClaw JSONL tail
  Owner,            \* identities written in owner_id / worker_id
  LeaseSeconds, RuntimeLockSeconds, MaxAttempts, BaseBackoff, MaxBackoff,
  RetentionSeconds, CleanupRetrySeconds,
  Horizon,          \* bound: the oldest timestamp told apart from older ones
  None

ASSUME LedgerAssumption ==
  /\ ConversationOf \in [Event -> Conversation]
  /\ ProfileOf \in [Event -> Profile]
  /\ HasMedia \subseteq Event
  /\ Tailed \subseteq Event
  /\ HasMedia \cap Tailed = {}
  /\ {LeaseSeconds, RuntimeLockSeconds, MaxAttempts} \subseteq Nat \ {0}
  /\ {BaseBackoff, MaxBackoff, RetentionSeconds, CleanupRetrySeconds, Horizon}
       \subseteq Nat
  /\ None \notin Owner
  /\ None \notin Topic

VARIABLES
  captured,     \* rows of mirror_events
  legacy,       \* mirror_legacy_delivered: events the old pipeline delivered
  route,        \* mirror_routes: topic and enabled flag per conversation
  block,        \* mirror_route_blocks.state per event
  state,        \* mirror_deliveries.state per event, "none" without a row
  target,       \* mirror_deliveries.target_chat_id and target_thread_id
  attempts,     \* mirror_deliveries.attempts
  nextAttempt,  \* mirror_deliveries.next_attempt_at
  outcome,      \* mirror_delivery_attempts: outcome of attempt 1, 2, ...
  lease,        \* mirror_leases per event
  runtimeLock,  \* mirror_runtime_locks per profile
  audit,        \* mirror_delivery_reconciliation_audit
  media,        \* mirror_managed_media.state per event, "none" without a row
  mediaDue,     \* mirror_managed_media.next_attempt_at
  purged,       \* mirror_media_purge_audit
  file          \* the spool file of the event exists

deliveryVars == <<state, target, attempts, nextAttempt, outcome, lease>>
mediaVars    == <<media, mediaDue, purged, file>>
ledgerVars   == <<captured, legacy, route, block, deliveryVars, runtimeLock, audit, mediaVars>>

-----------------------------------------------------------------------------
(* Rows.                                                                   *)

DeliveryState == {"pending", "inflight", "retry", "sent", "dead", "blocked",
                  "uncertain"}
WaitingAndUncertain == {"pending", "retry", "uncertain"}   \* faulty Waiting
Waiting       == {"pending", "retry"}
Outcome       == {"started", "sent", "retry", "dead", "uncertain"}
Resolution    == {"uncertain_mark_sent", "uncertain_retry", "route_rebind"}
Hold          == [owner : Owner \cup {None}, expires : Int]

NoRow   == [owner |-> None, expires |-> 0]
NoRoute == [topic |-> None, enabled |-> FALSE]

(* One second passes for a stored timestamp.                               *)
Earlier(x) == IF x > -Horizon THEN x - 1 ELSE x
Older(row) == IF row = NoRow THEN row ELSE [row EXCEPT !.expires = Earlier(@)]

LedgerInit ==
  /\ captured = {}
  /\ legacy = {}
  /\ route \in [Conversation ->
                 {NoRoute} \cup {[topic |-> x, enabled |-> TRUE] : x \in Topic}]
  /\ block = [e \in Event |-> "none"]
  /\ state = [e \in Event |-> "none"]
  /\ target = [e \in Event |-> None]
  /\ attempts = [e \in Event |-> 0]
  /\ nextAttempt = [e \in Event |-> 0]
  /\ outcome = [e \in Event |-> <<>>]
  /\ lease = [e \in Event |-> NoRow]
  /\ runtimeLock = [p \in Profile |-> NoRow]
  /\ audit = {}
  /\ media = [e \in Event |-> "none"]
  /\ mediaDue = [e \in Event |-> 0]
  /\ purged = {}
  /\ file = [e \in Event |-> FALSE]

-----------------------------------------------------------------------------
(* Runtime locks: one writer per profile.                                  *)

LiveLock(p, t) == IF runtimeLock[p].expires <= t THEN NoRow ELSE runtimeLock[p]

Grants(p, o, t) == LiveLock(p, t).owner \in {None, o}

(* Expired rows of every profile are deleted whether or not the lock is    *)
(* then granted.                                                           *)
AcquireRuntimeLock(p, o, t) ==
  runtimeLock' =
    [q \in Profile |->
       IF q = p /\ Grants(p, o, t)
       THEN [owner |-> o, expires |-> t + RuntimeLockSeconds]
       ELSE LiveLock(q, t)]

RenewsRuntimeLock(p, o) == runtimeLock[p].owner = o /\ runtimeLock[p].expires >= 0

RenewRuntimeLock(p, o) ==
  runtimeLock' = IF RenewsRuntimeLock(p, o)
                 THEN [runtimeLock EXCEPT ![p].expires = RuntimeLockSeconds + 1]
                 ELSE runtimeLock

ReleaseRuntimeLock(p, o) ==
  runtimeLock' = IF runtimeLock[p].owner = o
                 THEN [runtimeLock EXCEPT ![p] = NoRow]
                 ELSE runtimeLock

-----------------------------------------------------------------------------
(* Capture and queueing.                                                   *)

(* Faulty InsertDelivery: one row of the result set instead of all.        *)
InsertOneDelivery(E, topic) ==
  LET new == {e \in E : state[e] = "none" /\ e = CHOOSE f \in E : TRUE}
  IN  /\ state' = [e \in Event |-> IF e \in new THEN "pending" ELSE state[e]]
      /\ target' = [e \in Event |-> IF e \in new THEN topic ELSE target[e]]
      /\ UNCHANGED <<attempts, nextAttempt, outcome, lease>>

(* INSERT OR IGNORE of a pending delivery for each event of E.             *)
InsertDelivery(E, topic) ==
  LET new == {e \in E : state[e] = "none"}
  IN  /\ state' = [e \in Event |-> IF e \in new THEN "pending" ELSE state[e]]
      /\ target' = [e \in Event |-> IF e \in new THEN topic ELSE target[e]]
      /\ nextAttempt' = [e \in Event |-> IF e \in new THEN 0 ELSE nextAttempt[e]]
      /\ UNCHANGED <<attempts, outcome, lease>>

(* A missing or disabled route leaves a visible block; an event already    *)
(* blocked is not released by a route that appeared since.                 *)
Enqueue(e) ==
  LET r == route[ConversationOf[e]]
  IN  \/ /\ e \in legacy
         /\ UNCHANGED <<block, deliveryVars>>
      \/ /\ e \notin legacy
         /\ ~r.enabled
         /\ block' = [block EXCEPT ![e] = "blocked_no_route"]
         /\ UNCHANGED deliveryVars
      \/ /\ e \notin legacy
         /\ r.enabled
         /\ block[e] # "blocked_no_route"
         /\ InsertDelivery({e}, r.topic)
         /\ UNCHANGED block

(* stage_event_media, record_event, the media inventory and enqueue commit *)
(* together; a replay of a recorded event stops at the load_event check    *)
(* and writes nothing.                                                     *)
CaptureEvent(e) ==
  /\ e \notin captured
  /\ captured' = captured \cup {e}
  /\ media' = [media EXCEPT ![e] = IF e \in HasMedia THEN "active" ELSE "none"]
  /\ file' = [file EXCEPT ![e] = e \in HasMedia]
  /\ Enqueue(e)
  /\ UNCHANGED <<legacy, route, runtimeLock, audit, mediaDue, purged>>

(* The JSONL tail commits the event alone; it enqueues in steps of its own.*)
RecordEvent(e) ==
  /\ e \in Tailed \ captured
  /\ captured' = captured \cup {e}
  /\ UNCHANGED <<legacy, route, block, deliveryVars, runtimeLock, audit, mediaVars>>

-----------------------------------------------------------------------------
(* Claiming.                                                               *)

HasLease(e)   == lease[e] # NoRow
Expired(e, t) == HasLease(e) /\ lease[e].expires <= t

(* Faulty ExpiredState: the delivery is retried, or it is forgotten.       *)
ExpiredRetry(t) == [e \in Event |-> IF Expired(e, t) /\ state[e] = "inflight"
                                    THEN "retry" ELSE state[e]]
ExpiredStuck(t) == state

(* _expire_leases: what a claim finds at time t is uncertain, never due.   *)
ExpiredState(t)  == [e \in Event |-> IF Expired(e, t) /\ state[e] = "inflight"
                                     THEN "uncertain" ELSE state[e]]
LeasesKept(t)    == lease      \* faulty ExpiredLeases
ExpiredLeases(t) == [e \in Event |-> IF Expired(e, t) THEN NoRow ELSE lease[e]]
Settle(log)      == [i \in DOMAIN log |-> IF log[i] = "started" THEN "uncertain"
                                          ELSE log[i]]
ExpiredLogs(t)   == [e \in Event |-> IF Expired(e, t) THEN Settle(outcome[e])
                                     ELSE outcome[e]]

NeverBusy(t) == FALSE          \* faulty Busy: no WIP limit
Busy(t) == \E e \in Event : HasLease(e) /\ ~Expired(e, t)

OnSomeRoute(e) == route[ConversationOf[e]].enabled   \* faulty OnCurrentRoute
OnCurrentRoute(e) == LET r == route[ConversationOf[e]]
                     IN  r.enabled /\ r.topic = target[e]

(* Waiting deliveries whose route changed stop as blocked, of any profile. *)
RoutedState(t) ==
  [e \in Event |-> IF state[e] \in Waiting /\ ~OnCurrentRoute(e)
                   THEN "blocked" ELSE ExpiredState(t)[e]]

Due(p, t) == {e \in Event : /\ RoutedState(t)[e] \in Waiting
                            /\ nextAttempt[e] <= t
                            /\ ProfileOf[e] = p}

Oldest(E) == {e \in E : \A f \in E : nextAttempt[e] <= nextAttempt[f]}

ClaimBusy(t) ==
  /\ Busy(t)
  /\ state' = ExpiredState(t)
  /\ lease' = ExpiredLeases(t)
  /\ outcome' = ExpiredLogs(t)
  /\ UNCHANGED <<target, attempts, nextAttempt>>

ClaimNothing(p, t) ==
  /\ ~Busy(t)
  /\ Due(p, t) = {}
  /\ state' = RoutedState(t)
  /\ lease' = ExpiredLeases(t)
  /\ outcome' = ExpiredLogs(t)
  /\ UNCHANGED <<target, attempts, nextAttempt>>

(* nextAttempt is read only while the delivery waits, and every way back   *)
(* to waiting writes it: it is kept at 0 meanwhile.                        *)
ClaimEvent(e, p, o, t) ==
  /\ ~Busy(t)
  /\ e \in Oldest(Due(p, t))
  /\ state' = [RoutedState(t) EXCEPT ![e] = "inflight"]
  /\ attempts' = [attempts EXCEPT ![e] = @ + 1]
  /\ lease' = [ExpiredLeases(t) EXCEPT ![e] = [owner |-> o, expires |-> t + LeaseSeconds]]
  /\ outcome' = [ExpiredLogs(t) EXCEPT ![e] = Append(@, "started")]
  /\ nextAttempt' = [nextAttempt EXCEPT ![e] = 0]
  /\ UNCHANGED target

-----------------------------------------------------------------------------
(* The end of an attempt.  claim is [event, attempt].                      *)

RenewsDeliveryLease(e, o) == lease[e].owner = o /\ lease[e].expires >= 0

RenewDeliveryLease(e, o) ==
  lease' = IF RenewsDeliveryLease(e, o)
           THEN [lease EXCEPT ![e].expires = LeaseSeconds + 1]
           ELSE lease

NoLeaseRequired(claim, o) == TRUE   \* faulty RequireLease
RequireLease(claim, o) == lease[claim.event].owner = o

EndAttempt(claim, result) ==
  /\ state' = [state EXCEPT ![claim.event] = result]
  /\ outcome' = [outcome EXCEPT ![claim.event][claim.attempt] = result]
  /\ lease' = [lease EXCEPT ![claim.event] = NoRow]
  /\ UNCHANGED <<target, attempts>>

(* The active media of an event becomes removable from time due on.        *)
QueueCleanup(e, due) ==
  /\ media' = [media EXCEPT ![e] = IF @ = "active" THEN "cleanup_pending" ELSE @]
  /\ mediaDue' = [mediaDue EXCEPT ![e] = IF media[e] = "active" THEN due ELSE @]
  /\ UNCHANGED file

MarkSent(claim, o, t) ==
  /\ RequireLease(claim, o)
  /\ EndAttempt(claim, "sent")
  /\ QueueCleanup(claim.event, t + RetentionSeconds)
  /\ UNCHANGED <<nextAttempt, purged>>

(* Exponential from the first retry on, capped.                            *)
Delay(n) == LET doubled == BaseBackoff * 2 ^ (n - 1)
            IN  IF doubled \in 0..MaxBackoff THEN doubled ELSE MaxBackoff

MarkFailed(claim, o, t, permanent) ==
  LET result == IF permanent \/ claim.attempt >= MaxAttempts THEN "dead" ELSE "retry"
  IN  /\ RequireLease(claim, o)
      /\ EndAttempt(claim, result)
      /\ nextAttempt' = [nextAttempt EXCEPT ![claim.event] =
                           IF result = "retry" THEN t + Delay(claim.attempt) ELSE 0]
      /\ UNCHANGED mediaVars

(* Faulty MarkUncertain: an unknown outcome is retried.                    *)
MarkUnknownRetry(claim, o) ==
  /\ RequireLease(claim, o)
  /\ EndAttempt(claim, "retry")
  /\ UNCHANGED <<nextAttempt, mediaVars>>

MarkUncertain(claim, o) ==
  /\ RequireLease(claim, o)
  /\ EndAttempt(claim, "uncertain")
  /\ UNCHANGED <<nextAttempt, mediaVars>>

-----------------------------------------------------------------------------
(* Operator commands.                                                      *)

SetRoute(c, topic, enabled) ==
  /\ route' = [route EXCEPT ![c] = [topic |-> topic, enabled |-> enabled]]
  /\ UNCHANGED <<captured, legacy, block, deliveryVars, audit, mediaVars>>

(* The import of the old pipeline sets the route of a conversation and the *)
(* ids E that pipeline had delivered there, in one transaction.            *)
ImportLegacy(c, topic, E) ==
  /\ legacy' = legacy \cup E
  /\ route' = [route EXCEPT ![c] = [topic |-> topic, enabled |-> TRUE]]
  /\ UNCHANGED <<captured, block, deliveryVars, audit, mediaVars>>

(* Faulty ReconcileRouteBlocks: the legacy ids are not looked up again.    *)
ReconcileAllBlocks(c, topic) ==
  LET held == {e \in Event : ConversationOf[e] = c /\ block[e] = "blocked_no_route"}
  IN  /\ InsertDelivery(held, topic)
      /\ block' = [e \in Event |-> IF e \in held THEN "requeued" ELSE block[e]]
      /\ UNCHANGED <<captured, legacy, route, audit, mediaVars>>

(* The route was read before the transaction began: topic is that reading. *)
ReconcileRouteBlocks(c, topic) ==
  LET held == {e \in Event : ConversationOf[e] = c /\ block[e] = "blocked_no_route"}
  IN  /\ InsertDelivery(held \ legacy, topic)
      /\ block' = [e \in Event |-> IF e \in held THEN "requeued" ELSE block[e]]
      /\ UNCHANGED <<captured, legacy, route, audit, mediaVars>>

(* Faulty Audit: the previous state is written as the resolution.          *)
AuditOfState(e, resolution) == [event |-> e, attempt |-> attempts[e], resolution |-> state[e]]

Audit(e, resolution) == [event |-> e, attempt |-> attempts[e], resolution |-> resolution]

ReconcileUncertainSent(e) ==
  /\ state[e] = "uncertain"
  /\ state' = [state EXCEPT ![e] = "sent"]
  /\ audit' = audit \cup {Audit(e, "uncertain_mark_sent")}
  /\ QueueCleanup(e, 0)
  /\ UNCHANGED <<captured, legacy, route, block, target, attempts, nextAttempt, outcome, lease, purged>>

ReconcileUncertainRetry(e) ==
  /\ state[e] = "uncertain"
  /\ state' = [state EXCEPT ![e] = "retry"]
  /\ nextAttempt' = [nextAttempt EXCEPT ![e] = 0]
  /\ audit' = audit \cup {Audit(e, "uncertain_retry")}
  /\ UNCHANGED <<captured, legacy, route, block, target, attempts, outcome, lease, mediaVars>>

(* A delivery is blocked only by claim_next, with code route_changed.      *)
RebindRouteChanged(c) ==
  LET stopped == {e \in Event : ConversationOf[e] = c /\ state[e] = "blocked"}
  IN  /\ route[c].enabled
      /\ state' = [e \in Event |-> IF e \in stopped THEN "pending" ELSE state[e]]
      /\ target' = [e \in Event |-> IF e \in stopped THEN route[c].topic ELSE target[e]]
      /\ nextAttempt' = [e \in Event |-> IF e \in stopped THEN 0 ELSE nextAttempt[e]]
      /\ audit' = audit \cup {Audit(e, "route_rebind") : e \in stopped}
      /\ UNCHANGED <<captured, legacy, route, block, attempts, outcome, lease, mediaVars>>

PurgeState(e) == IF state[e] # "none" THEN state[e] ELSE block[e]

AuthorizeMediaPurge(e) ==
  /\ e \in captured
  /\ PurgeState(e) \in {"dead", "blocked", "uncertain", "blocked_no_route"}
  /\ QueueCleanup(e, 0)
  /\ purged' = purged \cup {x \in {e} : media[x] = "active"}
  /\ UNCHANGED <<captured, legacy, route, block, deliveryVars, audit>>

(* Faulty CleanupDue: the state of the inventory row is not looked at.     *)
CleanupOverdue(t) == {e \in Event : media[e] # "none" /\ mediaDue[e] <= t}

(* _cleanup_media: each due file is unlinked and its row deleted, or its   *)
(* removal fails and is retried later.  Two cleaners of one spool are the  *)
(* subject of MediaSpool; here the pass is one step.                       *)
CleanupDue(t) == {e \in Event : media[e] = "cleanup_pending" /\ mediaDue[e] <= t}

CleanupMedia(t) ==
  \E failed \in SUBSET {e \in CleanupDue(t) : file[e]} :
    LET removed == CleanupDue(t) \ failed
    IN  /\ media' = [e \in Event |-> IF e \in removed THEN "none" ELSE media[e]]
        /\ file' = [e \in Event |-> file[e] /\ e \notin removed]
        /\ mediaDue' = [e \in Event |-> IF e \in failed THEN t + CleanupRetrySeconds
                                        ELSE mediaDue[e]]
        /\ UNCHANGED purged
=============================================================================
