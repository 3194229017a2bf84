---------------------------- MODULE MirrorWorker ----------------------------
(***************************************************************************)
(* The processes around the ledger: delivery workers (worker.py) with      *)
(* their lease heartbeat, the Telegram Bot API as a network of requests    *)
(* (telegram.py), the capturing producers, and the operator commands of    *)
(* cli.py that take the runtime lock.  Each step of a process is one       *)
(* ledger transaction or one event of its transport call, so transactions  *)
(* of different processes interleave in every order.                       *)
(*                                                                         *)
(* A worker or a command identifies itself with a fresh uuid and a process *)
(* that crashes never comes back under its old one.  The model reuses the  *)
(* process names, so a crash renames what the process still owned to Gone, *)
(* an identity no live process has.                                        *)
(***************************************************************************)
EXTENDS MirrorLedger

CONSTANTS
  Worker, Operator,
  WorkerProfile,     \* worker -> the profile it was started for
  OperatorProfile,   \* operator -> the profile whose lock its commands take
  PolicyRejected,    \* events the topic or video policy refuses
  Gone,
  Timely,            \* TRUE: no call outlives its lease without a heartbeat
  MaxStall,          \* bound: seconds between a worker's clock reading and its claim
  MaxCommands,       \* bound: operator commands
  MaxCrashes         \* bound: process crashes

ASSUME WorkerAssumption ==
  /\ WorkerProfile \in [Worker -> Profile]
  /\ OperatorProfile \in [Operator -> Profile]
  /\ PolicyRejected \subseteq Event
  /\ Worker \cap Operator = {}
  /\ Gone \notin Worker \cup Operator
  /\ Owner = Worker \cup Operator \cup {Gone}
  /\ Timely \in BOOLEAN
  /\ {MaxStall, MaxCommands, MaxCrashes} \subseteq Nat
  /\ MaxStall < Horizon

VARIABLES
  pc,        \* where run_once of each worker is
  stamp,     \* its timestamp: the clock reading at the start of run_once
  claim,     \* the DeliveryClaim it works on
  beat,      \* its _LeaseHeartbeat: "off", "running" or "failed"
  result,    \* how its transport.send ended
  opPc,      \* where each operator command is
  opRoute,   \* the route reconcile_route_blocks has read
  wire,      \* requests that Telegram may still apply
  posted,    \* attempts of each event that Telegram has applied
  tail,      \* the enqueue of each event that the JSONL tail is executing
  commands, crashes

workerVars == <<pc, stamp, claim, beat, result>>
opVars     == <<opPc, opRoute, commands>>
netVars    == <<wire, posted>>
vars       == <<ledgerVars, workerVars, opVars, netVars, tail, crashes>>

Process == Worker \cup Operator
NoClaim == [event |-> None, attempt |-> 0]
NoRead  == [conversation |-> None, topic |-> None]
NoCall  == [at |-> "idle", topic |-> None]

PreClaim == {"cleaning", "claiming"}
Claimed  == {"claimed", "sending", "finished"}

Init ==
  /\ LedgerInit
  /\ pc = [w \in Worker |-> "idle"]
  /\ stamp = [w \in Worker |-> 0]
  /\ claim = [w \in Worker |-> NoClaim]
  /\ beat = [w \in Worker |-> "off"]
  /\ result = [w \in Worker |-> "none"]
  /\ opPc = [o \in Operator |-> "idle"]
  /\ opRoute = [o \in Operator |-> NoRead]
  /\ wire = {}
  /\ posted = [e \in Event |-> {}]
  /\ tail = [e \in Event |-> NoCall]
  /\ commands = 0
  /\ crashes = 0

-----------------------------------------------------------------------------
(* Producers take no runtime lock.                                         *)

Produce(e) ==
  /\ CaptureEvent(e) \/ RecordEvent(e)
  /\ UNCHANGED <<workerVars, opVars, netVars, tail, crashes>>

(* The JSONL tail calls enqueue outside a transaction, so the lookup of    *)
(* the legacy id, the reading of the route, that of the block, and the     *)
(* insert are statements between which other processes commit; the call    *)
(* may also end between two of them.  A legacy id ends it at the lookup.   *)
TailLooks(e) ==
  /\ e \in (Tailed \cap captured) \ legacy
  /\ tail[e] = NoCall
  /\ tail' = [tail EXCEPT ![e].at = "looked"]
  /\ UNCHANGED ledgerVars

TailReadsRoute(e) ==
  LET r == route[ConversationOf[e]]
  IN  /\ tail[e].at = "looked"
      /\ tail' = [tail EXCEPT ![e] = IF r.enabled THEN [at |-> "routed", topic |-> r.topic]
                                     ELSE [at |-> "unrouted", topic |-> None]]
      /\ UNCHANGED ledgerVars

TailHolds(e) ==
  /\ tail[e].at = "unrouted"
  /\ block' = [block EXCEPT ![e] = "blocked_no_route"]
  /\ tail' = [tail EXCEPT ![e] = NoCall]
  /\ UNCHANGED <<captured, legacy, route, deliveryVars, runtimeLock, audit, mediaVars>>

TailReadsBlock(e) ==
  /\ tail[e].at = "routed"
  /\ block[e] # "blocked_no_route"
  /\ tail' = [tail EXCEPT ![e].at = "clear"]
  /\ UNCHANGED ledgerVars

TailQueues(e) ==
  /\ tail[e].at = "clear"
  /\ InsertDelivery({e}, tail[e].topic)
  /\ tail' = [tail EXCEPT ![e] = NoCall]
  /\ UNCHANGED <<captured, legacy, route, block, runtimeLock, audit, mediaVars>>

(* At a held block, by an error, or with its process.                      *)
TailEnds(e) ==
  /\ tail[e] # NoCall
  /\ tail' = [tail EXCEPT ![e] = NoCall]
  /\ UNCHANGED ledgerVars

TailStep(e) ==
  /\ \/ TailLooks(e) \/ TailReadsRoute(e) \/ TailHolds(e)
     \/ TailReadsBlock(e) \/ TailQueues(e) \/ TailEnds(e)
  /\ UNCHANGED <<workerVars, opVars, netVars, crashes>>

(* cmd_ingest creates a topic for a contact that has no route.             *)
ProvisionRoute(c, topic) ==
  /\ route[c] = NoRoute
  /\ SetRoute(c, topic, TRUE)
  /\ UNCHANGED <<runtimeLock, workerVars, opVars, netVars, tail, crashes>>

-----------------------------------------------------------------------------
(* run_once.                                                               *)

Idle(w) ==
  /\ pc' = [pc EXCEPT ![w] = "idle"]
  /\ stamp' = [stamp EXCEPT ![w] = 0]
  /\ claim' = [claim EXCEPT ![w] = NoClaim]
  /\ beat' = [beat EXCEPT ![w] = "off"]
  /\ result' = [result EXCEPT ![w] = "none"]

(* Reads the clock and takes the profile's lock; otherwise standby.        *)
Start(w) ==
  /\ pc[w] = "idle"
  /\ AcquireRuntimeLock(WorkerProfile[w], w, 0)
  /\ pc' = [pc EXCEPT ![w] = IF Grants(WorkerProfile[w], w, 0) THEN "cleaning" ELSE @]
  /\ UNCHANGED <<captured, legacy, route, block, deliveryVars, audit, mediaVars,
                 stamp, claim, beat, result, opVars, netVars, tail, crashes>>

Clean(w) ==
  /\ pc[w] \in {"cleaning", "sweeping"}
  /\ CleanupMedia(stamp[w])
  /\ \/ /\ pc[w] = "cleaning"
        /\ pc' = [pc EXCEPT ![w] = "claiming"]
        /\ UNCHANGED <<stamp, claim, beat, result>>
     \/ /\ pc[w] = "sweeping"
        /\ Idle(w)
  /\ UNCHANGED <<captured, legacy, route, block, deliveryVars, runtimeLock, audit,
                 opVars, netVars, tail, crashes>>

Claim(w) ==
  /\ pc[w] = "claiming"
  /\ \/ /\ ClaimBusy(stamp[w]) \/ ClaimNothing(WorkerProfile[w], stamp[w])
        /\ Idle(w)
     \/ \E e \in Event :
          /\ ClaimEvent(e, WorkerProfile[w], w, stamp[w])
          /\ pc' = [pc EXCEPT ![w] = "claimed"]
          /\ claim' = [claim EXCEPT ![w] = [event |-> e, attempt |-> attempts[e] + 1]]
          /\ UNCHANGED <<stamp, beat, result>>
  /\ UNCHANGED <<captured, legacy, route, block, runtimeLock, audit, mediaVars,
                 opVars, netVars, tail, crashes>>

(* The transport call returns: how is "ok", "retryable", "rejected",       *)
(* "unknown" or "policy".  Success counts only with a healthy heartbeat.   *)
Return(w, how) ==
  /\ pc' = [pc EXCEPT ![w] = "finished"]
  /\ result' = [result EXCEPT ![w] =
                  IF how = "ok" /\ beat[w] = "failed" THEN "unknown" ELSE how]
  /\ beat' = [beat EXCEPT ![w] = "off"]
  /\ UNCHANGED <<ledgerVars, stamp, claim, opVars, tail, crashes>>

Send(w) ==
  /\ pc[w] = "claimed"
  /\ claim[w].event \notin PolicyRejected
  /\ claim[w].event \in HasMedia => file[claim[w].event]
  /\ pc' = [pc EXCEPT ![w] = "sending"]
  /\ beat' = [beat EXCEPT ![w] = "running"]
  /\ wire' = wire \cup {claim[w]}
  /\ UNCHANGED <<ledgerVars, stamp, claim, result, opVars, posted, tail, crashes>>

(* Refused before anything is sent: by the policy, or for a lost file.     *)
Refuse(w) ==
  /\ pc[w] = "claimed"
  /\ \/ claim[w].event \in PolicyRejected /\ Return(w, "policy")
     \/ /\ claim[w].event \in HasMedia \ PolicyRejected
        /\ ~file[claim[w].event]
        /\ Return(w, "retryable")
  /\ UNCHANGED netVars

(* HTTP 429 and ok:false are retryable, another 4xx is not; either way the *)
(* request had no effect.                                                  *)
Rejected(w) ==
  /\ pc[w] = "sending"
  /\ claim[w] \in wire
  /\ wire' = wire \ {claim[w]}
  /\ Return(w, "retryable") \/ Return(w, "rejected")
  /\ UNCHANGED posted

Accepted(w) ==
  /\ pc[w] = "sending"
  /\ claim[w].attempt \in posted[claim[w].event]
  /\ Return(w, "ok")
  /\ UNCHANGED netVars

(* Timeout, connection loss, 5xx, unreadable answer, or a failure after a  *)
(* first part was sent: the request may have been or may yet be applied.   *)
Unknown(w) ==
  /\ pc[w] = "sending"
  /\ Return(w, "unknown")
  /\ UNCHANGED netVars

Finish(w) ==
  /\ pc[w] = "finished"
  /\ \/ /\ result[w] = "ok"
        /\ MarkSent(claim[w], w, stamp[w])
        /\ pc' = [pc EXCEPT ![w] = "sweeping"]
        /\ result' = [result EXCEPT ![w] = "none"]
        /\ claim' = [claim EXCEPT ![w] = NoClaim]
        /\ UNCHANGED <<stamp, beat>>
     \/ /\ result[w] \in {"retryable", "rejected", "policy"}
        /\ MarkFailed(claim[w], w, stamp[w], result[w] # "retryable")
        /\ Idle(w)
     \/ /\ result[w] = "unknown"
        /\ MarkUncertain(claim[w], w)
        /\ Idle(w)
  /\ UNCHANGED <<captured, legacy, route, block, runtimeLock, audit, opVars, netVars, tail, crashes>>

(* LeaseLostError leaves run_once; the process closes and ends.            *)
LeaseLost(w) ==
  /\ pc[w] = "finished"
  /\ ~RequireLease(claim[w], w)
  /\ ReleaseRuntimeLock(WorkerProfile[w], w)
  /\ Idle(w)
  /\ UNCHANGED <<captured, legacy, route, block, deliveryVars, audit, mediaVars,
                 opVars, netVars, tail, crashes>>

Close(w) ==
  /\ pc[w] = "idle"
  /\ ReleaseRuntimeLock(WorkerProfile[w], w)
  /\ UNCHANGED <<captured, legacy, route, block, deliveryVars, audit, mediaVars,
                 workerVars, opVars, netVars, tail, crashes>>

(* One beat: both renewals, at the current time.                           *)
Heartbeat(w) ==
  /\ beat[w] = "running"
  /\ RenewRuntimeLock(WorkerProfile[w], w)
  /\ RenewDeliveryLease(claim[w].event, w)
  /\ beat' = [beat EXCEPT ![w] =
                IF /\ RenewsRuntimeLock(WorkerProfile[w], w)
                   /\ RenewsDeliveryLease(claim[w].event, w)
                THEN @ ELSE "failed"]
  /\ UNCHANGED <<captured, legacy, route, block, state, target, attempts, nextAttempt,
                 outcome, audit, mediaVars, pc, stamp, claim, result, opVars,
                 netVars, tail, crashes>>

(* Any exception, a locked database for one, ends the heartbeat thread.    *)
HeartbeatError(w) ==
  /\ beat[w] = "running"
  /\ beat' = [beat EXCEPT ![w] = "failed"]
  /\ UNCHANGED <<ledgerVars, pc, stamp, claim, result, opVars, netVars, tail, crashes>>

-----------------------------------------------------------------------------
(* Telegram applies a request at some time, or it never arrives.           *)

Apply(r) ==
  /\ wire' = wire \ {r}
  /\ posted' = [posted EXCEPT ![r.event] = @ \cup {r.attempt}]
  /\ UNCHANGED <<ledgerVars, workerVars, opVars, tail, crashes>>

Lose(r) ==
  /\ wire' = wire \ {r}
  /\ UNCHANGED <<ledgerVars, workerVars, opVars, posted, tail, crashes>>

-----------------------------------------------------------------------------
(* Operator commands: _runtime_lock, one ledger call, release.             *)

OpBegin(o) ==
  /\ opPc[o] = "idle"
  /\ commands < MaxCommands
  /\ commands' = commands + 1
  /\ AcquireRuntimeLock(OperatorProfile[o], o, 0)
  /\ opPc' = [opPc EXCEPT ![o] = IF Grants(OperatorProfile[o], o, 0) THEN "holding" ELSE @]
  /\ UNCHANGED <<captured, legacy, route, block, deliveryVars, audit, mediaVars, opRoute,
                 workerVars, netVars, tail, crashes>>

(* reconcile_route_blocks reads the route before its transaction.          *)
OpReadRoute(o, c) ==
  /\ opPc[o] = "holding"
  /\ route[c].enabled
  /\ opRoute' = [opRoute EXCEPT ![o] = [conversation |-> c, topic |-> route[c].topic]]
  /\ opPc' = [opPc EXCEPT ![o] = "reconciling"]
  /\ UNCHANGED <<ledgerVars, commands, workerVars, netVars, tail, crashes>>

OpReconcileBlocks(o) ==
  /\ opPc[o] = "reconciling"
  /\ ReconcileRouteBlocks(opRoute[o].conversation, opRoute[o].topic)
  /\ opRoute' = [opRoute EXCEPT ![o] = NoRead]
  /\ opPc' = [opPc EXCEPT ![o] = "releasing"]
  /\ UNCHANGED <<runtimeLock, commands, workerVars, netVars, tail, crashes>>

OpCommand(o) ==
  /\ opPc[o] = "holding"
  /\ \/ \E c \in Conversation, topic \in Topic, enabled \in BOOLEAN :
          SetRoute(c, topic, enabled)
     \/ \E c \in Conversation, topic \in Topic :
          \E E \in SUBSET {e \in Event : ConversationOf[e] = c} : ImportLegacy(c, topic, E)
     \/ \E c \in Conversation : RebindRouteChanged(c)
     \/ \E e \in Event : \/ ReconcileUncertainSent(e)
                         \/ ReconcileUncertainRetry(e)
                         \/ AuthorizeMediaPurge(e)
     \/ /\ CleanupMedia(0)
        /\ UNCHANGED <<captured, legacy, route, block, deliveryVars, audit>>
  /\ opPc' = [opPc EXCEPT ![o] = "releasing"]
  /\ UNCHANGED <<runtimeLock, opRoute, commands, workerVars, netVars, tail, crashes>>

(* After the call, or after it raised.                                     *)
OpEnd(o) ==
  /\ opPc[o] # "idle"
  /\ ReleaseRuntimeLock(OperatorProfile[o], o)
  /\ opPc' = [opPc EXCEPT ![o] = "idle"]
  /\ opRoute' = [opRoute EXCEPT ![o] = NoRead]
  /\ UNCHANGED <<captured, legacy, route, block, deliveryVars, audit, mediaVars, commands,
                 workerVars, netVars, tail, crashes>>

-----------------------------------------------------------------------------
(* A process dies between any two of its steps: its memory is lost, its    *)
(* rows and its requests stay.                                             *)

Orphan(row, x) == IF row.owner = x THEN [row EXCEPT !.owner = Gone] ELSE row

Crash(x) ==
  /\ crashes < MaxCrashes
  /\ crashes' = crashes + 1
  /\ lease' = [e \in Event |-> Orphan(lease[e], x)]
  /\ runtimeLock' = [p \in Profile |-> Orphan(runtimeLock[p], x)]
  /\ \/ /\ x \in Worker
        /\ pc[x] # "idle"
        /\ Idle(x)
        /\ UNCHANGED opVars
     \/ /\ x \in Operator
        /\ opPc[x] # "idle"
        /\ opPc' = [opPc EXCEPT ![x] = "idle"]
        /\ opRoute' = [opRoute EXCEPT ![x] = NoRead]
        /\ UNCHANGED <<commands, workerVars>>
  /\ UNCHANGED <<captured, legacy, route, block, state, target, attempts, nextAttempt,
                 outcome, audit, mediaVars, netVars, tail>>

(* One second passes.  With Timely, not while a heartbeat owes a renewal.  *)
Tick ==
  /\ \A w \in Worker : pc[w] \in PreClaim => stamp[w] > -MaxStall
  /\ Timely => \A w \in Worker :
       /\ pc[w] \in Claimed => lease[claim[w].event].expires > 1
       /\ pc[w] \in PreClaim \cup Claimed => runtimeLock[WorkerProfile[w]].expires > 1
  /\ stamp' = [w \in Worker |-> IF pc[w] = "idle" THEN 0 ELSE Earlier(stamp[w])]
  /\ lease' = [e \in Event |-> Older(lease[e])]
  /\ runtimeLock' = [p \in Profile |-> Older(runtimeLock[p])]
  /\ nextAttempt' = [e \in Event |-> IF state[e] \in Waiting THEN Earlier(nextAttempt[e])
                                     ELSE nextAttempt[e]]
  /\ mediaDue' = [e \in Event |-> IF media[e] = "cleanup_pending" THEN Earlier(mediaDue[e])
                                  ELSE mediaDue[e]]
  /\ UNCHANGED <<captured, legacy, route, block, state, target, attempts, outcome, audit,
                 media, purged, file, pc, claim, beat, result, opVars, netVars, tail, crashes>>

-----------------------------------------------------------------------------
WorkerStep(w) ==
  \/ Start(w) \/ Clean(w) \/ Claim(w) \/ Send(w) \/ Refuse(w)
  \/ Rejected(w) \/ Accepted(w) \/ Unknown(w) \/ Finish(w) \/ LeaseLost(w)
  \/ Close(w) \/ Heartbeat(w) \/ HeartbeatError(w)

OperatorStep(o) ==
  \/ OpBegin(o) \/ OpReconcileBlocks(o) \/ OpCommand(o) \/ OpEnd(o)
  \/ \E c \in Conversation : OpReadRoute(o, c)

Next ==
  \/ \E e \in Event : Produce(e) \/ TailStep(e)
  \/ \E c \in Conversation, topic \in Topic : ProvisionRoute(c, topic)
  \/ \E w \in Worker : WorkerStep(w)
  \/ \E r \in wire : Apply(r) \/ Lose(r)
  \/ \E o \in Operator : OperatorStep(o)
  \/ \E x \in Process : Crash(x)
  \/ Tick

Spec == Init /\ [][Next]_vars

(* Time passes; a process that is running takes its next step (a timer     *)
(* starts workers again and again), its transport call has a timeout, and  *)
(* a command releases its lock.  Nothing obliges producers, operators,     *)
(* heartbeats or Telegram to act, nor a process not to crash.              *)
Fairness ==
  /\ WF_vars(Tick)
  /\ \A w \in Worker : /\ WF_vars(Start(w)) /\ WF_vars(Clean(w)) /\ WF_vars(Claim(w))
                      /\ WF_vars(Send(w)) /\ WF_vars(Refuse(w)) /\ WF_vars(Unknown(w))
                      /\ WF_vars(Finish(w)) /\ WF_vars(LeaseLost(w))
  /\ \A o \in Operator : WF_vars(OpEnd(o))

FairSpec == Spec /\ Fairness
-----------------------------------------------------------------------------
DeliveriesOK ==
  /\ state \in [Event -> DeliveryState \cup {"none"}]
  /\ target \in [Event -> Topic \cup {None}]
  /\ attempts \in [Event -> Nat]
  /\ nextAttempt \in [Event -> Int]
  /\ outcome \in [Event -> Seq(Outcome)]
  /\ lease \in [Event -> Hold]

MediaOK ==
  /\ media \in [Event -> {"none", "active", "cleanup_pending"}]
  /\ mediaDue \in [Event -> Int]
  /\ purged \in SUBSET Event
  /\ file \in [Event -> BOOLEAN]

TablesOK ==
  /\ captured \in SUBSET Event
  /\ legacy \in SUBSET Event
  /\ route \in [Conversation -> [topic : Topic \cup {None}, enabled : BOOLEAN]]
  /\ block \in [Event -> {"none", "blocked_no_route", "requeued"}]
  /\ runtimeLock \in [Profile -> Hold]
  /\ audit \in SUBSET [event : Event, attempt : Nat, resolution : Resolution]

WorkersOK ==
  /\ pc \in [Worker -> {"idle", "sweeping"} \cup PreClaim \cup Claimed]
  /\ stamp \in [Worker -> Int]
  /\ claim \in [Worker -> [event : Event \cup {None}, attempt : Nat]]
  /\ beat \in [Worker -> {"off", "running", "failed"}]
  /\ result \in [Worker -> {"none", "ok", "retryable", "rejected", "unknown", "policy"}]
  /\ \A w \in Worker : pc[w] \in Claimed => claim[w].event \in Event

OperatorsOK ==
  /\ opPc \in [Operator -> {"idle", "holding", "reconciling", "releasing"}]
  /\ opRoute \in [Operator -> [conversation : Conversation \cup {None},
                               topic : Topic \cup {None}]]
  /\ commands \in 0..MaxCommands
  /\ crashes \in 0..MaxCrashes

NetworkOK ==
  /\ wire \in SUBSET [event : Event, attempt : Nat]
  /\ posted \in [Event -> SUBSET Nat]

TailOK == tail \in [Event -> [at : {"idle", "looked", "unrouted", "routed", "clear"},
                              topic : Topic \cup {None}]]

(* Every variable holds a value of its column or program variable, and a   *)
(* worker past its claim works on an event.                                *)
TypeOK == /\ DeliveriesOK /\ MediaOK /\ TablesOK /\ WorkersOK /\ OperatorsOK /\ NetworkOK
          /\ TailOK

(* A message that Telegram has applied is followed by another applied      *)
(* attempt of the same event only if an operator released the earlier one  *)
(* with evidence: no expired lease, crash, late answer or lost owner leads *)
(* to a blind resend (README invariant 5, ledger.py mark_uncertain).       *)
Waived(e, n) == [event |-> e, attempt |-> n, resolution |-> "uncertain_retry"] \in audit
NoBlindResend ==
  \A e \in Event : \A m, n \in posted[e] : m < n => Waived(e, m)

(* An attempt recorded as a known failure never reached Telegram and never *)
(* will: only those are retried without an operator.                       *)
KnownFailuresNeverLand ==
  \A e \in Event : \A n \in DOMAIN outcome[e] :
    outcome[e][n] \in {"retry", "dead"} =>
      n \notin posted[e] /\ [event |-> e, attempt |-> n] \notin wire

(* A delivery reads sent only when its last attempt was applied or an      *)
(* operator vouched for it; a worker that lost its lease cannot say so.    *)
SentIsProven ==
  \A e \in Event : state[e] = "sent" =>
    \/ attempts[e] \in posted[e]
    \/ [event |-> e, attempt |-> attempts[e], resolution |-> "uncertain_mark_sent"] \in audit

(* The three tables agree at every commit: a lease row stands for exactly  *)
(* the delivery that is inflight, and its last attempt alone is open; and  *)
(* the ledger holds at most one lease, of whatever profile (WIP=1).        *)
LeaseIsTheInflightDelivery ==
  /\ \A e \in Event : /\ HasLease(e) <=> state[e] = "inflight"
                      /\ \A n \in DOMAIN outcome[e] :
                           outcome[e][n] = "started" <=> HasLease(e) /\ n = attempts[e]
  /\ \A e, f \in Event : HasLease(e) /\ HasLease(f) => e = f

(* Captured content is never dropped between the tables: an event that the *)
(* producer committed waits in a delivery or in a visible route block, and *)
(* a block is lifted only together with a delivery.                        *)
NothingFallsOut ==
  \A e \in Event \ legacy :
    /\ e \in captured \ Tailed => state[e] # "none" \/ block[e] = "blocked_no_route"
    /\ block[e] = "requeued" => state[e] # "none"

(* Once the import has listed an id that has no delivery and that no       *)
(* enqueue of the tail has already looked up, it is never queued: not by a *)
(* capture, a re-read of its line, or the lifting of an older block.       *)
Barred(e) == e \in legacy /\ state[e] = "none" /\ tail[e] = NoCall
LegacyIsNotQueued == [][\A e \in Event : Barred(e) => Barred(e)']_vars

(* A claim goes to the topic that is the enabled route of the conversation *)
(* at that moment, whatever target the row was given when it was queued,   *)
(* and a worker claims only for its own profile.                           *)
ClaimsFollowTheRoute ==
  [][\A e \in Event : state[e] # "inflight" /\ state'[e] = "inflight" =>
       /\ route[ConversationOf[e]] = [topic |-> target'[e], enabled |-> TRUE]
       /\ \E w \in Worker : /\ lease'[e].owner = w
                            /\ ProfileOf[e] = WorkerProfile[w]]_vars

(* Only an audited operator decision takes a delivery out of uncertain,    *)
(* and none takes it out of sent or dead.                                  *)
OperatorResolvesUncertain ==
  [][\A e \in Event :
       /\ state[e] \in {"sent", "dead"} => state'[e] = state[e]
       /\ state[e] = "uncertain" /\ state'[e] # "uncertain" =>
            \E r \in {"uncertain_mark_sent", "uncertain_retry"} : Audit(e, r) \in audit' \ audit
    ]_vars

(* A spool file disappears only once its event is sent or an operator has  *)
(* authorised the purge.                                                   *)
MediaRemovalIsJustified ==
  \A e \in HasMedia \cap captured : ~file[e] => state[e] = "sent" \/ e \in purged

(* docs/ARCHITECTURE.md:133: the media of a delivery in retry is preserved: *)
(* no step deletes its file.                                               *)
RetryMediaIsPreserved ==
  [][\A e \in HasMedia : file[e] /\ state[e] = "retry" => file'[e]]_vars

(* docs/ARCHITECTURE.md:113: the global WIP=1 prevents concurrent sends.   *)
NoConcurrentSends ==
  \A v, w \in Worker : pc[v] = "sending" /\ pc[w] = "sending" => v = w

(* Whatever crashes, stalls or races occur, every queued delivery settles: *)
(* it is sent, gives up, stops for its route, or waits as uncertain for an *)
(* operator; none stays inflight behind a dead owner, none retries forever. *)
DeliveriesSettle ==
  \A e \in Event :
    state[e] \in Waiting \cup {"inflight"} ~>
      state[e] \in {"sent", "dead", "blocked", "uncertain"}

(* The abstract outbox, seen through the tables.                           *)
PhaseOf == [none |-> "absent", pending |-> "queued", retry |-> "queued",
            inflight |-> "sending", blocked |-> "parked", dead |-> "dead",
            sent |-> "sent", uncertain |-> "uncertain"]

OutboxView ==
  [e \in Event |->
     [phase    |-> PhaseOf[state[e]],
      n        |-> attempts[e],
      landed   |-> posted[e],
      failed   |-> {k \in DOMAIN outcome[e] : outcome[e][k] \in {"retry", "dead"}},
      released |-> {k \in 1..attempts[e] : Waived(e, k)}]]

Outbox == INSTANCE MirrorOutbox WITH box <- OutboxView

(* Every transaction of every process is a step of the outbox, or hidden:  *)
(* a dispatch only after all earlier ones are refuted or released, a       *)
(* confirmation only of what was applied, one dispatch at a time.          *)
ImplementsOutbox == Outbox!Spec
=============================================================================
