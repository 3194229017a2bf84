---------------------------- MODULE HumanOutbound ----------------------------
(***************************************************************************)
(* Replies a person writes in a forum topic and the Hermes plugin sends to *)
(* WhatsApp (integrations/hermes/__init__.py), through a route of the      *)
(* bridge (integrations/hermes/direct_bridge/bridge_guard.py).             *)
(*                                                                         *)
(* The gateway process runs the hook, one drain of the durable queue, and  *)
(* the watcher of the ARM file, each in a thread of its own.  The ARM file *)
(* is written by others (upgrade_guard.py): armed says that reading it now *)
(* succeeds, armId which version it is.  A reading that straddles the      *)
(* atomic replacement of the file fails, which is a Revoke and a Rearm     *)
(* around it.                                                              *)
(***************************************************************************)
EXTENDS Integers, FiniteSets

CONSTANTS
  Request,         \* the human messages of mapped topics
  MaxAttempts,     \* _MAX_OUTBOUND_ATTEMPTS
  MaxArms,         \* bound: versions of the ARM file
  MaxCrashes,      \* bound: crashes of the gateway or of the bridge
  MaxFailures,     \* bound: writes to the ledger that fail
  None

ASSUME OutboundAssumption ==
  /\ MaxAttempts \in Nat \ {0}
  /\ {MaxArms, MaxCrashes, MaxFailures} \subseteq Nat
  /\ None \notin Request

VARIABLES
  status,      \* hermes_human_outbound.status per request, "absent" without a row
  tries,       \* attempt_count
  resting,     \* next_attempt_at is in the future
  media,       \* the managed copy of the request's media exists
  gateway,     \* "down", "starting" (registered, hook not ready), "ready"
  hook,        \* where the hook is with a message
  runner, job, answer,   \* the drain: its step, its claim, the bridge's answer to it
  seen, saw,   \* watcher: last_arm_identity, and the identity it is looking at
  armed, armId,
  post,        \* requests the bridge has received and not concluded
  known,       \* _espelhoHumanRequestResults
  delivered,   \* how often WhatsApp got the message
  crashes, failures

queue   == <<status, tries, resting>>
drain   == <<runner, job, answer>>
watcher == <<seen, saw>>
arm     == <<armed, armId>>
bridge  == <<post, known, delivered>>
bounds  == <<crashes, failures>>
vars    == <<queue, media, gateway, hook, drain, watcher, arm, bridge, bounds>>

Init ==
  /\ status = [r \in Request |-> "absent"]
  /\ tries = [r \in Request |-> 0]
  /\ resting = {}
  /\ media = {}
  /\ gateway = "down"
  /\ hook = [r \in Request |-> "idle"]
  /\ runner = "off" /\ job = None /\ answer = "none"
  /\ seen = 0 /\ saw = 0
  /\ armed = FALSE /\ armId = 0
  /\ post = {}
  /\ known = [r \in Request |-> "none"]
  /\ delivered = [r \in Request |-> 0]
  /\ crashes = 0 /\ failures = 0

-----------------------------------------------------------------------------
(* The hook.                                                               *)

Prepared == {r \in Request : status[r] = "prepared"}
Staging  == \E r \in Request : hook[r] = "staging"    \* holds BEGIN IMMEDIATE

HookAt(r, where) == hook' = [hook EXCEPT ![r] = where]

(* _submit_human_outbound: the key of a drain that has not ended is in     *)
(* _OUTBOUND_WAKE_PENDING.                                                 *)
Submit ==
  /\ runner' = IF armed /\ runner = "off" THEN "drain" ELSE runner
  /\ UNCHANGED <<job, answer>>

(* A message of the forum, for the first time, and the copy of its media,  *)
(* which replaces what a crash may have left.  When it comes again the row *)
(* is found and nothing changes.                                           *)
Stage(r) ==
  /\ gateway = "ready"
  /\ hook[r] = "idle"
  /\ armed
  /\ ~Staging
  /\ status[r] = "absent"
  /\ HookAt(r, "staging")
  /\ media' = media \cup {r}
  /\ UNCHANGED <<queue, gateway, drain, watcher, arm, bridge, bounds>>

Insert(r) ==
  /\ hook[r] = "staging"
  /\ armed
  /\ status' = [status EXCEPT ![r] = "prepared"]
  /\ HookAt(r, "committed")
  /\ UNCHANGED <<tries, resting, media, gateway, drain, watcher, arm, bridge, bounds>>

(* Disarmed while staging, or the copy fails.                              *)
Abandon(r) ==
  /\ hook[r] = "staging"
  /\ media' = media \ {r}
  /\ HookAt(r, "idle")
  /\ UNCHANGED <<queue, gateway, drain, watcher, arm, bridge, bounds>>

HookSubmits(r) ==
  /\ hook[r] = "committed"
  /\ HookAt(r, "idle")
  /\ Submit
  /\ UNCHANGED <<queue, media, gateway, watcher, arm, bridge, bounds>>

-----------------------------------------------------------------------------
(* The drain.                                                              *)

At(step) ==
  /\ runner = step
  /\ UNCHANGED <<media, gateway, hook, watcher, arm, crashes>>

Goto(step) == runner' = step /\ UNCHANGED <<job, answer>>

Drop(step) == runner' = step /\ job' = None /\ answer' = "none"

DrainStarts ==
  /\ At("drain")
  /\ Goto(IF armed THEN "claim" ELSE "check")
  /\ UNCHANGED <<queue, bridge, failures>>

(* The claim finds the ARM gone, or waits too long for the write lock: the *)
(* exception ends the drain and its wake-up loop.                          *)
ClaimRaises ==
  /\ At("claim")
  /\ ~armed \/ Staging
  /\ Goto("ending")
  /\ UNCHANGED <<queue, bridge, failures>>

(* _claim_prepared_outbound; which of the due rows is oldest is left open. *)
Claim(r) ==
  /\ At("claim")
  /\ ~Staging
  /\ armed
  /\ r \in Prepared \ resting
  /\ status' = [status EXCEPT ![r] = "sending"]
  /\ tries' = [tries EXCEPT ![r] = @ + 1]
  /\ runner' = "claimed" /\ job' = r
  /\ UNCHANGED <<resting, answer, bridge, failures>>

(* Nothing is due: sleep until something is, or end.                       *)
NothingDue ==
  /\ At("claim")
  /\ Prepared \subseteq resting
  /\ Goto(IF Prepared = {} THEN "check" ELSE "drain")
  /\ UNCHANGED <<queue, bridge, failures>>

ReleaseCounted(next) ==      \* faulty Release: the attempt stays counted
  /\ At("claimed")
  /\ ~armed /\ ~Staging
  /\ status' = [status EXCEPT ![job] = "prepared"]
  /\ Drop(next)
  /\ UNCHANGED <<tries, resting, bridge, failures>>

(* _release_disarmed_outbound_claim.  Disarmed before the dispatch ends    *)
(* the drain, and within it only this claim.                               *)
Release(next) ==
  /\ At("claimed")
  /\ ~armed /\ ~Staging
  /\ status' = [status EXCEPT ![job] = "prepared"]
  /\ tries' = [tries EXCEPT ![job] = @ - 1]
  /\ Drop(next)
  /\ UNCHANGED <<resting, bridge, failures>>

(* connection.request, just after the last look at the ARM.                *)
Post ==
  /\ At("claimed")
  /\ armed
  /\ Goto("posting")
  /\ post' = post \cup {[request |-> job, nr |-> tries[job], at |-> "arrived"]}
  /\ UNCHANGED <<queue, known, delivered, failures>>

(* No connection: nothing was attempted.  Or the token is unusable, which  *)
(* is a rejection, or unreadable, which counts as ambiguous.               *)
PostFails ==
  /\ At("claimed")
  /\ runner' = "answered"
  /\ answer' \in {"unattempted", "rejected", "uncertain"}
  /\ UNCHANGED <<job, queue, bridge, failures>>

(* A timeout, or a connection that broke.                                  *)
Timeout ==
  /\ At("posting")
  /\ runner' = "answered" /\ answer' = "uncertain"
  /\ UNCHANGED <<job, queue, bridge, failures>>

(* Faulty Outcome: what is ambiguous is retried.                           *)
OutcomeRetried ==
  CASE answer = "success"  -> "sent"
    [] answer = "rejected" -> "failed"
    [] answer \in {"unattempted", "uncertain"} ->
         IF tries[job] >= MaxAttempts THEN "failed" ELSE "prepared"

Outcome ==
  CASE answer = "success"   -> "sent"
    [] answer = "uncertain" -> "uncertain"
    [] answer = "rejected"  -> "failed"
    [] answer = "unattempted" ->
         IF tries[job] >= MaxAttempts THEN "failed" ELSE "prepared"

CleanedAll == {"sent", "failed", "uncertain"}   \* faulty Cleaned
Cleaned    == {"sent", "failed"}

(* _finish_outbound or _retry_or_fail_outbound.                            *)
Finish ==
  /\ At("answered")
  /\ ~Staging
  /\ status[job] = "sending"
  /\ status' = [status EXCEPT ![job] = Outcome]
  /\ resting' = IF Outcome = "prepared" THEN resting \cup {job} ELSE resting
  /\ IF Outcome \in Cleaned
     THEN Goto("cleaning")
     ELSE Drop("drain")
  /\ UNCHANGED <<tries, bridge, failures>>

(* The ledger cannot be written.  After a success the row stays as it is;  *)
(* any other failure, that of a release too, may be followed by a second   *)
(* attempt to write, as uncertain, and ends the drain.                     *)
WriteFails ==
  /\ failures < MaxFailures
  /\ failures' = failures + 1
  /\ \/ At("answered")
     \/ At("claimed") /\ ~armed
  /\ IF answer = "success"
     THEN UNCHANGED status /\ Drop("drain")
     ELSE /\ status' \in {status, [status EXCEPT ![job] = "uncertain"]}
          /\ Drop("check")
  /\ UNCHANGED <<tries, resting, bridge>>

Clean ==
  /\ runner = "cleaning"
  /\ media' = media \ {job}
  /\ Drop("drain")
  /\ UNCHANGED <<queue, gateway, hook, watcher, arm, bridge, bounds>>

DropOwnership ==            \* faulty Check: the queue is not looked at again
  /\ At("check")
  /\ Goto("off")
  /\ UNCHANGED <<queue, bridge, failures>>

(* Under _OUTBOUND_WAKE_LOCK, which Submit takes too.                      *)
Check ==
  /\ At("check")
  /\ Goto(IF armed /\ Prepared # {} THEN "drain" ELSE "off")
  /\ UNCHANGED <<queue, bridge, failures>>

EndByException ==
  /\ At("ending")
  /\ Goto("off")
  /\ UNCHANGED <<queue, bridge, failures>>

(* The backoff of a retry passes.                                          *)
Due(r) ==
  /\ r \in resting
  /\ resting' = resting \ {r}
  /\ UNCHANGED <<status, tries, media, gateway, hook, drain, watcher, arm, bridge, bounds>>

-----------------------------------------------------------------------------
(* The watcher of the ARM file.                                            *)

Look ==
  /\ gateway # "down"
  /\ saw = 0
  /\ IF armed
     THEN armId # seen /\ saw' = armId /\ UNCHANGED seen
     ELSE seen # 0 /\ seen' = 0 /\ UNCHANGED saw
  /\ UNCHANGED <<queue, media, gateway, hook, drain, arm, bridge, bounds>>

LookWithoutWake ==          \* faulty Wake
  /\ saw # 0
  /\ seen' = saw /\ saw' = 0
  /\ UNCHANGED <<queue, media, gateway, hook, drain, arm, bridge, bounds>>

Wake ==
  /\ saw # 0
  /\ seen' = saw /\ saw' = 0
  /\ IF Prepared # {} THEN Submit ELSE UNCHANGED drain
  /\ UNCHANGED <<queue, media, gateway, hook, arm, bridge, bounds>>

(* Faulty Register: the claims of the dead process are prepared again.     *)
RegisterPrepares ==
  /\ gateway = "down"
  /\ gateway' = "starting"
  /\ status' = [r \in Request |-> IF status[r] = "sending" THEN "prepared" ELSE status[r]]
  /\ UNCHANGED <<tries, resting, media, hook, drain, watcher, arm, bridge, bounds>>

(* register: _recover_outbound, then the watcher starts.                   *)
Register ==
  /\ gateway = "down"
  /\ gateway' = "starting"
  /\ status' = [r \in Request |-> IF status[r] = "sending" THEN "uncertain" ELSE status[r]]
  /\ UNCHANGED <<tries, resting, media, hook, drain, watcher, arm, bridge, bounds>>

Ready ==
  /\ gateway = "starting"
  /\ gateway' = "ready"
  /\ Submit
  /\ UNCHANGED <<queue, media, hook, watcher, arm, bridge, bounds>>

Crash ==
  /\ gateway # "down"
  /\ crashes < MaxCrashes
  /\ crashes' = crashes + 1
  /\ gateway' = "down"
  /\ hook' = [r \in Request |-> "idle"]
  /\ Drop("off")
  /\ seen' = 0 /\ saw' = 0
  /\ UNCHANGED <<queue, media, arm, bridge, failures>>

-----------------------------------------------------------------------------
(* The ARM file: removed or replaced by a deployment or by the guard.      *)

Revoke ==
  /\ armed
  /\ armed' = FALSE
  /\ UNCHANGED <<queue, media, gateway, hook, drain, watcher, armId, bridge, bounds>>

Rearm ==
  /\ ~armed
  /\ armId < MaxArms
  /\ armed' = TRUE /\ armId' = armId + 1
  /\ UNCHANGED <<queue, media, gateway, hook, drain, watcher, bridge, bounds>>

-----------------------------------------------------------------------------
(* The bridge.  Requests are served one at a time; results are remembered  *)
(* by request until the bridge restarts.                                   *)

Serving == {p \in post : p.at = "sending"}

(* The answer reaches the drain that still waits for it.                   *)
Reply(p, a) ==
  IF runner = "posting" /\ job = p.request /\ tries[job] = p.nr
  THEN runner' = "answered" /\ answer' = a /\ UNCHANGED job
  ELSE UNCHANGED drain

BridgeStep(p) ==
  /\ p \in post
  /\ UNCHANGED <<queue, media, gateway, hook, watcher, arm, bounds>>

AnswerAgain(p) ==
  /\ BridgeStep(p)
  /\ p.at = "arrived"
  /\ known[p.request] # "none"
  /\ post' = post \ {p}
  /\ Reply(p, known[p.request])
  /\ UNCHANGED <<known, delivered>>

(* WhatsApp is not connected or the media does not pass (attempted:false), *)
(* or a file cannot be read, which the answer leaves open.                 *)
Refuse(p) ==
  /\ BridgeStep(p)
  /\ p.at = "arrived"
  /\ known[p.request] = "none"
  /\ post' = post \ {p}
  /\ \E a \in {"unattempted", "rejected", "uncertain"} : Reply(p, a)
  /\ UNCHANGED <<known, delivered>>

Serve(p) ==
  /\ BridgeStep(p)
  /\ p.at = "arrived"
  /\ known[p.request] = "none"
  /\ Serving = {}
  /\ post' = (post \ {p}) \cup {[p EXCEPT !.at = "sending"]}
  /\ UNCHANGED <<drain, known, delivered>>

Deliver(p) ==
  /\ BridgeStep(p)
  /\ p.at \in {"sending", "late"}
  /\ delivered' = [delivered EXCEPT ![p.request] = @ + 1]
  /\ post' = (post \ {p}) \cup
       {[p EXCEPT !.at = "delivered"] : q \in {p} \cap Serving}
  /\ UNCHANGED <<drain, known>>

Succeed(p) ==
  /\ BridgeStep(p)
  /\ p.at = "delivered"
  /\ known' = [known EXCEPT ![p.request] = "success"]
  /\ post' = post \ {p}
  /\ Reply(p, "success")
  /\ UNCHANGED delivered

(* A failure once the sending began, or sendManualWithTimeout gives up on  *)
(* a message that may still go out.                                        *)
GiveUp(p) ==
  /\ BridgeStep(p)
  /\ p.at \in {"sending", "delivered"}
  /\ known' = [known EXCEPT ![p.request] = "uncertain"]
  /\ post' = (post \ {p}) \cup {[p EXCEPT !.at = "late"] : q \in {p} \cap Serving}
  /\ Reply(p, "uncertain")
  /\ UNCHANGED delivered

Lose(p) ==
  /\ BridgeStep(p)
  /\ p.at = "late"
  /\ post' = post \ {p}
  /\ UNCHANGED <<drain, known, delivered>>

BridgeCrash ==
  /\ crashes < MaxCrashes
  /\ crashes' = crashes + 1
  /\ post' = {}
  /\ known' = [r \in Request |-> "none"]
  /\ UNCHANGED <<queue, media, gateway, hook, drain, watcher, arm, delivered, failures>>

-----------------------------------------------------------------------------
HookStep(r) ==
  Stage(r) \/ Insert(r) \/ Abandon(r) \/ HookSubmits(r)

DrainStep ==
  \/ DrainStarts \/ ClaimRaises \/ NothingDue \/ Release("check") \/ Release("drain")
  \/ Post \/ PostFails \/ Timeout \/ Finish \/ WriteFails \/ Clean \/ Check
  \/ EndByException
  \/ \E r \in Request : Claim(r)

Process == Look \/ Wake \/ Register \/ Ready \/ Crash \/ Revoke \/ Rearm \/ BridgeCrash

Bridge ==
  \E p \in post : \/ AnswerAgain(p) \/ Refuse(p) \/ Serve(p) \/ Deliver(p) \/ Succeed(p)
                  \/ GiveUp(p) \/ Lose(p)

Next ==
  \/ \E r \in Request : HookStep(r) \/ Due(r)
  \/ DrainStep \/ Process \/ Bridge

Spec == Init /\ [][Next]_vars

(* Threads of the gateway go on, it is started again, and time passes.     *)
(* Nothing is assumed of messages, of the ARM file or of the bridge.       *)
Fairness ==
  /\ \A r \in Request :
       /\ WF_vars(Insert(r) \/ Abandon(r)) /\ WF_vars(HookSubmits(r))
       /\ WF_vars(Due(r))
  /\ WF_vars(DrainStep)
  /\ WF_vars(Look) /\ WF_vars(Wake)
  /\ WF_vars(Register) /\ WF_vars(Ready)

FairSpec == Spec /\ Fairness

-----------------------------------------------------------------------------
(* Every variable holds a value of its column, thread or file.             *)
TypeOK ==
  /\ status \in [Request ->
       {"absent", "prepared", "sending", "sent", "failed", "uncertain"}]
  /\ tries \in [Request -> 0..MaxAttempts]
  /\ resting \in SUBSET Request /\ media \in SUBSET Request
  /\ gateway \in {"down", "starting", "ready"}
  /\ hook \in [Request -> {"idle", "staging", "committed"}]
  /\ runner \in {"off", "drain", "claim", "claimed", "posting", "answered", "cleaning",
                 "check", "ending"}
  /\ job \in Request \cup {None}
  /\ answer \in {"none", "success", "unattempted", "rejected", "uncertain"}
  /\ {seen, saw, armId} \subseteq 0..MaxArms
  /\ armed \in BOOLEAN
  /\ post \in SUBSET [request : Request, nr : 1..MaxAttempts,
                      at : {"arrived", "sending", "delivered", "late"}]
  /\ known \in [Request -> {"none", "success", "uncertain"}]
  /\ delivered \in [Request -> Nat]
  /\ crashes \in 0..MaxCrashes /\ failures \in 0..MaxFailures

(* docs/ACCEPTANCE_TESTS.md:114, zero duplicates: WhatsApp gets a reply at *)
(* most once, whatever crashes, times out or is disarmed.                  *)
DeliveredOnce == \A r \in Request : delivered[r] <= 1

(* A reply recorded as failed has not been delivered and will not be; one  *)
(* recorded as sent has been (docs/HUMAN_OUTBOUND.md:83-86).               *)
RecordIsTrue ==
  \A r \in Request :
    /\ status[r] = "sent" => delivered[r] > 0
    /\ status[r] = "failed" => delivered[r] = 0 /\ \A p \in post : p.request # r

(* The managed copy is there as long as the reply may be sent, and when    *)
(* the outcome is unknown (docs/HUMAN_OUTBOUND.md:49-51).                  *)
MediaIsKept ==
  \A r \in Request : status[r] \in {"prepared", "sending", "uncertain"} => r \in media

(* A prepared reply is claimed once the ARM file stays valid, without a    *)
(* new message or a restart, if no claim ends by an exception              *)
(* (docs/HUMAN_OUTBOUND.md:123-125).                                       *)
PreparedIsTried ==
  <>[]armed /\ [](runner # "ending") =>
    \A r \in Request : status[r] = "prepared" ~> status[r] # "prepared"

(* __init__.py:2191-2194: whoever submits while a drain ends is seen by its *)
(* last look at the queue, or starts a new drain.                          *)
NoWakeIsLost ==
  <>[]armed => \A r \in Request : status[r] = "prepared" ~> status[r] # "prepared"
=============================================================================
