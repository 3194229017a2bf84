--------------------------- MODULE OutboundSafety ---------------------------
(***************************************************************************)
(* Proofs about HumanOutbound: a reply reaches WhatsApp at most once, its  *)
(* record is true, and its media is kept, for any number of requests,      *)
(* attempts, ARM versions, crashes and failed writes.                      *)
(*                                                                         *)
(* None of the three is inductive.  What carries them is the relation      *)
(* between three processes that share no lock: the row in the ledger, the  *)
(* claim in the drain, and what the bridge does with a dispatch.           *)
(***************************************************************************)
EXTENDS HumanOutbound, TLAPS

(* Nothing of request r has reached the bridge, or all of it was refused.  *)
Fresh(r) ==
  /\ \A p \in post : p.request # r
  /\ delivered[r] = 0
  /\ known[r] = "none"

(* The gateway process is down with all its threads.                       *)
ThreadsLive ==
  gateway = "down" => /\ runner = "off" /\ saw = 0
                      /\ \A r \in Request : hook[r] = "idle"

(* The drain works on a row that it has claimed and nobody else touches.   *)
JobIsClaimed ==
  /\ runner \in {"claimed", "posting", "answered"} =>
       job \in Request /\ status[job] = "sending" /\ tries[job] >= 1
  /\ runner = "cleaning" => job \in Request /\ status[job] \in {"sent", "failed"}
  /\ runner \notin {"answered", "cleaning"} => answer = "none"
  /\ runner = "answered" => answer # "none"

(* An attempt is left for what may be claimed.                             *)
AttemptsAreLeft ==
  \A r \in Request : /\ status[r] = "absent" => tries[r] = 0
                     /\ status[r] = "prepared" => tries[r] < MaxAttempts

(* A message is copied before its row is written, and its row keeps the    *)
(* copy.                                                                   *)
CopiesAreKept ==
  \A r \in Request :
    /\ hook[r] = "staging" => status[r] = "absent" /\ r \in media
    /\ status[r] \in {"prepared", "sending", "uncertain"} => r \in media

(* The bridge has at most one dispatch of a request, not yet delivered     *)
(* unless it says so, and has concluded none that it still works on.       *)
DispatchesAreUnique ==
  /\ \A p, q \in post : p.request = q.request => p = q
  /\ \A p \in post : /\ p.at \in {"arrived", "sending", "late"} => delivered[p.request] = 0
                     /\ p.at = "delivered" => delivered[p.request] = 1
                     /\ p.at # "late" => known[p.request] = "none"

(* What may be dispatched, or was refused, has left no trace at WhatsApp;  *)
(* what was confirmed has been delivered.                                  *)
RecordsFollowTheBridge ==
  /\ \A r \in Request : /\ status[r] \in {"absent", "prepared", "failed"} => Fresh(r)
                        /\ status[r] = "sent" => delivered[r] > 0
  /\ runner = "claimed" => Fresh(job)
  /\ runner = "answered" /\ answer \in {"unattempted", "rejected"} => Fresh(job)
  /\ runner = "answered" /\ answer = "success" => delivered[job] > 0

OutboundInvariant ==
  /\ ThreadsLive
  /\ JobIsClaimed
  /\ AttemptsAreLeft
  /\ CopiesAreKept
  /\ DispatchesAreUnique
  /\ RecordsFollowTheBridge
  /\ DeliveredOnce

-----------------------------------------------------------------------------
(* Types.                                                                  *)

LEMMA Attempts ==
  /\ MaxAttempts \in Nat /\ MaxAttempts >= 1
  /\ MaxArms \in Nat /\ MaxCrashes \in Nat /\ MaxFailures \in Nat
BY OutboundAssumption

LEMMA InitType == Init => TypeOK
<1> SUFFICES ASSUME Init PROVE TypeOK
  OBVIOUS
<1>1. {seen, saw, armId} \subseteq 0..MaxArms
  BY Attempts DEF Init
<1>2. /\ 0 \in 0..MaxAttempts /\ 0 \in 0..MaxCrashes /\ 0 \in 0..MaxFailures
  BY Attempts
<1> QED BY <1>1, <1>2 DEF Init, TypeOK

(* One more or one less attempt of a claimed or waiting row stays in range.*)
LEMMA CountType ==
  ASSUME TypeOK, NEW r \in Request
  PROVE  /\ tries[r] < MaxAttempts => [tries EXCEPT ![r] = @ + 1] \in [Request -> 0..MaxAttempts]
         /\ tries[r] >= 1 => [tries EXCEPT ![r] = @ - 1] \in [Request -> 0..MaxAttempts]
BY Attempts DEF TypeOK

LEMMA HookType ==
  ASSUME TypeOK, NEW r \in Request, HookStep(r) \/ Due(r)
  PROVE  TypeOK'
<1>1. CASE Stage(r)
  BY <1>1 DEF Stage, HookAt, TypeOK, queue, drain, watcher, arm, bridge, bounds
<1>2. CASE Insert(r)
  BY <1>2 DEF Insert, HookAt, TypeOK, drain, watcher, arm, bridge, bounds
<1>3. CASE Abandon(r)
  BY <1>3 DEF Abandon, HookAt, TypeOK, queue, drain, watcher, arm, bridge, bounds
<1>4. CASE HookSubmits(r)
  BY <1>4 DEF HookSubmits, HookAt, Submit, TypeOK, queue, watcher, arm, bridge, bounds
<1>5. CASE Due(r)
  BY <1>5 DEF Due, TypeOK, drain, watcher, arm, bridge, bounds
<1> QED BY <1>1, <1>2, <1>3, <1>4, <1>5 DEF HookStep

LEMMA DrainType ==
  ASSUME TypeOK, OutboundInvariant, DrainStep
  PROVE  TypeOK'
<1> USE DEF At, Goto, Drop, TypeOK, queue, drain, watcher, arm, bridge, bounds
<1>1. CASE DrainStarts \/ ClaimRaises \/ NothingDue \/ Check \/ EndByException
  BY <1>1 DEF DrainStarts, ClaimRaises, NothingDue, Check, EndByException
<1>2. ASSUME NEW r \in Request, Claim(r) PROVE TypeOK'
  <2>1. tries' \in [Request -> 0..MaxAttempts]
    BY <1>2, CountType DEF Claim, Prepared, OutboundInvariant, AttemptsAreLeft
  <2> QED BY <1>2, <2>1 DEF Claim
<1>3. ASSUME NEW next \in {"check", "drain"}, Release(next) PROVE TypeOK'
  <2>1. job \in Request /\ tries[job] >= 1
    BY <1>3 DEF Release, OutboundInvariant, JobIsClaimed
  <2>2. tries' \in [Request -> 0..MaxAttempts]
    BY <1>3, <2>1, CountType DEF Release
  <2> QED BY <1>3, <2>1, <2>2 DEF Release
<1>4. CASE Post
  <2>1. job \in Request /\ tries[job] \in 1..MaxAttempts
    BY <1>4, Attempts DEF Post, OutboundInvariant, JobIsClaimed
  <2> QED BY <1>4, <2>1 DEF Post
<1>5. CASE PostFails \/ Timeout
  BY <1>5 DEF PostFails, Timeout
<1>6. CASE Finish
  <2>1. Outcome \in {"sent", "uncertain", "failed", "prepared"}
    BY <1>6 DEF Finish, Outcome, OutboundInvariant, JobIsClaimed
  <2>2. job \in Request
    BY <1>6 DEF Finish, OutboundInvariant, JobIsClaimed
  <2> QED BY <1>6, <2>1, <2>2 DEF Finish
<1>7. CASE WriteFails
  <2>1. failures' \in 0..MaxFailures
    BY <1>7, OutboundAssumption DEF WriteFails
  <2> QED BY <1>7, <2>1 DEF WriteFails
<1>8. CASE Clean
  BY <1>8 DEF Clean
<1> QED BY <1>1, <1>2, <1>3, <1>4, <1>5, <1>6, <1>7, <1>8 DEF DrainStep

LEMMA ProcessType ==
  ASSUME TypeOK, Process
  PROVE  TypeOK'
<1> USE DEF Drop, TypeOK, queue, drain, watcher, arm, bridge, bounds
<1>1. CASE Look
  BY <1>1, OutboundAssumption DEF Look
<1>2. CASE Wake
  BY <1>2, OutboundAssumption DEF Wake, Submit
<1>3. CASE Register \/ Ready
  BY <1>3 DEF Register, Ready, Submit
<1>4. CASE Crash
  BY <1>4, OutboundAssumption DEF Crash
<1>5. CASE Revoke
  BY <1>5 DEF Revoke
<1>6. CASE Rearm
  <2>1. armId' \in 0..MaxArms /\ {seen, saw, armId}' \subseteq 0..MaxArms
    BY <1>6, Attempts DEF Rearm
  <2> QED BY <1>6, <2>1 DEF Rearm
<1>7. CASE BridgeCrash
  BY <1>7, OutboundAssumption DEF BridgeCrash
<1> QED BY <1>1, <1>2, <1>3, <1>4, <1>5, <1>6, <1>7 DEF Process

Dispatch == [request : Request, nr : 1..MaxAttempts,
             at : {"arrived", "sending", "delivered", "late"}]

LEMMA DispatchAt ==
  ASSUME NEW p \in Dispatch, NEW where
  PROVE  LET q == [p EXCEPT !.at = where]
         IN  /\ q.request = p.request /\ q.nr = p.nr /\ q.at = where
             /\ where \in {"arrived", "sending", "delivered", "late"} => q \in Dispatch
BY DEF Dispatch

LEMMA BridgeType ==
  ASSUME TypeOK, Bridge
  PROVE  TypeOK'
<1> USE DEF BridgeStep, Reply, TypeOK, queue, drain, watcher, arm, bounds
<1> SUFFICES ASSUME NEW p \in post,
                    \/ AnswerAgain(p) \/ Refuse(p) \/ Serve(p) \/ Deliver(p) \/ Succeed(p)
                    \/ GiveUp(p) \/ Lose(p)
             PROVE  TypeOK'
  BY DEF Bridge
<1>1. p \in Dispatch /\ post \subseteq Dispatch /\ p.request \in Request
  BY DEF Dispatch
<1>2. post' \subseteq Dispatch
  BY <1>1, DispatchAt DEF AnswerAgain, Refuse, Serve, Deliver, Succeed, GiveUp, Lose
<1>3. CASE AnswerAgain(p)
  BY <1>1, <1>2, <1>3 DEF AnswerAgain, Dispatch
<1>4. CASE Refuse(p)
  BY <1>1, <1>2, <1>4 DEF Refuse, Dispatch
<1>5. CASE Serve(p) \/ Lose(p)
  BY <1>1, <1>2, <1>5 DEF Serve, Lose, Dispatch
<1>6. CASE Deliver(p)
  BY <1>1, <1>2, <1>6 DEF Deliver, Dispatch
<1>7. CASE Succeed(p) \/ GiveUp(p)
  BY <1>1, <1>2, <1>7 DEF Succeed, GiveUp, Dispatch
<1> QED BY <1>3, <1>4, <1>5, <1>6, <1>7

-----------------------------------------------------------------------------
(* The invariant, step by step.                                            *)

LEMMA InitOutbound == Init => OutboundInvariant
BY OutboundAssumption DEF Init, OutboundInvariant, ThreadsLive, JobIsClaimed, AttemptsAreLeft,
   CopiesAreKept, DispatchesAreUnique, RecordsFollowTheBridge, Fresh, DeliveredOnce

(* What does not concern the bridge leaves its dispatches as they are.     *)
LEMMA BridgeRests ==
  ASSUME OutboundInvariant, UNCHANGED bridge
  PROVE  /\ DispatchesAreUnique' /\ DeliveredOnce'
         /\ \A r \in Request : Fresh(r)' <=> Fresh(r)
BY DEF OutboundInvariant, DispatchesAreUnique, DeliveredOnce, Fresh, bridge

LEMMA HookPreserves ==
  ASSUME TypeOK, OutboundInvariant, NEW r \in Request, HookStep(r) \/ Due(r)
  PROVE  OutboundInvariant'
<1> USE DEF OutboundInvariant, queue, drain, watcher, arm, bounds
<1>1. DispatchesAreUnique' /\ DeliveredOnce' /\ \A x \in Request : Fresh(x)' <=> Fresh(x)
  BY BridgeRests DEF HookStep, Stage, Insert, Abandon, HookSubmits, Due
<1>2. /\ hook \in [Request -> {"idle", "staging", "committed"}] /\ media \in SUBSET Request
      /\ status \in [Request -> {"absent", "prepared", "sending", "sent", "failed", "uncertain"}]
      /\ job \in Request \cup {None}
  BY DEF TypeOK
<1>3. CASE Stage(r) \/ Abandon(r)
  <2>1. ThreadsLive' /\ JobIsClaimed' /\ AttemptsAreLeft'
    BY <1>2, <1>3 DEF Stage, Abandon, HookAt, ThreadsLive, JobIsClaimed, AttemptsAreLeft
  <2>2. CopiesAreKept'
    BY <1>2, <1>3 DEF Stage, Abandon, HookAt, CopiesAreKept
  <2>3. RecordsFollowTheBridge'
    BY <1>1, <1>3 DEF Stage, Abandon, RecordsFollowTheBridge, JobIsClaimed, bridge
  <2> QED BY <1>1, <2>1, <2>2, <2>3
<1>4. CASE Insert(r)
  <2>1. status[r] = "absent" /\ r \in media
    BY <1>4 DEF Insert, CopiesAreKept
  <2>2. ThreadsLive' /\ CopiesAreKept'
    BY <1>2, <1>4, <2>1 DEF Insert, HookAt, ThreadsLive, CopiesAreKept
  <2>3. JobIsClaimed' /\ AttemptsAreLeft'
    BY <1>2, <1>4, <2>1, Attempts DEF Insert, JobIsClaimed, AttemptsAreLeft
  <2>4. RecordsFollowTheBridge'
    BY <1>1, <1>2, <1>4, <2>1 DEF Insert, RecordsFollowTheBridge, JobIsClaimed, bridge
  <2> QED BY <1>1, <2>2, <2>3, <2>4
<1>5. CASE HookSubmits(r)
  <2>1. ThreadsLive' /\ JobIsClaimed' /\ AttemptsAreLeft' /\ CopiesAreKept'
    BY <1>2, <1>5 DEF HookSubmits, HookAt, Submit, ThreadsLive, JobIsClaimed, AttemptsAreLeft,
       CopiesAreKept
  <2>2. RecordsFollowTheBridge'
    BY <1>1, <1>5 DEF HookSubmits, Submit, RecordsFollowTheBridge, JobIsClaimed, bridge
  <2> QED BY <1>1, <2>1, <2>2
<1>6. CASE Due(r)
  <2>1. ThreadsLive' /\ JobIsClaimed' /\ AttemptsAreLeft' /\ CopiesAreKept'
    BY <1>6 DEF Due, ThreadsLive, JobIsClaimed, AttemptsAreLeft, CopiesAreKept
  <2>2. RecordsFollowTheBridge'
    BY <1>1, <1>6 DEF Due, RecordsFollowTheBridge, JobIsClaimed, bridge
  <2> QED BY <1>1, <2>1, <2>2
<1> QED BY <1>3, <1>4, <1>5, <1>6 DEF HookStep

LEMMA ProcessPreserves ==
  ASSUME TypeOK, OutboundInvariant, Process
  PROVE  OutboundInvariant'
<1> USE DEF OutboundInvariant, queue, drain, watcher, arm, bounds
<1>1. CASE Look \/ Revoke \/ Rearm \/ Ready \/ Wake
  <2>1. DispatchesAreUnique' /\ DeliveredOnce' /\ \A x \in Request : Fresh(x)' <=> Fresh(x)
    BY <1>1, BridgeRests DEF Look, Revoke, Rearm, Ready, Wake
  <2>2. ThreadsLive' /\ JobIsClaimed'
    BY <1>1 DEF Look, Revoke, Rearm, Ready, Wake, Submit, ThreadsLive, JobIsClaimed
  <2>3. AttemptsAreLeft' /\ CopiesAreKept'
    BY <1>1 DEF Look, Revoke, Rearm, Ready, Wake, AttemptsAreLeft, CopiesAreKept
  <2>4. RecordsFollowTheBridge'
    BY <1>1, <2>1 DEF Look, Revoke, Rearm, Ready, Wake, Submit, RecordsFollowTheBridge,
       JobIsClaimed, bridge
  <2> QED BY <2>1, <2>2, <2>3, <2>4
<1>2. CASE Register
  <2>1. DispatchesAreUnique' /\ DeliveredOnce' /\ \A x \in Request : Fresh(x)' <=> Fresh(x)
    BY <1>2, BridgeRests DEF Register
  <2>2. runner = "off" /\ runner' = "off" /\ answer' = answer
    BY <1>2 DEF Register, ThreadsLive
  <2>3. ThreadsLive' /\ JobIsClaimed'
    BY <1>2, <2>2 DEF Register, ThreadsLive, JobIsClaimed
  <2>4. AttemptsAreLeft' /\ CopiesAreKept'
    BY <1>2 DEF Register, AttemptsAreLeft, CopiesAreKept
  <2>5. RecordsFollowTheBridge'
    BY <1>2, <2>1, <2>2 DEF Register, RecordsFollowTheBridge, bridge
  <2> QED BY <2>1, <2>3, <2>4, <2>5
<1>3. CASE Crash
  <2>1. DispatchesAreUnique' /\ DeliveredOnce' /\ \A x \in Request : Fresh(x)' <=> Fresh(x)
    BY <1>3, BridgeRests DEF Crash
  <2>2. ThreadsLive' /\ JobIsClaimed'
    BY <1>3 DEF Crash, Drop, ThreadsLive, JobIsClaimed
  <2>3. AttemptsAreLeft' /\ CopiesAreKept'
    BY <1>3 DEF Crash, AttemptsAreLeft, CopiesAreKept
  <2>4. RecordsFollowTheBridge'
    BY <1>3, <2>1 DEF Crash, Drop, RecordsFollowTheBridge, bridge
  <2> QED BY <2>1, <2>2, <2>3, <2>4
<1>4. CASE BridgeCrash
  <2>1. \A x \in Request : Fresh(x) => Fresh(x)'
    BY <1>4 DEF BridgeCrash, Fresh
  <2>2. DispatchesAreUnique' /\ DeliveredOnce'
    BY <1>4 DEF BridgeCrash, DispatchesAreUnique, DeliveredOnce
  <2>3. ThreadsLive' /\ JobIsClaimed' /\ AttemptsAreLeft' /\ CopiesAreKept'
    BY <1>4 DEF BridgeCrash, ThreadsLive, JobIsClaimed, AttemptsAreLeft, CopiesAreKept
  <2>4. RecordsFollowTheBridge'
    BY <1>4, <2>1 DEF BridgeCrash, RecordsFollowTheBridge, JobIsClaimed
  <2> QED BY <2>2, <2>3, <2>4
<1> QED BY <1>1, <1>2, <1>3, <1>4 DEF Process

(* A step of the drain before or after its claim.                          *)
LEMMA DrainRests ==
  ASSUME TypeOK, OutboundInvariant, UNCHANGED <<status, tries, media, gateway, hook, bridge>>,
         gateway # "down" \/ runner' = "off", UNCHANGED watcher,
         runner' \in {"off", "drain", "claim", "check", "ending"}, answer' = "none"
  PROVE  OutboundInvariant'
<1> USE DEF OutboundInvariant
<1>1. DispatchesAreUnique' /\ DeliveredOnce' /\ \A x \in Request : Fresh(x)' <=> Fresh(x)
  BY BridgeRests
<1>2. ThreadsLive' /\ JobIsClaimed' /\ AttemptsAreLeft' /\ CopiesAreKept'
  BY DEF ThreadsLive, JobIsClaimed, AttemptsAreLeft, CopiesAreKept, watcher
<1>3. RecordsFollowTheBridge'
  BY <1>1 DEF RecordsFollowTheBridge, bridge
<1> QED BY <1>1, <1>2, <1>3

(* A step of the drain that changes the row of its claim, r, to state x.   *)
LEMMA RowChanges ==
  ASSUME TypeOK, OutboundInvariant, UNCHANGED <<media, gateway, hook, watcher, bridge>>,
         gateway # "down", NEW r \in Request, status[r] # "absent",
         NEW x \in {"prepared", "sending", "sent", "failed", "uncertain"},
         status' = [status EXCEPT ![r] = x],
         x \in {"prepared", "sending", "uncertain"} => r \in media,
         x \in {"prepared", "failed"} => Fresh(r),
         x = "sent" => delivered[r] > 0,
         \A q \in Request : q # r => tries'[q] = tries[q],
         x = "prepared" => tries'[r] < MaxAttempts
  PROVE  /\ ThreadsLive' /\ AttemptsAreLeft' /\ CopiesAreKept'
         /\ DispatchesAreUnique' /\ DeliveredOnce'
         /\ \A q \in Request : Fresh(q)' <=> Fresh(q)
         /\ \A q \in Request : /\ status'[q] \in {"absent", "prepared", "failed"} => Fresh(q)'
                               /\ status'[q] = "sent" => delivered'[q] > 0
<1> USE DEF OutboundInvariant
<1>1. /\ status'[r] = x
      /\ \A q \in Request : q # r => status'[q] = status[q]
  BY DEF TypeOK
<1>2. DispatchesAreUnique' /\ DeliveredOnce' /\ \A q \in Request : Fresh(q)' <=> Fresh(q)
  BY BridgeRests
<1>3. ThreadsLive' /\ AttemptsAreLeft'
  BY <1>1 DEF ThreadsLive, AttemptsAreLeft, watcher
<1>4. CopiesAreKept'
  BY <1>1 DEF CopiesAreKept
<1>5. \A q \in Request : /\ status'[q] \in {"absent", "prepared", "failed"} => Fresh(q)'
                         /\ status'[q] = "sent" => delivered'[q] > 0
  BY <1>1, <1>2 DEF RecordsFollowTheBridge, bridge
<1> QED BY <1>2, <1>3, <1>4, <1>5

LEMMA ClaimPreserves ==
  ASSUME TypeOK, OutboundInvariant, NEW r \in Request, Claim(r)
  PROVE  OutboundInvariant'
<1> USE DEF OutboundInvariant
<1>1. /\ UNCHANGED <<media, gateway, hook, watcher, bridge, answer>> /\ gateway # "down"
      /\ status[r] = "prepared" /\ status' = [status EXCEPT ![r] = "sending"]
      /\ tries' = [tries EXCEPT ![r] = @ + 1] /\ runner' = "claimed" /\ job' = r
      /\ answer = "none" /\ r \in media /\ Fresh(r)
  BY DEF Claim, At, Prepared, ThreadsLive, JobIsClaimed, CopiesAreKept, RecordsFollowTheBridge,
     bridge
<1>2. /\ tries'[r] = tries[r] + 1 /\ tries[r] \in Nat
      /\ \A q \in Request : q # r => tries'[q] = tries[q]
  BY <1>1, Attempts DEF TypeOK
<1>3. /\ ThreadsLive' /\ AttemptsAreLeft' /\ CopiesAreKept'
      /\ DispatchesAreUnique' /\ DeliveredOnce' /\ Fresh(r)'
      /\ \A q \in Request : /\ status'[q] \in {"absent", "prepared", "failed"} => Fresh(q)'
                            /\ status'[q] = "sent" => delivered'[q] > 0
  BY <1>1, <1>2, RowChanges
<1>4. JobIsClaimed'
  BY <1>1, <1>2 DEF JobIsClaimed, TypeOK
<1>5. RecordsFollowTheBridge'
  BY <1>1, <1>3 DEF RecordsFollowTheBridge
<1> QED BY <1>3, <1>4, <1>5

(* The drain drops its claim r, leaving the row in state x.                *)
LEMMA DropPreserves ==
  ASSUME TypeOK, OutboundInvariant, UNCHANGED <<media, gateway, hook, watcher, bridge>>,
         runner \in {"claimed", "answered"},
         NEW x \in {"prepared", "sending", "failed", "uncertain"},
         status' = [status EXCEPT ![job] = x],
         x \in {"prepared", "failed"} => Fresh(job),
         \A q \in Request : q # job => tries'[q] = tries[q],
         x = "prepared" => tries'[job] < MaxAttempts,
         NEW next \in {"drain", "check"}, Drop(next)
  PROVE  OutboundInvariant'
<1> USE DEF OutboundInvariant
<1>1. /\ job \in Request /\ status[job] = "sending" /\ gateway # "down" /\ job \in media
  BY DEF JobIsClaimed, ThreadsLive, CopiesAreKept
<1>2. /\ ThreadsLive' /\ AttemptsAreLeft' /\ CopiesAreKept'
      /\ DispatchesAreUnique' /\ DeliveredOnce'
      /\ \A q \in Request : /\ status'[q] \in {"absent", "prepared", "failed"} => Fresh(q)'
                            /\ status'[q] = "sent" => delivered'[q] > 0
  BY <1>1, RowChanges
<1>3. JobIsClaimed' /\ RecordsFollowTheBridge'
  BY <1>2 DEF JobIsClaimed, RecordsFollowTheBridge, Drop
<1> QED BY <1>2, <1>3

LEMMA PostPreserves ==
  ASSUME TypeOK, OutboundInvariant, Post
  PROVE  OutboundInvariant'
<1> USE DEF OutboundInvariant
<1> DEFINE d == [request |-> job, nr |-> tries[job], at |-> "arrived"]
<1>1. /\ UNCHANGED <<status, tries, media, gateway, hook, watcher, answer, job, known, delivered>>
      /\ runner' = "posting" /\ post' = post \cup {d} /\ gateway # "down"
      /\ job \in Request /\ status[job] = "sending" /\ tries[job] >= 1 /\ answer = "none"
      /\ Fresh(job)
  BY DEF Post, At, Goto, queue, ThreadsLive, JobIsClaimed, RecordsFollowTheBridge
<1>2. d.request = job /\ d.at = "arrived"
  OBVIOUS
<1> HIDE DEF d
<1>3. ThreadsLive' /\ JobIsClaimed' /\ AttemptsAreLeft' /\ CopiesAreKept' /\ DeliveredOnce'
  BY <1>1 DEF ThreadsLive, JobIsClaimed, AttemptsAreLeft, CopiesAreKept, DeliveredOnce, watcher
<1>4. DispatchesAreUnique'
  BY <1>1, <1>2 DEF DispatchesAreUnique, Fresh
<1>5. \A q \in Request : q # job /\ Fresh(q) => Fresh(q)'
  BY <1>1, <1>2 DEF Fresh
<1>6. RecordsFollowTheBridge'
  BY <1>1, <1>5 DEF RecordsFollowTheBridge
<1> QED BY <1>3, <1>4, <1>6

LEMMA FinishPreserves ==
  ASSUME TypeOK, OutboundInvariant, Finish
  PROVE  OutboundInvariant'
<1> USE DEF OutboundInvariant
<1>1. /\ UNCHANGED <<media, gateway, hook, watcher, tries, bridge>>
      /\ runner = "answered" /\ job \in Request /\ status[job] = "sending" /\ gateway # "down"
      /\ status' = [status EXCEPT ![job] = Outcome] /\ job \in media
  BY DEF Finish, At, ThreadsLive, JobIsClaimed, CopiesAreKept
<1>2. /\ Outcome \in {"prepared", "sent", "failed", "uncertain"}
      /\ Outcome \in {"prepared", "failed"} => answer \in {"rejected", "unattempted"}
      /\ Outcome = "sent" => answer = "success"
      /\ Outcome = "prepared" => ~(tries[job] >= MaxAttempts)
  BY <1>1 DEF Outcome, JobIsClaimed, TypeOK
<1>3. /\ Outcome \in {"prepared", "failed"} => Fresh(job)
      /\ Outcome = "sent" => delivered[job] > 0
      /\ Outcome = "prepared" => tries'[job] < MaxAttempts
  BY <1>1, <1>2, Attempts DEF RecordsFollowTheBridge, TypeOK
<1>4. CASE Outcome \notin Cleaned
  BY <1>1, <1>2, <1>3, <1>4, DropPreserves DEF Finish, Cleaned
<1>5. CASE Outcome \in Cleaned
  <2>1. runner' = "cleaning" /\ job' = job
    BY <1>5 DEF Finish, Goto
  <2>2. /\ ThreadsLive' /\ AttemptsAreLeft' /\ CopiesAreKept'
        /\ DispatchesAreUnique' /\ DeliveredOnce'
        /\ \A q \in Request : /\ status'[q] \in {"absent", "prepared", "failed"} => Fresh(q)'
                              /\ status'[q] = "sent" => delivered'[q] > 0
    BY <1>1, <1>2, <1>3, RowChanges
  <2>3. JobIsClaimed' /\ RecordsFollowTheBridge'
    BY <1>1, <1>5, <2>1, <2>2 DEF JobIsClaimed, RecordsFollowTheBridge, Cleaned, TypeOK
  <2> QED BY <2>2, <2>3
<1> QED BY <1>4, <1>5

LEMMA CleanPreserves ==
  ASSUME TypeOK, OutboundInvariant, Clean
  PROVE  OutboundInvariant'
<1> USE DEF OutboundInvariant
<1>1. /\ UNCHANGED <<status, tries, gateway, hook, watcher, bridge>> /\ gateway # "down"
      /\ status[job] \in {"sent", "failed"} /\ media' = media \ {job}
      /\ runner' = "drain" /\ answer' = "none"
  BY DEF Clean, Drop, queue, ThreadsLive, JobIsClaimed
<1>2. DispatchesAreUnique' /\ DeliveredOnce' /\ \A x \in Request : Fresh(x)' <=> Fresh(x)
  BY <1>1, BridgeRests
<1>3. ThreadsLive' /\ JobIsClaimed' /\ AttemptsAreLeft'
  BY <1>1 DEF ThreadsLive, JobIsClaimed, AttemptsAreLeft, watcher
<1>4. CopiesAreKept'
  BY <1>1 DEF CopiesAreKept
<1>5. RecordsFollowTheBridge'
  BY <1>1, <1>2 DEF RecordsFollowTheBridge, bridge
<1> QED BY <1>2, <1>3, <1>4, <1>5

LEMMA DrainPreserves ==
  ASSUME TypeOK, OutboundInvariant, DrainStep
  PROVE  OutboundInvariant'
<1>1. runner \in {"drain", "claim", "check", "ending"} => answer = "none" /\ gateway # "down"
  BY DEF OutboundInvariant, JobIsClaimed, ThreadsLive
<1>2. CASE DrainStarts \/ ClaimRaises \/ NothingDue \/ Check \/ EndByException
  BY <1>1, <1>2, DrainRests DEF DrainStarts, ClaimRaises, NothingDue, Check, EndByException, At,
     Goto, queue
<1>3. ASSUME NEW next \in {"check", "drain"}, Release(next)
      PROVE  OutboundInvariant'
  <2>1. /\ runner = "claimed" /\ job \in Request /\ tries[job] >= 1
        /\ UNCHANGED <<media, gateway, hook, watcher, bridge>>
        /\ status' = [status EXCEPT ![job] = "prepared"] /\ Drop(next) /\ Fresh(job)
    BY <1>3 DEF Release, At, OutboundInvariant, JobIsClaimed, RecordsFollowTheBridge
  <2>2. /\ tries'[job] < MaxAttempts
        /\ \A q \in Request : q # job => tries'[q] = tries[q]
    BY <1>3, <2>1, Attempts DEF Release, TypeOK
  <2> QED BY <2>1, <2>2, DropPreserves
<1>4. CASE PostFails \/ Timeout
  <2> USE DEF OutboundInvariant
  <2>1. /\ UNCHANGED <<status, tries, media, gateway, hook, watcher, job, bridge>>
        /\ runner \in {"claimed", "posting"} /\ runner' = "answered"
        /\ answer' \in {"unattempted", "rejected", "uncertain"}
        /\ runner = "posting" => answer' = "uncertain"
    BY <1>4 DEF PostFails, Timeout, At, queue
  <2>2. DispatchesAreUnique' /\ DeliveredOnce' /\ \A x \in Request : Fresh(x)' <=> Fresh(x)
    BY <2>1, BridgeRests
  <2>3. ThreadsLive' /\ JobIsClaimed' /\ AttemptsAreLeft' /\ CopiesAreKept'
    BY <2>1 DEF ThreadsLive, JobIsClaimed, AttemptsAreLeft, CopiesAreKept, watcher
  <2>4. RecordsFollowTheBridge'
    BY <2>1, <2>2 DEF RecordsFollowTheBridge, JobIsClaimed, bridge
  <2> QED BY <2>2, <2>3, <2>4
<1>5. CASE WriteFails
  <2>1. /\ UNCHANGED <<media, gateway, hook, watcher, bridge, tries>>
        /\ runner \in {"claimed", "answered"} /\ status[job] = "sending" /\ job \in Request
    BY <1>5 DEF WriteFails, At, OutboundInvariant, JobIsClaimed
  <2>2. PICK x \in {"sending", "uncertain"}, next \in {"drain", "check"} :
          status' = [status EXCEPT ![job] = x] /\ Drop(next)
    <3>1. status = [status EXCEPT ![job] = "sending"]
      BY <2>1 DEF TypeOK
    <3> QED BY <1>5, <3>1 DEF WriteFails
  <2> QED BY <2>1, <2>2, DropPreserves
<1> QED BY <1>2, <1>3, <1>4, <1>5, ClaimPreserves, PostPreserves, FinishPreserves, CleanPreserves
        DEF DrainStep

(* What the bridge answers about dispatch p, to a drain that waits for it  *)
(* or to nobody, is true.                                                  *)
LEMMA AnswerPreserves ==
  ASSUME TypeOK, OutboundInvariant, NEW p \in post, BridgeStep(p),
         NEW a \in {"success", "unattempted", "rejected", "uncertain"},
         Reply(p, a) \/ UNCHANGED drain,
         DispatchesAreUnique', DeliveredOnce',
         \A q \in Request : q # p.request => delivered'[q] = delivered[q] /\ (Fresh(q) => Fresh(q)'),
         delivered[p.request] > 0 => delivered'[p.request] > 0,
         a \in {"unattempted", "rejected"} => Fresh(p.request)',
         a = "success" => delivered'[p.request] > 0
  PROVE  OutboundInvariant'
<1> USE DEF OutboundInvariant
<1>1. /\ p.request \in Request /\ ~Fresh(p.request)
      /\ UNCHANGED <<status, tries, media, gateway, hook, watcher>>
  BY DEF BridgeStep, queue, TypeOK, Fresh
<1>2. ThreadsLive' /\ AttemptsAreLeft' /\ CopiesAreKept' /\ JobIsClaimed'
  BY <1>1 DEF ThreadsLive, AttemptsAreLeft, CopiesAreKept, JobIsClaimed, Reply, watcher, drain
<1>3. RecordsFollowTheBridge'
  <2>1. \A q \in Request : /\ status'[q] \in {"absent", "prepared", "failed"} => Fresh(q)'
                           /\ status'[q] = "sent" => delivered'[q] > 0
    BY <1>1 DEF RecordsFollowTheBridge
  <2>2. CASE UNCHANGED drain
    <3>1. runner \in {"claimed", "answered"} => job \in Request
      BY DEF JobIsClaimed
    <3> QED BY <1>1, <2>1, <2>2, <3>1 DEF RecordsFollowTheBridge, drain
  <2>3. CASE runner' = "answered" /\ answer' = a /\ job' = p.request
    BY <2>1, <2>3 DEF RecordsFollowTheBridge
  <2> QED BY <2>2, <2>3 DEF Reply
<1> QED BY <1>2, <1>3

LEMMA BridgePreserves ==
  ASSUME TypeOK, OutboundInvariant, Bridge
  PROVE  OutboundInvariant'
<1> SUFFICES ASSUME NEW p \in post,
                    \/ AnswerAgain(p) \/ Refuse(p) \/ Serve(p) \/ Deliver(p) \/ Succeed(p)
                    \/ GiveUp(p) \/ Lose(p)
             PROVE  OutboundInvariant'
  BY DEF Bridge
<1> USE DEF OutboundInvariant
<1>1. /\ p \in Dispatch /\ post \subseteq Dispatch /\ p.request \in Request
      /\ delivered \in [Request -> Nat] /\ known \in [Request -> {"none", "success", "uncertain"}]
      /\ \A q \in post : q.request = p.request => q = p
      /\ BridgeStep(p)
  BY DEF Dispatch, TypeOK, DispatchesAreUnique, AnswerAgain, Refuse, Serve, Deliver, Succeed,
     GiveUp, Lose
(* A result is remembered only of a dispatch that is over: the bridge is   *)
(* never asked twice.                                                      *)
<1>2. CASE AnswerAgain(p)
  BY <1>2 DEF AnswerAgain, DispatchesAreUnique
<1>3. CASE Refuse(p)
  <2>1. /\ post' = post \ {p} /\ UNCHANGED <<known, delivered>>
        /\ p.at = "arrived" /\ known[p.request] = "none"
    BY <1>3 DEF Refuse
  <2>2. DispatchesAreUnique' /\ DeliveredOnce' /\ Fresh(p.request)'
    BY <1>1, <2>1 DEF DispatchesAreUnique, DeliveredOnce, Fresh
  <2>3. \A q \in Request : delivered'[q] = delivered[q] /\ (Fresh(q) => Fresh(q)')
    BY <2>1 DEF Fresh
  <2>4. PICK a \in {"unattempted", "rejected", "uncertain"} : Reply(p, a)
    BY <1>3 DEF Refuse
  <2> QED BY <1>1, <2>2, <2>3, <2>4, AnswerPreserves
<1>4. CASE Serve(p)
  <2> DEFINE s == [p EXCEPT !.at = "sending"]
  <2>1. s.request = p.request /\ s.at = "sending"
    BY <1>1, DispatchAt
  <2> HIDE DEF s
  <2>2. /\ post' = (post \ {p}) \cup {s} /\ UNCHANGED <<known, delivered, drain>>
        /\ p.at = "arrived"
    BY <1>4 DEF Serve, s
  <2>3. DispatchesAreUnique' /\ DeliveredOnce'
    BY <1>1, <2>1, <2>2 DEF DispatchesAreUnique, DeliveredOnce
  <2>4. \A q \in Request : delivered'[q] = delivered[q] /\ (q # p.request /\ Fresh(q) => Fresh(q)')
    BY <2>1, <2>2 DEF Fresh
  <2> QED BY <1>1, <2>2, <2>3, <2>4, AnswerPreserves
<1>5. CASE Deliver(p)
  <2> DEFINE s == [p EXCEPT !.at = "delivered"]
  <2>1. s.request = p.request /\ s.at = "delivered"
    BY <1>1, DispatchAt
  <2> HIDE DEF s
  <2>2. /\ post' \in {(post \ {p}) \cup {s}, post \ {p}}
        /\ p.at = "sending" => post' = (post \ {p}) \cup {s}
        /\ p.at = "late" => post' = post \ {p}
        /\ delivered' = [delivered EXCEPT ![p.request] = @ + 1] /\ UNCHANGED <<known, drain>>
        /\ p.at \in {"sending", "late"}
    BY <1>5 DEF Deliver, Serving, s
  <2>3. delivered[p.request] = 0 /\ delivered'[p.request] = 1
    BY <1>1, <2>2 DEF DispatchesAreUnique
  <2>4. \A q \in Request : q # p.request => delivered'[q] = delivered[q]
    BY <1>1, <2>2
  <2>5. DispatchesAreUnique'
    <3>1. \A q \in post' : q = s \/ (q \in post /\ q.request # p.request)
      BY <1>1, <2>2
    <3>2. s \in post' => p.at = "sending"
      BY <1>1, <2>1, <2>2
    <3>3. \A q \in post : q.request \in Request
      BY <1>1 DEF Dispatch
    <3> QED BY <2>1, <2>2, <2>3, <2>4, <3>1, <3>2, <3>3 DEF DispatchesAreUnique
  <2>6. DeliveredOnce'
    BY <2>3, <2>4 DEF DeliveredOnce
  <2>7. \A q \in Request : q # p.request /\ Fresh(q) => Fresh(q)'
    BY <2>1, <2>2, <2>4 DEF Fresh
  <2> QED BY <1>1, <2>2, <2>3, <2>4, <2>5, <2>6, <2>7, AnswerPreserves
<1>6. CASE Succeed(p)
  <2>1. /\ post' = post \ {p} /\ UNCHANGED delivered /\ p.at = "delivered"
        /\ known' = [known EXCEPT ![p.request] = "success"] /\ Reply(p, "success")
    BY <1>6 DEF Succeed
  <2>2. DispatchesAreUnique' /\ DeliveredOnce' /\ delivered'[p.request] > 0
    BY <1>1, <2>1 DEF DispatchesAreUnique, DeliveredOnce, Dispatch
  <2>3. \A q \in Request : delivered'[q] = delivered[q] /\ (q # p.request /\ Fresh(q) => Fresh(q)')
    BY <1>1, <2>1 DEF Fresh
  <2> QED BY <1>1, <2>1, <2>2, <2>3, AnswerPreserves
<1>7. CASE GiveUp(p)
  <2> DEFINE s == [p EXCEPT !.at = "late"]
  <2>1. s.request = p.request /\ s.at = "late"
    BY <1>1, DispatchAt
  <2> HIDE DEF s
  <2>2. /\ post' \in {(post \ {p}) \cup {s}, post \ {p}}
        /\ p.at = "delivered" => post' = post \ {p}
        /\ UNCHANGED delivered /\ p.at \in {"sending", "delivered"}
        /\ known' = [known EXCEPT ![p.request] = "uncertain"] /\ Reply(p, "uncertain")
    BY <1>7 DEF GiveUp, Serving, s
  <2>3. DispatchesAreUnique' /\ DeliveredOnce'
    <3>1. \A q \in post' : q = s \/ (q \in post /\ q.request # p.request)
      BY <1>1, <2>2
    <3>2. s \in post' => p.at = "sending"
      BY <1>1, <2>1, <2>2
    <3>3. \A q \in post : q.request \in Request
      BY <1>1 DEF Dispatch
    <3> QED BY <1>1, <2>1, <2>2, <3>1, <3>2, <3>3 DEF DispatchesAreUnique, DeliveredOnce
  <2>4. \A q \in Request : delivered'[q] = delivered[q] /\ (q # p.request /\ Fresh(q) => Fresh(q)')
    BY <1>1, <2>1, <2>2 DEF Fresh
  <2> QED BY <1>1, <2>2, <2>3, <2>4, AnswerPreserves
<1>8. CASE Lose(p)
  <2>1. post' = post \ {p} /\ UNCHANGED <<known, delivered, drain>>
    BY <1>8 DEF Lose
  <2>2. DispatchesAreUnique' /\ DeliveredOnce'
    BY <2>1 DEF DispatchesAreUnique, DeliveredOnce
  <2>3. \A q \in Request : delivered'[q] = delivered[q] /\ (Fresh(q) => Fresh(q)')
    BY <2>1 DEF Fresh
  <2> QED BY <1>1, <2>1, <2>2, <2>3, AnswerPreserves
<1> QED BY <1>2, <1>3, <1>4, <1>5, <1>6, <1>7, <1>8

LEMMA NextOutbound ==
  ASSUME TypeOK, OutboundInvariant, [Next]_vars
  PROVE  TypeOK' /\ OutboundInvariant'
<1>1. CASE UNCHANGED vars
  BY <1>1 DEF vars, TypeOK, OutboundInvariant, ThreadsLive, JobIsClaimed, AttemptsAreLeft,
     CopiesAreKept, DispatchesAreUnique, RecordsFollowTheBridge, Fresh, DeliveredOnce,
     queue, drain, watcher, arm, bridge, bounds
<1>2. CASE Next
  <2>1. TypeOK'
    BY <1>2, HookType, DrainType, ProcessType, BridgeType DEF Next
  <2>2. OutboundInvariant'
    BY <1>2, HookPreserves, DrainPreserves, ProcessPreserves, BridgePreserves DEF Next
  <2> QED BY <2>1, <2>2
<1> QED BY <1>1, <1>2

-----------------------------------------------------------------------------
(* The theorems.                                                           *)

(* The rows, the drain, the watcher and the bridge agree on every reply,   *)
(* whoever crashed and whatever was lost in between.                       *)
THEOREM OutboundCorrect == Spec => []OutboundInvariant
BY InitType, InitOutbound, NextOutbound, PTL DEF Spec

(* Every variable keeps to its column, thread or file; the attempt count   *)
(* never leaves 0..MaxAttempts.                                            *)
THEOREM OutboundTypes == Spec => []TypeOK
BY InitType, InitOutbound, NextOutbound, PTL DEF Spec

(* WhatsApp gets a reply at most once.                                     *)
THEOREM NoDuplicateReply == Spec => []DeliveredOnce
<1>1. OutboundInvariant => DeliveredOnce
  BY DEF OutboundInvariant
<1> QED BY <1>1, OutboundCorrect, PTL

(* What is recorded as sent was delivered, what is recorded as failed was  *)
(* not and will not be.                                                    *)
THEOREM RecordsAreTrue == Spec => []RecordIsTrue
<1>1. OutboundInvariant => RecordIsTrue
  BY DEF OutboundInvariant, RecordsFollowTheBridge, Fresh, RecordIsTrue
<1> QED BY <1>1, OutboundCorrect, PTL

(* The media of a reply is kept while it may be sent, or may have been.    *)
THEOREM RepliesKeepTheirMedia == Spec => []MediaIsKept
<1>1. OutboundInvariant => MediaIsKept
  BY DEF OutboundInvariant, CopiesAreKept, MediaIsKept
<1> QED BY <1>1, OutboundCorrect, PTL
=============================================================================
