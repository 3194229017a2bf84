---------------------------- MODULE MirrorSafety ----------------------------
(***************************************************************************)
(* AttemptInvariant holds in every reachable state, for any number of      *)
(* events, profiles, workers, operators, crashes and commands and any      *)
(* durations; NoBlindResend follows from it.  Most steps leave the log of  *)
(* attempts alone (QuietStep); the others are taken one by one.            *)
(***************************************************************************)
EXTENDS MirrorInvariant, MirrorTypes

USE DEF Reached, Accounted, Waived, HasLease, ResultIsTrue, HadNoEffect

(* A step that begins, sends, ends and applies no attempt.                 *)
QuietLeases ==
  \A e \in Event : /\ HasLease(e)' <=> HasLease(e)
                   /\ HasLease(e)' => lease'[e].owner \in Owner
                   /\ \A w \in Worker : lease'[e].owner = w => lease[e].owner = w

QuietClaims ==
  \A w \in Worker : pc'[w] \in Claimed => pc[w] \in Claimed /\ claim'[w] = claim[w]

QuietStates ==
  \A e \in Event :
    /\ state'[e] = "inflight" <=> state[e] = "inflight"
    /\ state'[e] \in {"none", "pending", "retry", "blocked"} =>
         \/ state[e] \in {"none", "pending", "retry", "blocked"}
         \/ Waived(e, attempts[e])'
    /\ state'[e] = "sent" =>
         \/ state[e] = "sent"
         \/ [event |-> e, attempt |-> attempts[e], resolution |-> "uncertain_mark_sent"]
              \in audit'

QuietStep ==
  /\ QuietLeases /\ QuietClaims /\ QuietStates
  /\ UNCHANGED <<attempts, outcome, posted>>
  /\ audit \subseteq audit'
  /\ wire' \subseteq wire

LEMMA QuietPreserves ==
  ASSUME TypeOK, TypeOK', AttemptInvariant, QuietStep, ResultsAreTrue'
  PROVE  AttemptInvariant'
<1> USE DEF AttemptInvariant, QuietStep
<1>1. AttemptsAreLogged'
  BY DEF AttemptsAreLogged
<1>2. ClaimsAreApart'
  <2>1. ASSUME NEW w \in Worker, pc'[w] \in Claimed
        PROVE  /\ pc[w] \in Claimed /\ claim'[w] = claim[w] /\ claim[w].event \in Event
               /\ lease'[claim[w].event].owner = w => lease[claim[w].event].owner = w
    BY <2>1 DEF QuietClaims, QuietLeases, TypeOK, WorkersOK
  <2>2. ASSUME NEW v \in Worker, NEW w \in Worker,
               pc'[v] \in Claimed, pc'[w] \in Claimed, claim'[v] = claim'[w]
        PROVE  v = w
    BY <2>1, <2>2 DEF ClaimsAreApart
  <2> QED BY <2>1, <2>2 DEF ClaimsAreApart
<1>3. ResultsAreTrue'
  OBVIOUS
<1>4. RepeatsAreAccounted'
  <2> SUFFICES ASSUME NEW e \in Event, NEW n \in 1..attempts[e],
                      n < attempts[e] \/ state'[e] \in {"none", "pending", "retry", "blocked"}
               PROVE  Accounted(e, n)'
    BY DEF RepeatsAreAccounted
  <2>1. Accounted(e, n) => Accounted(e, n)'
    OBVIOUS
  <2>2. CASE n < attempts[e] \/ state[e] \in {"none", "pending", "retry", "blocked"}
    BY <2>1, <2>2 DEF RepeatsAreAccounted
  <2>3. CASE ~(n < attempts[e]) /\ Waived(e, attempts[e])'
    <3>1. n = attempts[e]
      BY <2>3 DEF TypeOK, DeliveriesOK
    <3> QED BY <2>3, <3>1
  <2> QED BY <2>2, <2>3 DEF QuietStates
<1>5. LeasesHaveOwners'
  BY DEF LeasesHaveOwners, QuietLeases
<1>6. LeaseIsTheInflightDelivery'
  <2>1. \A e \in Event : HasLease(e)' <=> HasLease(e)
    BY DEF QuietLeases
  <2>2. ASSUME NEW e \in Event
        PROVE  (HasLease(e) <=> state[e] = "inflight")'
    BY <2>1 DEF LeaseIsTheInflightDelivery, QuietStates
  <2>3. ASSUME NEW e \in Event, NEW n \in DOMAIN outcome[e]
        PROVE  (outcome[e][n] = "started" <=> HasLease(e) /\ n = attempts[e])'
    BY <2>1 DEF LeaseIsTheInflightDelivery
  <2>4. ASSUME NEW e \in Event, NEW f \in Event, HasLease(e)', HasLease(f)'
        PROVE  e = f
    BY <2>1, <2>4 DEF LeaseIsTheInflightDelivery
  <2> QED BY <2>2, <2>3, <2>4 DEF LeaseIsTheInflightDelivery
<1>7. KnownFailuresNeverLand'
  BY DEF KnownFailuresNeverLand
<1>8. SentIsProven'
  BY DEF SentIsProven, QuietStates
<1> QED BY <1>1, <1>2, <1>3, <1>4, <1>5, <1>6, <1>7, <1>8

(* The results stay true when no call returns and no request is sent.      *)
LEMMA ResultsStay ==
  ASSUME ResultsAreTrue, UNCHANGED posted, wire' \subseteq wire,
         \A w \in Worker : pc'[w] \in Claimed =>
           pc'[w] = pc[w] /\ claim'[w] = claim[w] /\ result'[w] = result[w]
  PROVE  ResultsAreTrue'
BY DEF ResultsAreTrue, Claimed

(* A call returns, with a result that is true at Telegram.                 *)
LEMMA ReturnPreserves ==
  ASSUME TypeOK, TypeOK', AttemptInvariant, NEW w \in Worker, pc[w] \in Claimed,
         NEW how, Return(w, how), UNCHANGED posted, wire' \subseteq wire,
         how \in {"retryable", "rejected", "policy"}
           => ~Reached(claim[w].event, claim[w].attempt)',
         how = "ok" => claim[w].attempt \in posted[claim[w].event]
  PROVE  AttemptInvariant'
<1>1. ResultsAreTrue'
  <2> SUFFICES ASSUME NEW v \in Worker PROVE ResultIsTrue(v)'
    BY DEF ResultsAreTrue
  <2>1. CASE v = w
    BY <2>1 DEF Return, TypeOK, WorkersOK
  <2>2. CASE v # w
    BY <2>2 DEF AttemptInvariant, ResultsAreTrue, Return, TypeOK, WorkersOK
  <2> QED BY <2>1, <2>2
<1>2. QuietStep
  <2>1. QuietLeases /\ QuietStates
    BY DEF QuietLeases, QuietStates, Return, ledgerVars, deliveryVars, AttemptInvariant,
           LeasesHaveOwners
  <2>2. QuietClaims
    BY DEF QuietClaims, Return, TypeOK, WorkersOK
  <2> QED BY <2>1, <2>2 DEF QuietStep, Return, ledgerVars, deliveryVars
<1> QED BY <1>1, <1>2, QuietPreserves

(* A request is sent for the attempt just claimed.                         *)
LEMMA SendPreserves ==
  ASSUME TypeOK, TypeOK', AttemptInvariant, NEW w \in Worker, Send(w)
  PROVE  AttemptInvariant'
<1> USE DEF AttemptInvariant
<1> DEFINE e == claim[w].event
           n == claim[w].attempt
<1>1. /\ pc[w] \in Claimed /\ e \in Event /\ n \in Nat /\ claim[w] = [event |-> e, attempt |-> n]
      /\ n \in 1..attempts[e] /\ outcome[e][n] \in {"started", "uncertain"}
      /\ ~Reached(e, n)
  BY DEF Send, Claimed, TypeOK, WorkersOK, ClaimsAreApart, ResultsAreTrue
<1>2. UNCHANGED <<state, attempts, outcome, lease, audit, posted, claim, result>>
  BY DEF Send, ledgerVars, deliveryVars
<1>3. /\ wire' = wire \cup {claim[w]}
      /\ pc' = [pc EXCEPT ![w] = "sending"]
      /\ pc \in [Worker -> {"idle", "sweeping"} \cup PreClaim \cup Claimed]
  BY DEF Send, TypeOK, WorkersOK
<1>4. AttemptsAreLogged'
  BY <1>1, <1>2, <1>3 DEF AttemptsAreLogged
<1>5. ClaimsAreApart'
  <2>1. \A v \in Worker : pc'[v] \in Claimed => pc[v] \in Claimed
    BY <1>1, <1>3
  <2> QED BY <1>2, <2>1 DEF ClaimsAreApart
<1>6. ResultsAreTrue'
  <2> SUFFICES ASSUME NEW v \in Worker PROVE ResultIsTrue(v)'
    BY DEF ResultsAreTrue
  <2>1. CASE v = w
    BY <1>3, <2>1
  <2>2. CASE v # w /\ pc[v] \in Claimed
    <3>1. claim[v] # claim[w] /\ claim[v] = [event |-> claim[v].event, attempt |-> claim[v].attempt]
      BY <1>1, <2>2 DEF ClaimsAreApart, TypeOK, WorkersOK
    <3> QED BY <1>2, <1>3, <2>2, <3>1 DEF ResultsAreTrue
  <2>3. CASE v # w /\ pc[v] \notin Claimed
    BY <1>3, <2>3 DEF Claimed
  <2> QED BY <2>1, <2>2, <2>3
<1>7. RepeatsAreAccounted' /\ LeasesHaveOwners' /\ SentIsProven'
  BY <1>2 DEF RepeatsAreAccounted, LeasesHaveOwners, SentIsProven
<1>8. LeaseIsTheInflightDelivery'
  BY <1>2 DEF LeaseIsTheInflightDelivery
<1>9. KnownFailuresNeverLand'
  BY <1>1, <1>2, <1>3 DEF KnownFailuresNeverLand
<1> QED BY <1>4, <1>5, <1>6, <1>7, <1>8, <1>9

(* Telegram applies a request.                                             *)
LEMMA ApplyPreserves ==
  ASSUME TypeOK, TypeOK', AttemptInvariant, NEW r \in wire, Apply(r)
  PROVE  AttemptInvariant'
<1> USE DEF AttemptInvariant
<1>1. /\ r.event \in Event /\ r.attempt \in Nat /\ r = [event |-> r.event, attempt |-> r.attempt]
      /\ \A q \in wire : /\ q = [event |-> q.event, attempt |-> q.attempt]
                        /\ q.event \in Event
  BY DEF TypeOK, NetworkOK
<1>2. UNCHANGED <<state, attempts, outcome, lease, audit, pc, claim, result>>
  BY DEF Apply, ledgerVars, deliveryVars, workerVars
<1>3. /\ wire' = wire \ {r}
      /\ posted' = [posted EXCEPT ![r.event] = @ \cup {r.attempt}]
      /\ posted \in [Event -> SUBSET Nat]
  BY DEF Apply, TypeOK, NetworkOK
<1>4. ASSUME NEW e \in Event, NEW n \in Nat
      PROVE  /\ Reached(e, n)' => Reached(e, n)
             /\ n \in posted[e] => n \in posted'[e]
  BY <1>1, <1>3
<1>5. AttemptsAreLogged'
  BY <1>1, <1>2, <1>3 DEF AttemptsAreLogged
<1>6. ClaimsAreApart' /\ RepeatsAreAccounted' /\ LeasesHaveOwners'
  BY <1>2 DEF ClaimsAreApart, RepeatsAreAccounted, LeasesHaveOwners
<1>7. ResultsAreTrue'
  <2>1. \A w \in Worker : pc[w] \in Claimed => claim[w].event \in Event /\ claim[w].attempt \in Nat
    BY DEF TypeOK, WorkersOK
  <2> SUFFICES ASSUME NEW w \in Worker PROVE ResultIsTrue(w)'
    BY DEF ResultsAreTrue
  <2>2. CASE pc[w] \in Claimed
    <3> DEFINE e == claim[w].event
               n == claim[w].attempt
    <3>1. e \in Event /\ n \in Nat
      BY <2>1, <2>2
    <3>2. /\ n \in posted'[e] \/ [event |-> e, attempt |-> n] \in wire' => Reached(e, n)
          /\ n \in posted[e] => n \in posted'[e]
      <4> HIDE DEF e, n
      <4> QED BY <1>4, <3>1
    <3>3. claim'[w] = claim[w] /\ pc'[w] = pc[w] /\ result'[w] = result[w]
      BY <1>2
    <3> QED BY <3>2, <3>3 DEF ResultsAreTrue
  <2>3. CASE pc[w] \notin Claimed
    BY <1>2, <2>3 DEF Claimed
  <2> QED BY <2>2, <2>3
<1>8. LeaseIsTheInflightDelivery'
  BY <1>2 DEF LeaseIsTheInflightDelivery
<1>9. KnownFailuresNeverLand' /\ SentIsProven'
  <2>1. \A e \in Event : DOMAIN outcome[e] \subseteq Nat /\ attempts[e] \in Nat
    BY DEF TypeOK, DeliveriesOK
  <2>2. ASSUME NEW e \in Event, NEW n \in DOMAIN outcome[e], outcome[e][n] \in {"retry", "dead"}
        PROVE  ~Reached(e, n)'
    <3>1. ~Reached(e, n) /\ n \in Nat
      BY <2>1, <2>2 DEF KnownFailuresNeverLand
    <3> QED BY <1>4, <3>1
  <2>3. KnownFailuresNeverLand'
    BY <1>2, <2>2 DEF KnownFailuresNeverLand
  <2>4. SentIsProven'
    BY <1>2, <1>4, <2>1 DEF SentIsProven
  <2> QED BY <2>3, <2>4
<1> QED BY <1>5, <1>6, <1>7, <1>8, <1>9

(* A worker that still owns its lease ends its attempt.                    *)
LEMMA EndPreserves ==
  ASSUME TypeOK, TypeOK', AttemptInvariant,
         NEW w \in Worker, pc[w] \in Claimed, RequireLease(claim[w], w),
         NEW r \in {"sent", "retry", "dead", "uncertain"}, EndAttempt(claim[w], r),
         r \in {"retry", "dead"} => ~Reached(claim[w].event, claim[w].attempt),
         r = "sent" => claim[w].attempt \in posted[claim[w].event],
         UNCHANGED <<audit, posted, wire>>,
         pc'[w] \notin Claimed,
         \A v \in Worker \ {w} : pc'[v] = pc[v] /\ claim'[v] = claim[v] /\ result'[v] = result[v]
  PROVE  AttemptInvariant'
<1> USE DEF AttemptInvariant
<1> DEFINE e == claim[w].event
           n == claim[w].attempt
<1>1. /\ e \in Event /\ n \in Nat /\ claim[w] = [event |-> e, attempt |-> n]
      /\ n = attempts[e] /\ n \in 1..attempts[e] /\ lease[e].owner = w
      /\ attempts \in [Event -> Nat] /\ outcome \in [Event -> Seq(Outcome)]
      /\ state \in [Event -> DeliveryState \cup {"none"}] /\ lease \in [Event -> Hold]
  BY DEF TypeOK, WorkersOK, DeliveriesOK, ClaimsAreApart, RequireLease
<1>2. /\ None \notin Worker /\ NoRow.owner = None
  BY LedgerAssumption, WorkerAssumption DEF NoRow
<1>3. /\ HasLease(e) /\ state[e] = "inflight"
  BY <1>1, <1>2 DEF LeaseIsTheInflightDelivery
<1>4. /\ state' = [state EXCEPT ![e] = r]
      /\ lease' = [lease EXCEPT ![e] = NoRow]
      /\ outcome' = [outcome EXCEPT ![e] = [outcome[e] EXCEPT ![n] = r]]
      /\ attempts' = attempts
  BY DEF EndAttempt
<1>5. \A f \in Event : /\ Len(outcome'[f]) = attempts[f]
                      /\ DOMAIN outcome'[f] = 1..attempts[f]
                      /\ DOMAIN outcome[f] = 1..attempts[f]
                      /\ \A k \in 1..attempts[f] :
                           outcome'[f][k] = IF f = e /\ k = n THEN r ELSE outcome[f][k]
  <2>1. /\ \A f \in Event : DOMAIN outcome[f] = 1..attempts[f] /\ Len(outcome[f]) = attempts[f]
        /\ DOMAIN [outcome[e] EXCEPT ![n] = r] = 1..attempts[e]
        /\ Len([outcome[e] EXCEPT ![n] = r]) = attempts[e]
    BY <1>1, UpdateOutcome DEF AttemptsAreLogged, Outcome
  <2>2. ASSUME NEW f \in Event, f # e PROVE outcome'[f] = outcome[f]
    BY <1>1, <1>4, <2>2
  <2>3. outcome'[e] = [outcome[e] EXCEPT ![n] = r]
    BY <1>1, <1>4
  <2>4. \A k \in 1..attempts[e] : [outcome[e] EXCEPT ![n] = r][k] = IF k = n THEN r ELSE outcome[e][k]
    BY <2>1
  <2> HIDE DEF e, n
  <2> QED BY <2>1, <2>2, <2>3, <2>4
<1>6. \A v \in Worker : pc'[v] \in Claimed =>
        /\ v # w /\ pc'[v] = pc[v] /\ claim'[v] = claim[v] /\ result'[v] = result[v]
        /\ claim[v] # claim[w] /\ claim[v].event \in Event /\ claim[v].attempt \in Nat
        /\ ~(claim[v].event = e /\ claim[v].attempt = n)
  BY DEF ClaimsAreApart, TypeOK, WorkersOK
<1> HIDE DEF e, n
<1>7. AttemptsAreLogged'
  BY <1>4, <1>5 DEF AttemptsAreLogged
<1>8. ClaimsAreApart'
  <2>1. ASSUME NEW v \in Worker, pc'[v] \in Claimed
        PROVE  /\ claim'[v].attempt \in 1..attempts'[claim'[v].event]
               /\ outcome'[claim'[v].event][claim'[v].attempt] \in {"started", "uncertain"}
               /\ lease'[claim'[v].event].owner = v => claim'[v].attempt = attempts'[claim'[v].event]
    <3>1. /\ claim[v].attempt \in 1..attempts[claim[v].event]
          /\ outcome[claim[v].event][claim[v].attempt] \in {"started", "uncertain"}
          /\ lease[claim[v].event].owner = v => claim[v].attempt = attempts[claim[v].event]
      BY <1>6, <2>1 DEF ClaimsAreApart
    <3>2. outcome'[claim[v].event][claim[v].attempt] = outcome[claim[v].event][claim[v].attempt]
      BY <1>5, <1>6, <2>1, <3>1
    <3>3. lease'[claim[v].event].owner = v => lease[claim[v].event].owner = v
      BY <1>1, <1>2, <1>4, <1>6, <2>1
    <3> QED BY <1>4, <1>6, <2>1, <3>1, <3>2, <3>3
  <2>2. ASSUME NEW u \in Worker, NEW v \in Worker,
               pc'[u] \in Claimed, pc'[v] \in Claimed, claim'[u] = claim'[v]
        PROVE  u = v
    BY <1>6, <2>2 DEF ClaimsAreApart
  <2> QED BY <2>1, <2>2 DEF ClaimsAreApart
<1>9. ResultsAreTrue'
  BY <1>6, ResultsStay
<1>10. RepeatsAreAccounted'
  <2> SUFFICES ASSUME NEW f \in Event, NEW k \in 1..attempts[f],
                      k < attempts[f] \/ state'[f] \in {"none", "pending", "retry", "blocked"}
               PROVE  Accounted(f, k)'
    BY <1>4 DEF RepeatsAreAccounted
  <2>1. CASE f = e /\ k = n
    BY <1>1, <1>4, <1>5, <2>1
  <2>2. CASE ~(f = e /\ k = n)
    <3>1. k < attempts[f] \/ state[f] \in {"none", "pending", "retry", "blocked"}
      BY <1>1, <1>4, <2>2
    <3>2. Accounted(f, k)
      BY <3>1 DEF RepeatsAreAccounted
    <3> QED BY <1>5, <2>2, <3>2
  <2> QED BY <2>1, <2>2
<1>11. LeasesHaveOwners'
  BY <1>1, <1>4 DEF LeasesHaveOwners
<1>12. LeaseIsTheInflightDelivery'
  <2>1. ASSUME NEW f \in Event PROVE (HasLease(f) <=> state[f] = "inflight")'
    BY <1>1, <1>4 DEF LeaseIsTheInflightDelivery
  <2>2. ASSUME NEW f \in Event, NEW k \in 1..attempts[f]
        PROVE  (outcome[f][k] = "started" <=> HasLease(f) /\ k = attempts[f])'
    <3>1. outcome[f][k] = "started" <=> HasLease(f) /\ k = attempts[f]
      BY <1>5 DEF LeaseIsTheInflightDelivery
    <3>2. CASE f = e
      BY <1>1, <1>3, <1>4, <1>5, <3>1, <3>2
    <3>3. CASE f # e
      BY <1>1, <1>4, <1>5, <3>1, <3>3
    <3> QED BY <3>2, <3>3
  <2>3. ASSUME NEW f \in Event, NEW g \in Event, HasLease(f)', HasLease(g)'
        PROVE  f = g
    BY <1>1, <1>4, <2>3 DEF LeaseIsTheInflightDelivery
  <2> QED BY <1>5, <2>1, <2>2, <2>3 DEF LeaseIsTheInflightDelivery
<1>13. KnownFailuresNeverLand'
  <2>1. ASSUME NEW f \in Event, NEW k \in 1..attempts[f], outcome'[f][k] \in {"retry", "dead"}
        PROVE  ~Reached(f, k)
    BY <1>1, <1>5, <2>1 DEF KnownFailuresNeverLand, e, n
  <2> QED BY <1>5, <2>1 DEF KnownFailuresNeverLand
<1>14. SentIsProven'
  BY <1>1, <1>4 DEF SentIsProven, e, n
<1> QED BY <1>7, <1>8, <1>9, <1>10, <1>11, <1>12, <1>13, <1>14

(* What the expiry of leases at time t does to the log and to the states.  *)
LEMMA ExpiryFacts ==
  ASSUME TypeOK, AttemptInvariant, NEW t, NEW f \in Event
  PROVE  /\ ExpiredLeases(t)[f] = IF Expired(f, t) THEN NoRow ELSE lease[f]
         /\ Len(ExpiredLogs(t)[f]) = attempts[f]
         /\ DOMAIN ExpiredLogs(t)[f] = 1..attempts[f]
         /\ DOMAIN outcome[f] = 1..attempts[f]
         /\ ~Expired(f, t) => ExpiredLogs(t)[f] = outcome[f]
         /\ \A k \in 1..attempts[f] :
              ExpiredLogs(t)[f][k] = IF Expired(f, t) /\ outcome[f][k] = "started"
                                     THEN "uncertain" ELSE outcome[f][k]
         /\ \A s \in {ExpiredState(t)[f], RoutedState(t)[f]} :
              /\ s = "inflight" <=> state[f] = "inflight" /\ ~Expired(f, t)
              /\ s \in {"none", "pending", "retry", "blocked"}
                   => state[f] \in {"none", "pending", "retry", "blocked"}
              /\ s \in Waiting => state[f] \in Waiting
              /\ s = "sent" => state[f] = "sent"
<1>1. outcome[f] \in Seq(Outcome) /\ Len(outcome[f]) = attempts[f]
  BY DEF TypeOK, DeliveriesOK, AttemptInvariant, AttemptsAreLogged
<1>2. ExpiredLogs(t)[f] = IF Expired(f, t) THEN Settle(outcome[f]) ELSE outcome[f]
  BY DEF ExpiredLogs
<1>3. /\ Settle(outcome[f]) \in Seq(Outcome)
      /\ Len(Settle(outcome[f])) = Len(outcome[f])
      /\ \A k \in 1..Len(outcome[f]) :
           Settle(outcome[f])[k] = IF outcome[f][k] = "started" THEN "uncertain" ELSE outcome[f][k]
  BY <1>1, SettleType
<1>4. \A s \in {ExpiredState(t)[f], RoutedState(t)[f]} :
        /\ s = "inflight" <=> state[f] = "inflight" /\ ~Expired(f, t)
        /\ s \in {"none", "pending", "retry", "blocked"}
             => state[f] \in {"none", "pending", "retry", "blocked"}
        /\ s \in Waiting => state[f] \in Waiting
        /\ s = "sent" => state[f] = "sent"
  <2>1. Expired(f, t) => state[f] = "inflight"
    BY DEF Expired, AttemptInvariant, LeaseIsTheInflightDelivery
  <2> QED BY <2>1 DEF ExpiredState, RoutedState, Waiting
<1> QED BY <1>1, <1>2, <1>3, <1>4 DEF ExpiredLeases

(* A claim that finds nothing to send still settles the expired leases.    *)
LEMMA ExpiryPreserves ==
  ASSUME TypeOK, TypeOK', AttemptInvariant, NEW t,
         \/ state' = ExpiredState(t)
         \/ state' = RoutedState(t),
         lease' = ExpiredLeases(t), outcome' = ExpiredLogs(t),
         UNCHANGED <<attempts, audit, posted, wire>>, QuietClaims, ResultsAreTrue'
  PROVE  AttemptInvariant'
<1> USE DEF AttemptInvariant
<1>1. \A f \in Event :
        /\ HasLease(f)' <=> HasLease(f) /\ ~Expired(f, t)
        /\ HasLease(f)' => lease'[f] = lease[f]
        /\ lease'[f] = lease[f] \/ lease'[f] = NoRow
  BY ExpiryFacts
<1>2. None \notin Worker /\ NoRow.owner = None
  BY LedgerAssumption, WorkerAssumption DEF NoRow
<1>3. \A f \in Event : /\ Len(outcome'[f]) = attempts[f]
                      /\ DOMAIN outcome'[f] = 1..attempts[f]
                      /\ DOMAIN outcome[f] = 1..attempts[f]
                      /\ \A k \in 1..attempts[f] :
                           outcome'[f][k] = IF Expired(f, t) /\ outcome[f][k] = "started"
                                            THEN "uncertain" ELSE outcome[f][k]
  BY ExpiryFacts
<1>4. \A f \in Event :
        /\ state'[f] = "inflight" <=> state[f] = "inflight" /\ ~Expired(f, t)
        /\ state'[f] \in {"none", "pending", "retry", "blocked"}
             => state[f] \in {"none", "pending", "retry", "blocked"}
        /\ state'[f] = "sent" => state[f] = "sent"
  BY ExpiryFacts
<1>5. AttemptsAreLogged'
  BY <1>3 DEF AttemptsAreLogged
<1>6. ClaimsAreApart'
  <2>1. ASSUME NEW w \in Worker, pc'[w] \in Claimed
        PROVE  /\ claim'[w] = claim[w] /\ pc[w] \in Claimed
               /\ claim'[w].attempt \in 1..attempts'[claim'[w].event]
               /\ outcome'[claim'[w].event][claim'[w].attempt] \in {"started", "uncertain"}
               /\ lease'[claim'[w].event].owner = w => claim'[w].attempt = attempts'[claim'[w].event]
    <3>1. claim'[w] = claim[w] /\ pc[w] \in Claimed /\ claim[w].event \in Event
      BY <2>1 DEF QuietClaims, TypeOK, WorkersOK
    <3> QED BY <1>1, <1>2, <1>3, <3>1 DEF ClaimsAreApart
  <2>2. ASSUME NEW v \in Worker, NEW w \in Worker,
               pc'[v] \in Claimed, pc'[w] \in Claimed, claim'[v] = claim'[w]
        PROVE  v = w
    BY <2>1, <2>2 DEF ClaimsAreApart
  <2> QED BY <2>1, <2>2 DEF ClaimsAreApart
<1>7. RepeatsAreAccounted'
  BY <1>3, <1>4 DEF RepeatsAreAccounted
<1>8. LeasesHaveOwners'
  BY <1>1 DEF LeasesHaveOwners
<1>9. LeaseIsTheInflightDelivery'
  <2>1. ASSUME NEW f \in Event PROVE (HasLease(f) <=> state[f] = "inflight")'
    BY <1>1, <1>4 DEF LeaseIsTheInflightDelivery
  <2>2. ASSUME NEW f \in Event, NEW k \in 1..attempts[f]
        PROVE  (outcome[f][k] = "started" <=> HasLease(f) /\ k = attempts[f])'
    <3>1. outcome[f][k] = "started" <=> HasLease(f) /\ k = attempts[f]
      BY <1>3 DEF LeaseIsTheInflightDelivery
    <3> QED BY <1>1, <1>3, <3>1
  <2>3. ASSUME NEW f \in Event, NEW g \in Event, HasLease(f)', HasLease(g)'
        PROVE  f = g
    BY <1>1, <2>3 DEF LeaseIsTheInflightDelivery
  <2> QED BY <1>3, <2>1, <2>2, <2>3 DEF LeaseIsTheInflightDelivery
<1>10. KnownFailuresNeverLand'
  BY <1>3 DEF KnownFailuresNeverLand
<1>11. SentIsProven'
  BY <1>4 DEF SentIsProven
<1> QED BY <1>5, <1>6, <1>7, <1>8, <1>9, <1>10, <1>11

(* A worker claims an event: a new attempt, after accounted ones only.     *)
LEMMA ClaimPreserves ==
  ASSUME TypeOK, TypeOK', AttemptInvariant, NEW w \in Worker, NEW t, NEW p, NEW e \in Event,
         ClaimEvent(e, p, w, t),
         pc' = [pc EXCEPT ![w] = "claimed"],
         claim' = [claim EXCEPT ![w] = [event |-> e, attempt |-> attempts[e] + 1]],
         UNCHANGED <<result, audit, posted, wire>>
  PROVE  AttemptInvariant'
<1> USE DEF AttemptInvariant
<1> DEFINE n == attempts[e] + 1
<1>1. /\ attempts \in [Event -> Nat] /\ lease \in [Event -> Hold] /\ w \in Owner
      /\ pc \in [Worker -> {"idle", "sweeping"} \cup PreClaim \cup Claimed]
      /\ claim \in [Worker -> [event : Event \cup {None}, attempt : Nat]]
      /\ outcome \in [Event -> Seq(Outcome)]
  BY WorkerAssumption DEF TypeOK, DeliveriesOK, WorkersOK
<1>2. /\ None \notin Worker /\ NoRow.owner = None
      /\ \A x : [owner |-> w, expires |-> x] # NoRow
  BY LedgerAssumption, WorkerAssumption DEF NoRow
<1>3. /\ state[e] \in Waiting /\ ~HasLease(e) /\ ~Expired(e, t)
  <2>1. RoutedState(t)[e] \in Waiting
    BY DEF ClaimEvent, Oldest, Due
  <2>2. state[e] \in Waiting
    BY <2>1, ExpiryFacts
  <2> QED BY <2>2 DEF Waiting, Expired, LeaseIsTheInflightDelivery
<1>4. \A f \in Event : HasLease(f) => Expired(f, t)
  BY DEF ClaimEvent, Busy
<1>5. /\ state' = [RoutedState(t) EXCEPT ![e] = "inflight"]
      /\ attempts' = [attempts EXCEPT ![e] = n]
      /\ lease' = [ExpiredLeases(t) EXCEPT ![e] = [owner |-> w, expires |-> t + LeaseSeconds]]
      /\ outcome' = [ExpiredLogs(t) EXCEPT ![e] = Append(ExpiredLogs(t)[e], "started")]
  BY DEF ClaimEvent
<1>6. /\ HasLease(e)' /\ lease'[e].owner = w /\ state'[e] = "inflight" /\ attempts'[e] = n
      /\ \A f \in Event \ {e} : /\ ~HasLease(f)' /\ lease'[f] = NoRow
                               /\ state'[f] # "inflight" /\ attempts'[f] = attempts[f]
  <2>1. \A f \in Event : ExpiredLeases(t)[f] = NoRow
    BY <1>4, ExpiryFacts
  <2>2. \A f \in Event \ {e} : RoutedState(t)[f] # "inflight"
    BY <1>4, ExpiryFacts DEF LeaseIsTheInflightDelivery
  <2>3. /\ DOMAIN ExpiredLeases(t) = Event /\ DOMAIN RoutedState(t) = Event
    BY DEF ExpiredLeases, RoutedState
  <2> QED BY <1>1, <1>2, <1>5, <2>1, <2>2, <2>3
<1>7. \A f \in Event : /\ Len(outcome'[f]) = attempts'[f]
                      /\ DOMAIN outcome'[f] = 1..attempts'[f]
                      /\ DOMAIN outcome[f] = 1..attempts[f]
                      /\ \A k \in 1..attempts[f] :
                           outcome'[f][k] = IF Expired(f, t) /\ outcome[f][k] = "started"
                                            THEN "uncertain" ELSE outcome[f][k]
  <2>1. ExpiredLogs(t)[e] = outcome[e] /\ DOMAIN ExpiredLogs(t) = Event
    BY <1>3, ExpiryFacts DEF ExpiredLogs
  <2>2. outcome'[e] = Append(outcome[e], "started")
    BY <1>5, <2>1
  <2>3. outcome[e] \in Seq(Outcome) /\ Len(outcome[e]) = attempts[e] /\ "started" \in Outcome
    BY <1>1 DEF AttemptsAreLogged, Outcome
  <2>4. /\ Len(outcome'[e]) = n
        /\ DOMAIN outcome'[e] = 1..n
        /\ \A k \in 1..attempts[e] : outcome'[e][k] = outcome[e][k]
    BY <2>2, <2>3, AppendProperties
  <2>5. ASSUME NEW f \in Event, f # e PROVE outcome'[f] = ExpiredLogs(t)[f]
    BY <1>5, <2>1, <2>5
  <2> QED BY <1>3, <1>6, <2>4, <2>5, ExpiryFacts
<1>8. outcome'[e][n] = "started"
  <2>1. ExpiredLogs(t)[e] = outcome[e] /\ DOMAIN ExpiredLogs(t) = Event
    BY <1>3, ExpiryFacts DEF ExpiredLogs
  <2>2. outcome[e] \in Seq(Outcome) /\ Len(outcome[e]) = attempts[e] /\ "started" \in Outcome
    BY <1>1 DEF AttemptsAreLogged, Outcome
  <2> QED BY <1>5, <2>1, <2>2, AppendProperties
<1>9. \A f \in Event \ {e} :
        /\ state'[f] \in {"none", "pending", "retry", "blocked"}
             => state[f] \in {"none", "pending", "retry", "blocked"}
        /\ state'[f] = "sent" => state[f] = "sent"
  <2>1. ASSUME NEW f \in Event \ {e} PROVE state'[f] = RoutedState(t)[f]
    BY <1>5 DEF RoutedState
  <2> QED BY <2>1, ExpiryFacts
<1>10. ASSUME NEW v \in Worker, v # w, pc'[v] \in Claimed
       PROVE  /\ pc'[v] = pc[v] /\ claim'[v] = claim[v] /\ result'[v] = result[v]
              /\ claim[v].event \in Event
              /\ claim[v].attempt \in 1..attempts[claim[v].event]
              /\ outcome[claim[v].event][claim[v].attempt] \in {"started", "uncertain"}
  BY <1>1, <1>10 DEF ClaimsAreApart, TypeOK, WorkersOK
<1>11. pc'[w] = "claimed" /\ claim'[w] = [event |-> e, attempt |-> n] /\ n \in Nat /\ n \in 1..n
  BY <1>1
<1>12. AttemptsAreLogged'
  <2>1. ASSUME NEW f \in Event PROVE 1..attempts[f] \subseteq 1..attempts'[f]
    <3>1. CASE f = e
      BY <1>1, <1>6, <3>1
    <3>2. CASE f # e
      BY <1>6, <3>2
    <3> QED BY <3>1, <3>2
  <2>2. \A r \in wire : r.event \in Event
    BY DEF TypeOK, NetworkOK
  <2> QED BY <1>7, <2>1, <2>2 DEF AttemptsAreLogged
<1>13. ClaimsAreApart'
  <2>1. ASSUME NEW v \in Worker, pc'[v] \in Claimed
        PROVE  /\ claim'[v].attempt \in 1..attempts'[claim'[v].event]
               /\ outcome'[claim'[v].event][claim'[v].attempt] \in {"started", "uncertain"}
               /\ lease'[claim'[v].event].owner = v => claim'[v].attempt = attempts'[claim'[v].event]
    <3>1. CASE v = w
      BY <1>6, <1>8, <1>11, <3>1
    <3>2. CASE v # w
      <4>1. claim[v].attempt \in 1..attempts'[claim[v].event]
        BY <1>1, <1>6, <1>10, <2>1, <3>2
      <4>2. lease'[claim[v].event].owner # v
        BY <1>2, <1>6, <1>10, <2>1, <3>2
      <4> QED BY <1>7, <1>10, <2>1, <3>2, <4>1, <4>2
    <3> QED BY <3>1, <3>2
  <2>2. ASSUME NEW u \in Worker, NEW v \in Worker,
               pc'[u] \in Claimed, pc'[v] \in Claimed, claim'[u] = claim'[v]
        PROVE  u = v
    <3>1. CASE u # w /\ v # w
      BY <1>10, <2>2, <3>1 DEF ClaimsAreApart
    <3>2. ASSUME NEW x \in Worker, x # w, pc'[x] \in Claimed PROVE claim'[x] # claim'[w]
      BY <1>1, <1>10, <1>11, <3>2
    <3> QED BY <2>2, <3>1, <3>2
  <2> QED BY <2>1, <2>2 DEF ClaimsAreApart
<1>14. ResultsAreTrue'
  <2> SUFFICES ASSUME NEW v \in Worker PROVE ResultIsTrue(v)'
    BY DEF ResultsAreTrue
  <2>1. CASE v = w
    <3>1. n \notin posted[e] /\ [event |-> e, attempt |-> n] \notin wire
      BY <1>1 DEF AttemptsAreLogged
    <3> QED BY <1>11, <2>1, <3>1
  <2>2. CASE v # w /\ pc'[v] \in Claimed
    BY <1>10, <2>2 DEF ResultsAreTrue
  <2>3. CASE pc'[v] \notin Claimed
    BY <2>3 DEF Claimed
  <2> QED BY <2>1, <2>2, <2>3
<1>15. RepeatsAreAccounted'
  <2> SUFFICES ASSUME NEW f \in Event, NEW k \in 1..attempts'[f],
                      k < attempts'[f] \/ state'[f] \in {"none", "pending", "retry", "blocked"}
               PROVE  Accounted(f, k)'
    BY DEF RepeatsAreAccounted
  <2>1. /\ k \in 1..attempts[f]
        /\ k < attempts[f] \/ state[f] \in {"none", "pending", "retry", "blocked"}
    <3>1. CASE f = e
      BY <1>1, <1>3, <1>6, <3>1 DEF Waiting
    <3>2. CASE f # e
      BY <1>6, <1>9, <3>2
    <3> QED BY <3>1, <3>2
  <2>2. Accounted(f, k)
    BY <2>1 DEF RepeatsAreAccounted
  <2> QED BY <1>7, <2>1, <2>2
<1>16. LeasesHaveOwners'
  BY <1>1, <1>6 DEF LeasesHaveOwners
<1>17. LeaseIsTheInflightDelivery'
  <2>1. ASSUME NEW f \in Event PROVE (HasLease(f) <=> state[f] = "inflight")'
    BY <1>6
  <2>2. ASSUME NEW f \in Event, NEW k \in 1..attempts'[f]
        PROVE  outcome'[f][k] = "started" <=> HasLease(f)' /\ k = attempts'[f]
    <3>1. CASE f = e /\ k = n
      BY <1>6, <1>8, <3>1
    <3>2. CASE ~(f = e /\ k = n)
      <4>1. k \in 1..attempts[f]
        BY <1>1, <1>6, <3>2
      <4>2. outcome[f][k] = "started" => HasLease(f)
        <5>1. k \in DOMAIN outcome[f]
          BY <1>7, <4>1
        <5> QED BY <5>1 DEF LeaseIsTheInflightDelivery
      <4>3. outcome'[f][k] # "started"
        BY <1>4, <1>7, <4>1, <4>2
      <4> QED BY <1>6, <3>2, <4>3
    <3> QED BY <3>1, <3>2
  <2>3. ASSUME NEW f \in Event, NEW g \in Event, HasLease(f)', HasLease(g)'
        PROVE  f = g
    BY <1>6, <2>3
  <2> QED BY <1>7, <2>1, <2>2, <2>3 DEF LeaseIsTheInflightDelivery
<1>18. KnownFailuresNeverLand'
  <2>1. ASSUME NEW f \in Event, NEW k \in 1..attempts'[f], outcome'[f][k] \in {"retry", "dead"}
        PROVE  ~Reached(f, k)
    <3>1. k \in 1..attempts[f]
      <4>1. CASE f = e
        <5>1. k # n /\ k \in 1..n
          BY <1>6, <1>8, <2>1, <4>1
        <5> QED BY <1>1, <4>1, <5>1
      <4>2. CASE f # e
        BY <1>6, <4>2
      <4> QED BY <4>1, <4>2
    <3> QED BY <1>7, <2>1, <3>1 DEF KnownFailuresNeverLand
  <2> QED BY <1>7, <2>1 DEF KnownFailuresNeverLand
<1>19. SentIsProven'
  BY <1>6, <1>9 DEF SentIsProven
<1> QED BY <1>12, <1>13, <1>14, <1>15, <1>16, <1>17, <1>18, <1>19

-----------------------------------------------------------------------------
(* The actions.                                                            *)

LEMMA MarksPreserve ==
  ASSUME TypeOK, TypeOK', AttemptInvariant, NEW w \in Worker, Finish(w)
  PROVE  AttemptInvariant'
<1>1. /\ pc[w] \in Claimed /\ pc[w] = "finished" /\ claim[w].event \in Event
      /\ pc \in [Worker -> {"idle", "sweeping"} \cup PreClaim \cup Claimed]
  BY DEF Finish, Claimed, TypeOK, WorkersOK
<1>2. /\ UNCHANGED <<audit, posted, wire>>
      /\ pc'[w] \notin Claimed
      /\ \A v \in Worker \ {w} : pc'[v] = pc[v] /\ claim'[v] = claim[v] /\ result'[v] = result[v]
  <2>1. /\ pc' = [pc EXCEPT ![w] = "idle"] \/ pc' = [pc EXCEPT ![w] = "sweeping"]
        /\ claim' = [claim EXCEPT ![w] = NoClaim]
        /\ result' = [result EXCEPT ![w] = "none"]
    BY DEF Finish, Idle
  <2>2. pc'[w] \in {"idle", "sweeping"}
    BY <1>1, <2>1
  <2>3. pc'[w] \notin Claimed
    BY <2>2 DEF Claimed
  <2> QED BY <2>1, <2>3 DEF Finish, netVars, TypeOK, WorkersOK
<1>3. CASE result[w] = "ok" /\ MarkSent(claim[w], w, stamp[w])
  <2>1. claim[w].attempt \in posted[claim[w].event]
    BY <1>1, <1>3 DEF AttemptInvariant, ResultsAreTrue
  <2> QED BY <1>1, <1>2, <1>3, <2>1, EndPreserves DEF MarkSent
<1>4. CASE /\ result[w] \in {"retryable", "rejected", "policy"}
           /\ MarkFailed(claim[w], w, stamp[w], result[w] # "retryable")
  <2>1. ~Reached(claim[w].event, claim[w].attempt)
    BY <1>1, <1>4 DEF AttemptInvariant, ResultsAreTrue
  <2>2. PICK r \in {"retry", "dead"} : EndAttempt(claim[w], r)
    BY <1>4 DEF MarkFailed
  <2> QED BY <1>1, <1>2, <1>4, <2>1, <2>2, EndPreserves DEF MarkFailed
<1>5. CASE MarkUncertain(claim[w], w)
  BY <1>1, <1>2, <1>5, EndPreserves DEF MarkUncertain
<1> QED BY <1>3, <1>4, <1>5 DEF Finish

(* Steps that touch neither the log of attempts nor a running claim.       *)
LEMMA AsidePreserves ==
  ASSUME TypeOK, TypeOK', AttemptInvariant,
         UNCHANGED <<attempts, outcome, posted>>, audit \subseteq audit', wire' \subseteq wire,
         QuietLeases, QuietStates,
         \A w \in Worker : pc'[w] \in Claimed =>
           pc'[w] = pc[w] /\ claim'[w] = claim[w] /\ result'[w] = result[w]
  PROVE  AttemptInvariant'
<1>1. ResultsAreTrue'
  BY ResultsStay DEF AttemptInvariant
<1>2. QuietStep
  BY DEF QuietStep, QuietClaims
<1> QED BY <1>1, <1>2, QuietPreserves

LEMMA SameDeliveries ==
  ASSUME AttemptInvariant
  PROVE  /\ UNCHANGED lease => QuietLeases
         /\ UNCHANGED state => QuietStates
BY DEF AttemptInvariant, LeasesHaveOwners, QuietLeases, QuietStates

LEMMA IdleClaims ==
  ASSUME TypeOK, NEW w \in Worker, Idle(w)
  PROVE  /\ QuietClaims
         /\ \A v \in Worker : pc'[v] \in Claimed =>
              pc'[v] = pc[v] /\ claim'[v] = claim[v] /\ result'[v] = result[v]
<1>1. pc'[w] = "idle"
  BY DEF Idle, TypeOK, WorkersOK
<1>2. pc'[w] \notin Claimed
  BY <1>1 DEF Claimed
<1>3. \A v \in Worker \ {w} : pc'[v] = pc[v] /\ claim'[v] = claim[v] /\ result'[v] = result[v]
  BY DEF Idle, TypeOK, WorkersOK
<1> QED BY <1>2, <1>3 DEF QuietClaims

(* Idling, or starting a pass, is no running claim.                        *)
LEMMA WorkerStepPreserves ==
  ASSUME TypeOK, TypeOK', AttemptInvariant, NEW w \in Worker, WorkerStep(w)
  PROVE  AttemptInvariant'
<1>1. CASE Start(w)
  <2>1. \A v \in Worker : pc'[v] \in Claimed => pc'[v] = pc[v]
    <3>1. pc'[w] \in {"idle", "cleaning"}
      BY <1>1 DEF Start, TypeOK, WorkersOK
    <3>2. pc'[w] \notin Claimed
      BY <3>1 DEF Claimed
    <3> QED BY <1>1, <3>2 DEF Start, TypeOK, WorkersOK
  <2> QED BY <1>1, <2>1, SameDeliveries, AsidePreserves DEF Start, deliveryVars, netVars
<1>2. CASE Clean(w)
  <2>1. \A v \in Worker : pc'[v] \in Claimed =>
          pc'[v] = pc[v] /\ claim'[v] = claim[v] /\ result'[v] = result[v]
    <3>1. CASE Idle(w)
      BY <3>1, IdleClaims
    <3>2. CASE pc' = [pc EXCEPT ![w] = "claiming"] /\ UNCHANGED <<stamp, claim, beat, result>>
      <4>1. pc'[w] = "claiming"
        BY <3>2 DEF TypeOK, WorkersOK
      <4>2. pc'[w] \notin Claimed
        BY <4>1 DEF Claimed
      <4> QED BY <3>2, <4>2 DEF TypeOK, WorkersOK
    <3> QED BY <1>2, <3>1, <3>2 DEF Clean
  <2> QED BY <1>2, <2>1, SameDeliveries, AsidePreserves DEF Clean, deliveryVars, netVars
<1>3. CASE Claim(w)
  <2>1. CASE (ClaimBusy(stamp[w]) \/ ClaimNothing(WorkerProfile[w], stamp[w])) /\ Idle(w)
    <3>1. QuietClaims /\ ResultsAreTrue'
      BY <1>3, <2>1, IdleClaims, ResultsStay DEF Claim, netVars, AttemptInvariant
    <3>2. UNCHANGED <<attempts, audit, posted, wire>>
      BY <1>3, <2>1 DEF Claim, ClaimBusy, ClaimNothing, netVars
    <3>3. /\ state' = ExpiredState(stamp[w]) \/ state' = RoutedState(stamp[w])
          /\ lease' = ExpiredLeases(stamp[w]) /\ outcome' = ExpiredLogs(stamp[w])
      BY <2>1 DEF ClaimBusy, ClaimNothing
    <3> QED BY <3>1, <3>2, <3>3, ExpiryPreserves
  <2>2. ASSUME NEW e \in Event,
               ClaimEvent(e, WorkerProfile[w], w, stamp[w]),
               pc' = [pc EXCEPT ![w] = "claimed"],
               claim' = [claim EXCEPT ![w] = [event |-> e, attempt |-> attempts[e] + 1]],
               UNCHANGED <<stamp, beat, result>>
        PROVE  AttemptInvariant'
    BY <1>3, <2>2, ClaimPreserves DEF Claim, netVars
  <2> QED BY <1>3, <2>1, <2>2 DEF Claim
<1>4. CASE Send(w)
  BY <1>4, SendPreserves
<1>5. CASE Refuse(w)
  <2>1. PICK how \in {"policy", "retryable"} : Return(w, how)
    BY <1>5 DEF Refuse
  <2>2. pc[w] \in Claimed /\ UNCHANGED <<posted, wire>> /\ claim'[w] = claim[w]
    BY <1>5, <2>1 DEF Refuse, Claimed, netVars, Return
  <2>3. ~Reached(claim[w].event, claim[w].attempt)'
    BY <1>5, <2>2 DEF Refuse, AttemptInvariant, ResultsAreTrue
  <2> QED BY <2>1, <2>2, <2>3, ReturnPreserves
<1>6. CASE Rejected(w)
  <2>1. PICK how \in {"rejected", "retryable"} : Return(w, how)
    BY <1>6 DEF Rejected
  <2>2. /\ pc[w] \in Claimed /\ UNCHANGED posted /\ wire' = wire \ {claim[w]}
        /\ claim[w] \in wire /\ claim'[w] = claim[w]
        /\ claim[w] = [event |-> claim[w].event, attempt |-> claim[w].attempt]
    BY <1>6, <2>1 DEF Rejected, Claimed, Return, TypeOK, WorkersOK
  <2>3. claim[w].attempt \notin posted[claim[w].event]
    BY <2>2 DEF AttemptInvariant, AttemptsAreLogged
  <2>4. ~Reached(claim[w].event, claim[w].attempt)'
    BY <2>2, <2>3
  <2> QED BY <2>1, <2>2, <2>4, ReturnPreserves
<1>7. CASE Accepted(w)
  <2>1. pc[w] \in Claimed /\ UNCHANGED <<posted, wire>>
    BY <1>7 DEF Accepted, Claimed, netVars
  <2> QED BY <1>7, <2>1, ReturnPreserves DEF Accepted
<1>8. CASE Unknown(w)
  <2>1. pc[w] \in Claimed /\ UNCHANGED <<posted, wire>>
    BY <1>8 DEF Unknown, Claimed, netVars
  <2> QED BY <1>8, <2>1, ReturnPreserves DEF Unknown
<1>9. CASE Finish(w)
  BY <1>9, MarksPreserve
<1>10. CASE LeaseLost(w)
  BY <1>10, IdleClaims, SameDeliveries, AsidePreserves DEF LeaseLost, deliveryVars, netVars
<1>11. CASE Close(w)
  BY <1>11, SameDeliveries, AsidePreserves DEF Close, deliveryVars, netVars, workerVars
<1>12. CASE Heartbeat(w)
  <2>1. QuietLeases
    <3>1. lease' = lease \/ \E x : lease' = [lease EXCEPT ![claim[w].event].expires = x]
      BY <1>12 DEF Heartbeat, RenewDeliveryLease
    <3>2. RenewsDeliveryLease(claim[w].event, w) \/ lease' = lease
      BY <1>12 DEF Heartbeat, RenewDeliveryLease
    <3>3. \A e \in Event : lease'[e].owner = lease[e].owner
      <4>1. ASSUME NEW e \in Event, NEW x,
                   lease'[e] = lease[e] \/ lease'[e] = [lease[e] EXCEPT !.expires = x]
            PROVE  lease'[e].owner = lease[e].owner
        BY <4>1 DEF TypeOK, DeliveriesOK, Hold
      <4>2. ASSUME NEW e \in Event, NEW x, lease' = [lease EXCEPT ![claim[w].event].expires = x]
            PROVE  lease'[e] = lease[e] \/ lease'[e] = [lease[e] EXCEPT !.expires = x]
        BY <4>2 DEF TypeOK, DeliveriesOK
      <4> QED BY <3>1, <4>1, <4>2
    <3>4. \A e \in Event : lease'[e] = lease[e] \/ (e = claim[w].event /\ lease[e].owner = w)
      BY <3>1, <3>2 DEF TypeOK, DeliveriesOK, RenewsDeliveryLease
    <3>5. w # NoRow.owner /\ w \in Owner
      BY LedgerAssumption, WorkerAssumption DEF NoRow
    <3>6. \A e \in Event : HasLease(e)' <=> HasLease(e)
      BY <3>3, <3>4, <3>5
    <3> QED BY <3>3, <3>6 DEF QuietLeases, AttemptInvariant, LeasesHaveOwners
  <2> QED BY <1>12, <2>1, SameDeliveries, AsidePreserves DEF Heartbeat, netVars
<1>13. CASE HeartbeatError(w)
  BY <1>13, SameDeliveries, AsidePreserves DEF HeartbeatError, ledgerVars, deliveryVars, netVars
<1> QED BY <1>1, <1>2, <1>3, <1>4, <1>5, <1>6, <1>7, <1>8, <1>9, <1>10, <1>11, <1>12, <1>13
        DEF WorkerStep

(* A batch insertion queues events that had no delivery.                   *)
LEMMA InsertIsQuiet ==
  ASSUME TypeOK, AttemptInvariant, NEW E, NEW topic, InsertDelivery(E, topic)
  PROVE  QuietLeases /\ QuietStates
<1>1. UNCHANGED lease
  BY DEF InsertDelivery
<1>2. QuietStates
  BY DEF InsertDelivery, QuietStates
<1> QED BY <1>1, <1>2, SameDeliveries

LEMMA ProducePreserves ==
  ASSUME TypeOK, TypeOK', AttemptInvariant, NEW e \in Event, Produce(e) \/ TailStep(e)
  PROVE  AttemptInvariant'
<1>1. UNCHANGED <<audit, posted, wire, pc, claim, result>>
  BY DEF Produce, CaptureEvent, RecordEvent, TailStep, TailLooks, TailReadsRoute, TailHolds,
         TailReadsBlock, TailQueues, TailEnds, ledgerVars, netVars, workerVars
<1>2. CASE UNCHANGED deliveryVars
  BY <1>1, <1>2, SameDeliveries, AsidePreserves DEF deliveryVars
<1>3. CASE \E topic : InsertDelivery({e}, topic)
  <2>1. QuietLeases /\ QuietStates
    BY <1>3, InsertIsQuiet
  <2>2. UNCHANGED <<attempts, outcome>>
    BY <1>3 DEF InsertDelivery
  <2> QED BY <1>1, <2>1, <2>2, AsidePreserves
<1>4. Enqueue(e) => UNCHANGED deliveryVars \/ \E topic : InsertDelivery({e}, topic)
  BY DEF Enqueue
<1>5. CASE Produce(e)
  BY <1>2, <1>3, <1>4, <1>5 DEF Produce, CaptureEvent, RecordEvent
<1>6. CASE TailStep(e)
  BY <1>2, <1>3, <1>6 DEF TailStep, TailLooks, TailReadsRoute, TailHolds, TailReadsBlock,
     TailQueues, TailEnds, ledgerVars
<1> QED BY <1>5, <1>6

LEMMA OperatorStepPreserves ==
  ASSUME TypeOK, TypeOK', AttemptInvariant, NEW o \in Operator, OperatorStep(o)
  PROVE  AttemptInvariant'
<1>1. UNCHANGED <<pc, claim, result, posted, wire>>
  BY DEF OperatorStep, OpBegin, OpReadRoute, OpReconcileBlocks, OpCommand, OpEnd,
         workerVars, netVars
<1>2. CASE UNCHANGED <<deliveryVars, audit>>
  BY <1>1, <1>2, SameDeliveries, AsidePreserves DEF deliveryVars
<1>3. CASE OpReconcileBlocks(o)
  <2>1. PICK E, topic : InsertDelivery(E, topic)
    BY <1>3 DEF OpReconcileBlocks, ReconcileRouteBlocks
  <2>2. UNCHANGED <<attempts, outcome, audit>>
    BY <1>3, <2>1 DEF OpReconcileBlocks, ReconcileRouteBlocks, InsertDelivery
  <2>3. QuietLeases /\ QuietStates
    BY <2>1, InsertIsQuiet
  <2> QED BY <1>1, <2>2, <2>3, AsidePreserves
<1>4. ASSUME NEW c \in Conversation, RebindRouteChanged(c)
      PROVE  AttemptInvariant'
  <2>1. /\ UNCHANGED <<attempts, outcome, lease>> /\ audit \subseteq audit'
    BY <1>4 DEF RebindRouteChanged
  <2>2. QuietStates
    BY <1>4 DEF RebindRouteChanged, QuietStates
  <2> QED BY <1>1, <2>1, <2>2, SameDeliveries, AsidePreserves
<1>5. ASSUME NEW e \in Event, ReconcileUncertainSent(e)
      PROVE  AttemptInvariant'
  <2>1. /\ UNCHANGED <<attempts, outcome, lease>> /\ audit \subseteq audit'
    BY <1>5 DEF ReconcileUncertainSent
  <2>2. QuietStates
    BY <1>5 DEF ReconcileUncertainSent, QuietStates, Audit, TypeOK, DeliveriesOK
  <2> QED BY <1>1, <2>1, <2>2, SameDeliveries, AsidePreserves
<1>6. ASSUME NEW e \in Event, ReconcileUncertainRetry(e)
      PROVE  AttemptInvariant'
  <2>1. /\ UNCHANGED <<attempts, outcome, lease>> /\ audit \subseteq audit'
    BY <1>6 DEF ReconcileUncertainRetry
  <2>2. QuietStates
    BY <1>6 DEF ReconcileUncertainRetry, QuietStates, Audit, TypeOK, DeliveriesOK
  <2> QED BY <1>1, <2>1, <2>2, SameDeliveries, AsidePreserves
<1>7. CASE OpCommand(o)
  BY <1>2, <1>4, <1>5, <1>6, <1>7 DEF OpCommand, SetRoute, ImportLegacy, AuthorizeMediaPurge
<1>8. CASE OpBegin(o) \/ OpEnd(o) \/ \E c \in Conversation : OpReadRoute(o, c)
  BY <1>2, <1>8 DEF OpBegin, OpEnd, OpReadRoute, ledgerVars
<1> QED BY <1>3, <1>7, <1>8 DEF OperatorStep

LEMMA CrashPreserves ==
  ASSUME TypeOK, TypeOK', AttemptInvariant, NEW x \in Process, Crash(x)
  PROVE  AttemptInvariant'
<1>1. x \in Owner /\ Gone \in Owner /\ Gone \notin Worker /\ None \notin Owner
  BY LedgerAssumption, WorkerAssumption DEF Process
<1>2. QuietLeases
  <2> SUFFICES ASSUME NEW e \in Event
               PROVE  /\ HasLease(e)' <=> HasLease(e)
                      /\ HasLease(e)' => lease'[e].owner \in Owner
                      /\ \A w \in Worker : lease'[e].owner = w => lease[e].owner = w
    BY DEF QuietLeases
  <2>1. lease'[e] = Orphan(lease[e], x) /\ lease[e] \in Hold
    BY DEF Crash, TypeOK, DeliveriesOK
  <2>2. CASE lease[e].owner = x
    <3>1. lease'[e].owner = Gone
      BY <2>1, <2>2 DEF Orphan, Hold
    <3>2. NoRow.owner = None
      BY DEF NoRow
    <3> QED BY <1>1, <2>2, <3>1, <3>2
  <2>3. CASE lease[e].owner # x
    BY <2>1, <2>3 DEF Orphan, AttemptInvariant, LeasesHaveOwners
  <2> QED BY <2>2, <2>3
<1>3. \A v \in Worker : pc'[v] \in Claimed =>
        pc'[v] = pc[v] /\ claim'[v] = claim[v] /\ result'[v] = result[v]
  <2>1. CASE x \in Worker /\ Idle(x)
    BY <2>1, IdleClaims
  <2>2. CASE UNCHANGED workerVars
    BY <2>2 DEF workerVars
  <2> QED BY <2>1, <2>2 DEF Crash
<1> QED BY <1>2, <1>3, SameDeliveries, AsidePreserves DEF Crash, netVars

LEMMA TickPreserves ==
  ASSUME TypeOK, TypeOK', AttemptInvariant, Tick
  PROVE  AttemptInvariant'
<1>1. QuietLeases
  <2> SUFFICES ASSUME NEW e \in Event
               PROVE  /\ HasLease(e)' <=> HasLease(e)
                      /\ HasLease(e)' => lease'[e].owner \in Owner
                      /\ lease'[e].owner = lease[e].owner
    BY DEF QuietLeases
  <2>1. lease'[e] = Older(lease[e]) /\ lease[e] \in Hold
    BY DEF Tick, TypeOK, DeliveriesOK
  <2>2. lease'[e].owner = lease[e].owner /\ (HasLease(e) => lease[e].owner \in Owner)
    BY <2>1 DEF Older, Hold, AttemptInvariant, LeasesHaveOwners
  <2>3. NoRow.owner = None /\ None \notin Owner
    BY LedgerAssumption DEF NoRow
  <2> QED BY <2>1, <2>2, <2>3 DEF Older
<1> QED BY <1>1, SameDeliveries, AsidePreserves DEF Tick, netVars

LEMMA InitAttempts == Init => AttemptInvariant
<1> SUFFICES ASSUME Init PROVE AttemptInvariant
  OBVIOUS
<1> USE DEF Init, LedgerInit
<1>1. AttemptsAreLogged /\ ClaimsAreApart /\ ResultsAreTrue
  BY DEF AttemptsAreLogged, ClaimsAreApart, ResultsAreTrue, Claimed
<1>2. RepeatsAreAccounted /\ LeasesHaveOwners
  BY DEF RepeatsAreAccounted, LeasesHaveOwners
<1>3. LeaseIsTheInflightDelivery
  BY DEF LeaseIsTheInflightDelivery
<1>4. KnownFailuresNeverLand /\ SentIsProven
  BY DEF KnownFailuresNeverLand, SentIsProven
<1> QED BY <1>1, <1>2, <1>3, <1>4 DEF AttemptInvariant

LEMMA NextAttempts ==
  ASSUME TypeOK, AttemptInvariant, [Next]_vars
  PROVE  AttemptInvariant'
<1>1. TypeOK'
  BY NextType
<1>2. ASSUME NEW e \in Event, Produce(e) \/ TailStep(e) PROVE AttemptInvariant'
  BY <1>1, <1>2, ProducePreserves
<1>3. ASSUME NEW c \in Conversation, NEW topic \in Topic, ProvisionRoute(c, topic)
      PROVE  AttemptInvariant'
  BY <1>1, <1>3, SameDeliveries, AsidePreserves
     DEF ProvisionRoute, SetRoute, deliveryVars, workerVars, netVars
<1>4. ASSUME NEW w \in Worker, WorkerStep(w) PROVE AttemptInvariant'
  BY <1>1, <1>4, WorkerStepPreserves
<1>5. ASSUME NEW r \in wire, Apply(r) PROVE AttemptInvariant'
  BY <1>1, <1>5, ApplyPreserves
<1>6. ASSUME NEW r \in wire, Lose(r) PROVE AttemptInvariant'
  BY <1>1, <1>6, SameDeliveries, AsidePreserves DEF Lose, ledgerVars, deliveryVars, workerVars
<1>7. ASSUME NEW o \in Operator, OperatorStep(o) PROVE AttemptInvariant'
  BY <1>1, <1>7, OperatorStepPreserves
<1>8. ASSUME NEW x \in Process, Crash(x) PROVE AttemptInvariant'
  BY <1>1, <1>8, CrashPreserves
<1>9. CASE Tick
  BY <1>1, <1>9, TickPreserves
<1>10. CASE UNCHANGED vars
  BY <1>1, <1>10, SameDeliveries, AsidePreserves
     DEF vars, ledgerVars, deliveryVars, workerVars, netVars
<1> QED BY <1>2, <1>3, <1>4, <1>5, <1>6, <1>7, <1>8, <1>9, <1>10 DEF Next

-----------------------------------------------------------------------------
(* The ledger's log, the workers' claims and Telegram always agree.        *)
THEOREM AttemptsCorrect == Spec => []AttemptInvariant
BY InitType, NextType, InitAttempts, NextAttempts, PTL DEF Spec

(* No message that reached Telegram is sent again without an operator's    *)
(* decision, whatever expires, crashes, stalls or answers late.            *)
THEOREM NoBlindResendHolds == Spec => []NoBlindResend
<1>1. TypeOK /\ AttemptInvariant => NoBlindResend
  <2> SUFFICES ASSUME TypeOK, AttemptInvariant,
                      NEW e \in Event, NEW m \in posted[e], NEW n \in posted[e], m < n
               PROVE  Waived(e, m)
    BY DEF NoBlindResend
  <2>1. /\ m \in 1..attempts[e] /\ m < attempts[e] /\ m \in DOMAIN outcome[e]
    BY DEF TypeOK, DeliveriesOK, AttemptInvariant, AttemptsAreLogged
  <2>2. outcome[e][m] \notin {"retry", "dead"}
    BY <2>1 DEF AttemptInvariant, KnownFailuresNeverLand
  <2> QED BY <2>1, <2>2 DEF AttemptInvariant, RepeatsAreAccounted
<1> QED BY <1>1, TypeCorrect, AttemptsCorrect, PTL

(* An attempt logged as failed neither reached Telegram nor ever will.     *)
THEOREM KnownFailuresHold == Spec => []KnownFailuresNeverLand
BY AttemptsCorrect, PTL DEF AttemptInvariant

(* Every delivery that reads sent was applied, or vouched for.             *)
THEOREM SentIsProvenHolds == Spec => []SentIsProven
BY AttemptsCorrect, PTL DEF AttemptInvariant

(* The lease table, the delivery states and the attempt log agree, and one *)
(* lease at most exists in the whole ledger.                               *)
THEOREM OneLease == Spec => []LeaseIsTheInflightDelivery
BY AttemptsCorrect, PTL DEF AttemptInvariant
=============================================================================
