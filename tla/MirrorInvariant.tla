--------------------------- MODULE MirrorInvariant ---------------------------
(***************************************************************************)
(* The inductive invariant behind NoBlindResend, KnownFailuresNeverLand,   *)
(* SentIsProven and LeaseIsTheInflightDelivery, none of which is inductive *)
(* alone.  MirrorSafety proves it; TLC checks it on the instances.         *)
(***************************************************************************)
EXTENDS MirrorWorker

(* Telegram has applied attempt n of event e, or may still.                *)
Reached(e, n) == n \in posted[e] \/ [event |-> e, attempt |-> n] \in wire

(* Attempt n need not be feared any more: it cannot reach Telegram, or an  *)
(* operator has released it.                                               *)
Accounted(e, n) == Waived(e, n) \/ outcome[e][n] \in {"retry", "dead"}

(* The attempt log has one entry per attempt, no request is in the air     *)
(* that was applied already, and nothing but logged attempts was sent.     *)
AttemptsAreLogged ==
  /\ \A e \in Event : /\ Len(outcome[e]) = attempts[e]
                      /\ posted[e] \subseteq 1..attempts[e]
  /\ \A r \in wire : /\ r.attempt \in 1..attempts[r.event]
                     /\ r.attempt \notin posted[r.event]

(* No two workers hold a claim for the same attempt, even when the lease   *)
(* of one has expired; a worker that still owns the lease holds the last   *)
(* one.                                                                    *)
ClaimsAreApart ==
  /\ \A w \in Worker : pc[w] \in Claimed =>
       /\ claim[w].attempt \in 1..attempts[claim[w].event]
       /\ outcome[claim[w].event][claim[w].attempt] \in {"started", "uncertain"}
       /\ lease[claim[w].event].owner = w => claim[w].attempt = attempts[claim[w].event]
  /\ \A v, w \in Worker :
       pc[v] \in Claimed /\ pc[w] \in Claimed /\ claim[v] = claim[w] => v = w

(* The worker has not sent its request, or knows that it had no effect.    *)
HadNoEffect(w) ==
  \/ pc[w] = "claimed"
  \/ pc[w] = "finished" /\ result[w] \in {"retryable", "rejected", "policy"}

(* What a worker believes about its call is true at Telegram.              *)
ResultIsTrue(w) ==
  /\ HadNoEffect(w) => ~Reached(claim[w].event, claim[w].attempt)
  /\ pc[w] = "finished" /\ result[w] = "ok" =>
       claim[w].attempt \in posted[claim[w].event]

ResultsAreTrue == \A w \in Worker : ResultIsTrue(w)

(* Only accounted attempts are followed by another one, now or later.      *)
RepeatsAreAccounted ==
  \A e \in Event : \A n \in 1..attempts[e] :
    n < attempts[e] \/ state[e] \in {"none", "pending", "retry", "blocked"}
      => Accounted(e, n)

LeasesHaveOwners == \A e \in Event : HasLease(e) => lease[e].owner \in Owner

(* The ledger's log, the workers' claims and Telegram agree on every       *)
(* attempt, whichever leases expired and whoever crashed in between.       *)
AttemptInvariant ==
  /\ AttemptsAreLogged
  /\ ClaimsAreApart
  /\ ResultsAreTrue
  /\ RepeatsAreAccounted
  /\ LeasesHaveOwners
  /\ LeaseIsTheInflightDelivery
  /\ KnownFailuresNeverLand
  /\ SentIsProven
=============================================================================
