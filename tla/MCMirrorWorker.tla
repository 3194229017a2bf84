--------------------------- MODULE MCMirrorWorker ---------------------------
(* Instances of MirrorWorker for TLC.                                      *)
EXTENDS MirrorInvariant, TLC

CONSTANTS e1, e2, c1, c2, p1, p2, t1, t2, w1, w2, op

MCOwner == Worker \cup Operator \cup {Gone}

(* One conversation of one profile.                                        *)
OneConversation == [e \in Event |-> c1]
OneProfile      == [e \in Event |-> p1]
SameWorkers     == [w \in Worker |-> p1]
ProfileOne      == [o \in Operator |-> p1]

(* A profile for each worker and each event, sharing the ledger.           *)
OwnConversation == e1 :> c1 @@ e2 :> c2
OwnProfile      == e1 :> p1 @@ e2 :> p2
OwnWorkers      == w1 :> p1 @@ w2 :> p2

(* No action or property tells topics apart but by their identity.         *)
TopicSymmetry   == Permutations(Topic)
=============================================================================
