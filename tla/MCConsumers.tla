---------------------------- MODULE MCConsumers ----------------------------
(* Instances of Consumers for TLC.                                         *)
EXTENDS Consumers, TLC

CONSTANTS a1, a2, u, shared, private, d1, p1, p2, c1, c2

Ranks  == shared :> 0 @@ private :> 1
Scopes == a1 :> shared @@ a2 :> shared @@ u :> private
Days   == [e \in Event |-> d1]
Order  == <<shared, private>>
=============================================================================
