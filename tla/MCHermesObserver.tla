-------------------------- MODULE MCHermesObserver --------------------------
(* Instances of HermesObserver for TLC: m is a message of a contact with   *)
(* two identities, g one of a group; k3 and k4 prove a delivery and a read *)
(* of r1, k5 one of r2.                                                    *)
EXTENDS HermesObserver

CONSTANTS d1, d2, m, g, k3, k4, k5, r1, r2, o1, o2, ca, cb, cg

ChatOf == [i \in Message |-> IF i = m THEN ca ELSE cg]
AltOf  == [i \in Message |-> IF i = m THEN cb ELSE cg]
RefOf  == [k \in Receipt |-> IF k = k5 THEN r2 ELSE r1]
LevelOf == [k \in Receipt |-> IF k = k3 THEN 3 ELSE IF k = k4 THEN 4 ELSE 5]
IdsOf  == [o \in Reply |-> IF o = o1 THEN {r1} ELSE {r2}]
=============================================================================
