--------------------------- MODULE MCSessionTail ---------------------------
(* Instances of SessionTail for TLC.                                       *)
EXTENDS SessionTail, TLC

CONSTANTS a, b, n, m
=============================================================================
