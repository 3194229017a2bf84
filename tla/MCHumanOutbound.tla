--------------------------- MODULE MCHumanOutbound ---------------------------
(* Instances of HumanOutbound for TLC.                                     *)
EXTENDS HumanOutbound, TLC

CONSTANTS r1, r2

Alike == Permutations({r1, r2})
=============================================================================
