---------------------------- MODULE MCMediaSpool ----------------------------
(* Instances of MediaSpool for TLC.                                        *)
EXTENDS MediaSpool, TLC

CONSTANTS e1, e2, r1, r2, j1

TwoSizes == e1 :> 1 @@ e2 :> 2
=============================================================================
