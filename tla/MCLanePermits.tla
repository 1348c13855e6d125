--------------------------- MODULE MCLanePermits ---------------------------
(* Instances of LanePermits for TLC: three jobs with one execution each,   *)
(* and two jobs of which the first is executed twice.                      *)
EXTENDS LanePermits, TLC

CONSTANTS j1, j2, j3, e1, e2, e3, t1, t2, t3, t4

OnePerJob == (e1 :> j1) @@ (e2 :> j2) @@ (e3 :> j3)
AnyToken  == Permutations({t1, t2, t3, t4})
Repeated  == (e1 :> j1) @@ (e2 :> j1) @@ (e3 :> j2)
=============================================================================
