------------------------ MODULE MCRefreshAdmission --------------------------
(* Instances of RefreshAdmission for TLC.  Drifting: two window ids for    *)
(* one rate window; Stable: one id for each.                               *)
EXTENDS RefreshAdmission, TLC

CONSTANTS j1, j2, j3, w1, w2

Drifting == (w1 :> 1) @@ (w2 :> 1)
Stable   == (w1 :> 1) @@ (w2 :> 2)
Single   == w1 :> 1
AnyJob   == Permutations({j1, j2})
AnyOfThree == Permutations({j1, j2, j3})
=============================================================================
