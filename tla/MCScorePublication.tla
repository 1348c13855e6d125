------------------------- MODULE MCScorePublication -------------------------
(* Instances of ScorePublication for TLC.  Refreshes under one contract     *)
(* share a fingerprint; p3 belongs to another contract.                    *)
EXTENDS ScorePublication, TLC

CONSTANTS p1, p2, p3, p4, p5, skill, survival

Dimensions  == (skill :> "performance") @@ (survival :> "survival")
OneDimension == [m \in Metric |-> "performance"]
AnyPublisher == Permutations(Publisher)
OneContract == [p \in Publisher |-> 1]
TwoContracts == [p \in Publisher |-> IF p = p3 THEN 2 ELSE 1]
=============================================================================
