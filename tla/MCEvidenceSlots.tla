-------------------------- MODULE MCEvidenceSlots --------------------------
(* Instances of EvidenceSlots for TLC. *)
EXTENDS EvidenceSlots, TLC

CONSTANTS b1, b2, k1, k2, k3

NoneOrThree == {<<>>, <<k1, k2, k3>>}
Two         == {<<k1, k2>>}
=============================================================================
