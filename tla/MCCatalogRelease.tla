-------------------------- MODULE MCCatalogRelease --------------------------
(* Instances of CatalogRelease for TLC. *)
EXTENDS CatalogRelease, TLC

CONSTANTS a1, a2, k1, d1, d2

(* All drafts are of one rule: a manual one, and one of a review item. *)
OneKey == [d \in Draft |-> k1]

AnyOrder == Permutations(Admin) \cup Permutations(Draft)
=============================================================================
