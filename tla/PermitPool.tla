----------------------------- MODULE PermitPool -----------------------------
(***************************************************************************)
(* What a pool of leased permits promises, without saying how: never more  *)
(* than Cap permits are out, and a permit whose lease is live leaves the   *)
(* pool only because it is returned.                                       *)
(***************************************************************************)
EXTENDS Naturals, FiniteSets

CONSTANTS Job, Cap

VARIABLES
  granted,  (* the jobs that have a permit                                 *)
  live      (* those whose lease no worker can take for expired            *)

poolVars == <<granted, live>>

PoolInit == granted = {} /\ live = {}

(* Lapsed permits are reclaimed only when another job asks for one. *)
Grant(j) ==
  \E lapsed \in SUBSET (granted \ live) :
    /\ j \in granted \ lapsed \/ Cardinality(granted \ lapsed) < Cap
    /\ granted' = (granted \ lapsed) \cup {j}
    /\ live'    = live \cup {j}

Refuse ==
  /\ granted' \in SUBSET granted
  /\ live \subseteq granted'
  /\ UNCHANGED live

Return(j) ==
  /\ granted' = granted \ {j}
  /\ live'    = live \ {j}

Extend(j) ==
  /\ j \in granted
  /\ live' = live \cup {j}
  /\ UNCHANGED granted

Expire ==
  /\ live' \in SUBSET live
  /\ UNCHANGED granted

PoolNext ==
  \/ \E j \in Job : Grant(j) \/ Return(j) \/ Extend(j)
  \/ Refuse \/ Expire

PoolSpec == PoolInit /\ [][PoolNext]_poolVars
=============================================================================
