---------------------------- MODULE LanePermits ----------------------------
(***************************************************************************)
(* The refresh lane permits of the worker                                  *)
(* (apps/worker/src/orchestration/refresh-admission/lane-permits.ts): a    *)
(* counting semaphore kept in Redis by three Lua scripts, with one lease   *)
(* per permit and a heartbeat in every process that holds one.             *)
(*                                                                         *)
(* One lane is modelled; CALIBRATION and OPERATION use disjoint keys.  An  *)
(* execution is one run of the refresh processor on an ingestion job; two  *)
(* executions may work on one job (a redelivered queue message).           *)
(*                                                                         *)
(* Time is a countdown: lease[j] is the number of ticks before the lease   *)
(* of j expires, 0 once it has.  Each worker passes its own clock to Redis, *)
(* so a worker may take a lease for expired up to Skew ticks early.        *)
(***************************************************************************)
EXTENDS Integers, FiniteSets

CONSTANTS
  Job,         (* ingestion job ids                                        *)
  Exec,        (* executions of the refresh processor                      *)
  JobOf,       (* the job an execution works on                            *)
  Token,       (* ownership tokens (randomUUID)                            *)
  None,        (* no token                                                 *)
  Settings,    (* the lane limits an administrator may set                 *)
  HardMax,     (* REFRESH_LANE_WORKER_CLAIM_HARD_MAX                       *)
  Cap,         (* an upper bound on the clamped settings                   *)
  TTL,         (* REFRESH_LANE_LEASE_TTL_MS, in ticks                      *)
  RenewEvery,  (* REFRESH_LANE_RENEW_INTERVAL_MS, in ticks                 *)
  Skew,        (* largest difference between two workers' clocks, in ticks *)
  Timely       (* TRUE: no heartbeat fires later than it is due            *)

(* clampLimit *)
Clamp(l) == IF l < 1 THEN 1 ELSE IF l > HardMax THEN HardMax ELSE l

ASSUME ConstantsAssumption ==
  /\ IsFiniteSet(Job) /\ IsFiniteSet(Exec)
  /\ JobOf \in [Exec -> Job]
  /\ None \notin Token
  /\ Settings \subseteq Int
  /\ Cap \in Nat /\ \A l \in Settings : Clamp(l) <= Cap
  /\ HardMax \in Nat \ {0} /\ TTL \in Nat \ {0}
  /\ RenewEvery \in Nat \ {0} /\ Skew \in Nat
  /\ Timely \in BOOLEAN

VARIABLES
  owners,   (* Redis hash: the token that owns a job's permit, or None     *)
  lease,    (* Redis sorted set: ticks left, NoLease when not a member     *)
  count,    (* Redis counter of permits                                    *)
  setting,  (* the lane limit in the runtime settings                      *)
  pc,       (* where an execution is                                       *)
  seen,     (* the limit an execution read before it asks for a permit     *)
  tok,      (* laneOwnershipToken of an execution                          *)
  beat      (* ticks before the next renewal of an execution is due        *)

redisVars == <<owners, lease, count>>
execVars  == <<pc, seen, tok, beat>>
vars      == <<owners, lease, count, setting, pc, seen, tok, beat>>

NoLease == -1

(* The guarded decrement of the scripts: the counter stops at zero. *)
Less(c, n) == IF c > n THEN c - n ELSE 0

Owned    == {j \in Job : owners[j] # None}
Holds(e) == pc[e] = "running"            \* heartbeat on, no loss noticed
PermitOf(e) == /\ tok[e] # None
               /\ owners[JobOf[e]] = tok[e]

Init ==
  /\ owners = [j \in Job |-> None]
  /\ lease  = [j \in Job |-> NoLease]
  /\ count  = 0
  /\ setting \in Settings
  /\ pc     = [e \in Exec |-> "idle"]
  /\ seen   = [e \in Exec |-> 1]
  /\ tok    = [e \in Exec |-> None]
  /\ beat   = [e \in Exec |-> 0]

----------------------------------------------------------------------------
(* The lane limit is read from the settings table, then used in a later    *)
(* Redis call: an administrator may change it in between.                  *)
SetLimit(l) ==
  /\ l # setting
  /\ setting' = l
  /\ UNCHANGED <<redisVars, execVars>>

ReadLimit(e) ==
  /\ pc[e] = "idle"
  /\ pc'   = [pc EXCEPT ![e] = "ready"]
  /\ seen' = [seen EXCEPT ![e] = Clamp(setting)]
  /\ UNCHANGED <<redisVars, setting, tok, beat>>

(* The first loop of ACQUIRE_LUA, run by a worker whose clock is s ahead.  *)
Expired(s)     == {j \in Job : lease[j] # NoLease /\ lease[j] <= s}
OwnersAfter(s) == [j \in Job |-> IF j \in Expired(s) THEN None ELSE owners[j]]
LeaseAfter(s)  == [j \in Job |-> IF j \in Expired(s) THEN NoLease ELSE lease[j]]
CountUnreaped(s) == count                     \* mutant: no DECR when reaping
CountAfter(s)  == Less(count, Cardinality(Expired(s) \cap Owned))
HasRoomInclusive(e, s) == CountAfter(s) <= seen[e]      \* mutant
HasRoom(e, s)  == CountAfter(s) < seen[e]

(* The worker got the reply: it holds token t and starts its heartbeat.    *)
Obtain(e, t) ==
  /\ pc'   = [pc EXCEPT ![e] = "running"]
  /\ tok'  = [tok EXCEPT ![e] = t]
  /\ beat' = [beat EXCEPT ![e] = RenewEvery]

(* The reply was lost: the job fails without knowing that it owns a permit. *)
Unaware(e) ==
  /\ pc' = [pc EXCEPT ![e] = "idle"]
  /\ UNCHANGED <<tok, beat>>

(* A second execution of a job that owns a permit gets the same token. *)
AcquireExisting(e, s) ==
  LET j == JobOf[e] IN
  /\ pc[e] = "ready"
  /\ OwnersAfter(s)[j] # None
  /\ owners' = OwnersAfter(s)
  /\ lease'  = [LeaseAfter(s) EXCEPT ![j] = TTL]
  /\ count'  = CountAfter(s)
  /\ Obtain(e, owners[j]) \/ Unaware(e)
  /\ UNCHANGED <<setting, seen>>

AcquireDenied(e, s) ==
  /\ pc[e] = "ready"
  /\ OwnersAfter(s)[JobOf[e]] = None
  /\ ~HasRoom(e, s)
  /\ owners' = OwnersAfter(s)
  /\ lease'  = LeaseAfter(s)
  /\ count'  = CountAfter(s)
  /\ pc'     = [pc EXCEPT ![e] = "denied"]
  /\ UNCHANGED <<setting, seen, tok, beat>>

(* t is fresh: no script and no execution knows it. *)
AcquireNew(e, s, t) ==
  LET j == JobOf[e] IN
  /\ pc[e] = "ready"
  /\ \A k \in Job : owners[k] # t
  /\ \A x \in Exec : tok[x] # t
  /\ OwnersAfter(s)[j] = None
  /\ HasRoom(e, s)
  /\ owners' = [OwnersAfter(s) EXCEPT ![j] = t]
  /\ lease'  = [LeaseAfter(s) EXCEPT ![j] = TTL]
  /\ count'  = CountAfter(s) + 1
  /\ Obtain(e, t) \/ Unaware(e)
  /\ UNCHANGED <<setting, seen>>

(* Mutants of Renew: it prolongs the lease from its old expiry; it does    *)
(* not write the lease.                                                    *)
RenewProlongs(e) ==
  /\ Holds(e) /\ beat[e] = 0 /\ PermitOf(e)
  /\ lease' = [lease EXCEPT ![JobOf[e]] = @ + TTL]
  /\ beat'  = [beat EXCEPT ![e] = RenewEvery]
  /\ UNCHANGED <<owners, count, setting, pc, seen, tok>>

RenewOnlyChecks(e) ==
  /\ Holds(e) /\ beat[e] = 0
  /\ IF PermitOf(e)
     THEN beat' = [beat EXCEPT ![e] = RenewEvery] /\ UNCHANGED pc
     ELSE pc' = [pc EXCEPT ![e] = "lost"] /\ UNCHANGED beat
  /\ UNCHANGED <<redisVars, setting, seen, tok>>

(* One tick of the heartbeat.  RENEW_LUA does not look at the expiry: a    *)
(* lease that ran out and was not reaped is revived.                       *)
Renew(e) ==
  /\ Holds(e) /\ beat[e] = 0
  /\ IF PermitOf(e)
     THEN /\ lease' = [lease EXCEPT ![JobOf[e]] = TTL]
          /\ beat'  = [beat EXCEPT ![e] = RenewEvery]
          /\ UNCHANGED pc
     ELSE /\ pc' = [pc EXCEPT ![e] = "lost"]
          /\ UNCHANGED <<lease, beat>>
  /\ UNCHANGED <<owners, count, setting, seen, tok>>

(* Redis failed during a renewal, before or after the script ran: the      *)
(* heartbeat reports the loss and stops.                                   *)
RenewError(e) ==
  /\ Holds(e) /\ beat[e] = 0
  /\ \/ UNCHANGED lease
     \/ PermitOf(e) /\ lease' = [lease EXCEPT ![JobOf[e]] = TTL]
  /\ pc' = [pc EXCEPT ![e] = "lost"]
  /\ UNCHANGED <<owners, count, setting, seen, tok, beat>>

(* The execution ends: it stops its heartbeat, then runs RELEASE_LUA with  *)
(* its token.                                                              *)
Finish(e) == [pc EXCEPT ![e] = "idle"]

ReleaseUncounted(e) ==                    \* mutant: no DECR
  /\ pc[e] \in {"running", "lost"} /\ PermitOf(e)
  /\ owners' = [owners EXCEPT ![JobOf[e]] = None]
  /\ lease'  = [lease EXCEPT ![JobOf[e]] = NoLease]
  /\ pc'     = Finish(e)
  /\ tok'    = [tok EXCEPT ![e] = None]
  /\ UNCHANGED <<count, setting, seen, beat>>

Release(e) ==
  LET j == JobOf[e] IN
  /\ pc[e] \in {"running", "lost"}
  /\ IF PermitOf(e)
     THEN /\ owners' = [owners EXCEPT ![j] = None]
          /\ lease'  = [lease EXCEPT ![j] = NoLease]
          /\ count'  = Less(count, 1)
     ELSE UNCHANGED redisVars
  /\ pc'  = Finish(e)
  /\ tok' = [tok EXCEPT ![e] = None]
  /\ UNCHANGED <<setting, seen, beat>>

(* The process dies, or the release fails and its error is swallowed. *)
Abandon(e) ==
  /\ pc[e] \in {"running", "lost"}
  /\ pc'  = Finish(e)
  /\ tok' = [tok EXCEPT ![e] = None]
  /\ UNCHANGED <<redisVars, setting, seen, beat>>

Retire(e) ==
  /\ pc[e] = "denied"
  /\ pc' = Finish(e)
  /\ UNCHANGED <<redisVars, setting, seen, tok, beat>>

Tick ==
  /\ Timely => \A e \in Exec : Holds(e) => beat[e] > 0
  /\ lease' = [j \in Job |-> IF lease[j] > 0 THEN lease[j] - 1 ELSE lease[j]]
  /\ beat'  = [e \in Exec |-> IF Holds(e) /\ beat[e] > 0 THEN beat[e] - 1 ELSE beat[e]]
  /\ UNCHANGED <<owners, count, setting, pc, seen, tok>>

Acquire(e) ==
  \E s \in 0..Skew : \/ AcquireExisting(e, s)
                     \/ AcquireDenied(e, s)
                     \/ \E t \in Token : AcquireNew(e, s, t)

Next ==
  \/ \E l \in Settings : SetLimit(l)
  \/ \E e \in Exec : \/ ReadLimit(e) \/ Acquire(e)
                     \/ Renew(e) \/ RenewError(e)
                     \/ Release(e) \/ Abandon(e) \/ Retire(e)
  \/ Tick

Spec == Init /\ [][Next]_vars

----------------------------------------------------------------------------
TypeOK ==
  /\ owners \in [Job -> Token \cup {None}]
  /\ lease \in [Job -> NoLease..TTL]
  /\ count \in Nat
  /\ setting \in Settings
  /\ pc \in [Exec -> {"idle", "ready", "denied", "running", "lost"}]
  /\ seen \in [Exec -> 1..HardMax]
  /\ tok \in [Exec -> Token \cup {None}]
  /\ beat \in [Exec -> 0..RenewEvery]

(* The counter that decides admission never drifts from the owners hash,   *)
(* and the sorted set lists exactly the owners: three keys that four       *)
(* scripts update separately stay one semaphore.                           *)
CounterAgreesWithOwners ==
  /\ count = Cardinality(Owned)
  /\ \A j \in Job : owners[j] # None <=> lease[j] # NoLease

(* No interleaving of settings reads, acquisitions and releases grants     *)
(* more permits than the largest limit a worker can have read.             *)
CountWithinCap == count <= Cap

(* With punctual heartbeats, and one execution per job, an execution that  *)
(* has not been told otherwise still owns its permit: no other worker's    *)
(* reaping, however skewed its clock, takes it away.                       *)
HolderKeepsPermit == \A e \in Exec : Holds(e) => PermitOf(e)

(* Hence the refreshes that really run side by side never outnumber the    *)
(* largest limit, although each relies on a lease it only hopes to hold.   *)
RunningWithinCap == Cardinality({e \in Exec : Holds(e)}) <= Cap

(* A denial is never caused by a dead permit or a drifted counter: at      *)
(* least as many other jobs as the limit own unexpired leases.             *)
DenialIsJustified ==
  [][\A e \in Exec : pc[e] = "ready" /\ pc'[e] = "denied" =>
       Cardinality({j \in Job \ {JobOf[e]} : owners'[j] # None /\ lease'[j] > 0})
         >= seen[e]]_vars

(* A release, a loss or a crash of one execution never takes away a permit *)
(* owned under a token it does not hold; only reaping an expired lease does. *)
OnlyOwnTokenReleased ==
  [][\A j \in Job : owners[j] # None /\ owners'[j] # owners[j] =>
       \/ lease[j] <= Skew
       \/ \E e \in Exec : tok[e] = owners[j] /\ pc'[e] = "idle"]_vars

(* The scripts implement a pool of leased permits. *)
Pool == INSTANCE PermitPool WITH granted <- Owned,
                                 live <- {j \in Owned : lease[j] > Skew}
PoolRefined == Pool!PoolSpec
=============================================================================
