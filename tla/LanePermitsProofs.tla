------------------------- MODULE LanePermitsProofs -------------------------
(***************************************************************************)
(* Theorems about LanePermits, for any number of jobs, executions, tokens, *)
(* ticks and settings.                                                     *)
(***************************************************************************)
EXTENDS LanePermits, FiniteSetTheorems, TLAPS

USE DEF NoLease

(* Removing a set from a finite set lowers its size by the overlap. *)
LEMMA CardinalityDifference ==
  ASSUME NEW S, IsFiniteSet(S), NEW T
  PROVE  /\ IsFiniteSet(S \ T)
         /\ Cardinality(S \ T) = Cardinality(S) - Cardinality(S \cap T)
         /\ Cardinality(S \cap T) \in Nat
         /\ Cardinality(S) \in Nat
         /\ Cardinality(S \cap T) <= Cardinality(S)
<1>1. IsFiniteSet(S \ T) /\ IsFiniteSet(S \cap T) /\ Cardinality(S \cap T) <= Cardinality(S)
  <2>1. S \ T \in SUBSET S /\ S \cap T \in SUBSET S
    OBVIOUS
  <2> QED BY <2>1, FS_Subset
<1>2. /\ Cardinality(S \ T) \in Nat
      /\ Cardinality(S \cap T) \in Nat
      /\ Cardinality(S) \in Nat
  BY <1>1, FS_CardinalityType
<1>3. (S \ T) \cup (S \cap T) = S /\ (S \ T) \cap (S \cap T) = {}
  OBVIOUS
<1>4. Cardinality({}) = 0
  BY FS_EmptySet
<1>5. Cardinality((S \ T) \cup (S \cap T)) =
        Cardinality(S \ T) + Cardinality(S \cap T) - Cardinality((S \ T) \cap (S \cap T))
  BY <1>1, FS_Union
<1>6. Cardinality(S) = Cardinality(S \ T) + Cardinality(S \cap T) - Cardinality({})
  BY <1>3, <1>5, Zenon
<1>7. Cardinality(S \ T) = Cardinality(S) - Cardinality(S \cap T)
  BY <1>2, <1>4, <1>6
<1> QED BY <1>1, <1>2, <1>7

(* What the guarded decrement returns. *)
LEMMA LessFacts ==
  ASSUME NEW c \in Nat, NEW n \in Nat
  PROVE  /\ Less(c, n) \in Nat
         /\ Less(c, n) <= c
         /\ n <= c => Less(c, n) = c - n
BY DEF Less

(* Clamping a setting yields a limit the worker can use. *)
LEMMA ClampFacts ==
  ASSUME NEW l \in Settings
  PROVE  Clamp(l) \in 1..HardMax /\ Clamp(l) <= Cap
BY ConstantsAssumption DEF Clamp

(* Every value of OwnersAfter and LeaseAfter is of its type, whatever the  *)
(* clock of the worker that reaps.                                         *)
LEMMA ReapType ==
  ASSUME TypeOK, NEW s \in 0..Skew
  PROVE  /\ OwnersAfter(s) \in [Job -> Token \cup {None}]
         /\ LeaseAfter(s) \in [Job -> NoLease..TTL]
         /\ CountAfter(s) \in Nat
         /\ CountAfter(s) <= count
<1>1. OwnersAfter(s) \in [Job -> Token \cup {None}]
  BY DEF OwnersAfter, TypeOK
<1>2. LeaseAfter(s) \in [Job -> NoLease..TTL]
  BY ConstantsAssumption DEF LeaseAfter, TypeOK
<1>3. IsFiniteSet(Expired(s) \cap Owned)
  <2>1. Expired(s) \cap Owned \in SUBSET Job
    BY DEF Owned
  <2> QED BY <2>1, FS_Subset, ConstantsAssumption
<1>4. Cardinality(Expired(s) \cap Owned) \in Nat
  BY <1>3, FS_CardinalityType
<1> QED BY <1>1, <1>2, <1>4, LessFacts DEF CountAfter, TypeOK

(* TypeOK is inductive: every variable keeps the values the code gives it. *)
LEMMA TypeStep ==
  ASSUME TypeOK, [Next]_vars
  PROVE  TypeOK'
<1> USE ConstantsAssumption
<1>1. ASSUME NEW l \in Settings, SetLimit(l) PROVE TypeOK'
  BY <1>1 DEF TypeOK, SetLimit, redisVars, execVars
<1>2. ASSUME NEW e \in Exec, ReadLimit(e) PROVE TypeOK'
  BY <1>2, ClampFacts DEF TypeOK, ReadLimit, redisVars
<1>3. ASSUME NEW e \in Exec, NEW s \in 0..Skew, AcquireExisting(e, s) PROVE TypeOK'
  <2>1. owners' \in [Job -> Token \cup {None}] /\ lease' \in [Job -> NoLease..TTL]
    BY <1>3, ReapType DEF AcquireExisting
  <2>2. count' \in Nat
    BY <1>3, ReapType DEF AcquireExisting
  <2>3. /\ pc' \in [Exec -> {"idle", "ready", "denied", "running", "lost"}]
        /\ tok' \in [Exec -> Token \cup {None}]
        /\ beat' \in [Exec -> 0..RenewEvery]
    BY <1>3 DEF AcquireExisting, TypeOK, Obtain, Unaware
  <2> QED BY <1>3, <2>1, <2>2, <2>3 DEF AcquireExisting, TypeOK
<1>4. ASSUME NEW e \in Exec, NEW s \in 0..Skew, AcquireDenied(e, s) PROVE TypeOK'
  <2>1. /\ owners' \in [Job -> Token \cup {None}]
        /\ lease' \in [Job -> NoLease..TTL]
        /\ count' \in Nat
    BY <1>4, ReapType DEF AcquireDenied
  <2> QED BY <1>4, <2>1 DEF AcquireDenied, TypeOK
<1>5. ASSUME NEW e \in Exec, NEW s \in 0..Skew, NEW t \in Token, AcquireNew(e, s, t)
      PROVE TypeOK'
  <2>1. owners' \in [Job -> Token \cup {None}] /\ lease' \in [Job -> NoLease..TTL]
    BY <1>5, ReapType DEF AcquireNew
  <2>2. count' \in Nat
    BY <1>5, ReapType DEF AcquireNew
  <2>3. /\ pc' \in [Exec -> {"idle", "ready", "denied", "running", "lost"}]
        /\ tok' \in [Exec -> Token \cup {None}]
        /\ beat' \in [Exec -> 0..RenewEvery]
    BY <1>5 DEF AcquireNew, TypeOK, Obtain, Unaware
  <2> QED BY <1>5, <2>1, <2>2, <2>3 DEF AcquireNew, TypeOK
<1>6. ASSUME NEW e \in Exec, Renew(e) \/ RenewError(e) PROVE TypeOK'
  BY <1>6 DEF TypeOK, Renew, RenewError
<1>7. ASSUME NEW e \in Exec, Release(e) PROVE TypeOK'
  <2>1. Less(count, 1) \in Nat
    BY LessFacts DEF TypeOK
  <2> QED BY <1>7, <2>1 DEF TypeOK, Release, Finish, redisVars
<1>8. ASSUME NEW e \in Exec, Abandon(e) \/ Retire(e) PROVE TypeOK'
  BY <1>8 DEF TypeOK, Abandon, Retire, Finish, redisVars
<1>9. CASE Tick
  BY <1>9 DEF TypeOK, Tick
<1>10. CASE UNCHANGED vars
  BY <1>10 DEF TypeOK, vars
<1> QED
  BY <1>1, <1>2, <1>3, <1>4, <1>5, <1>6, <1>7, <1>8, <1>9, <1>10 DEF Next, Acquire

(* The state of lane-permits.ts is well formed in every reachable state. *)
THEOREM TypeCorrect == Spec => []TypeOK
<1>1. Init => TypeOK
  BY ConstantsAssumption DEF Init, TypeOK
<1>2. TypeOK /\ [Next]_vars => TypeOK'
  BY TypeStep
<1> QED BY <1>1, <1>2, PTL DEF Spec

----------------------------------------------------------------------------
(* Reaping keeps the three Redis keys in step: the owners that remain are  *)
(* those whose lease has not expired, and the counter is lowered by        *)
(* exactly the owners removed.                                             *)
LEMMA ReapAccounting ==
  ASSUME TypeOK, CounterAgreesWithOwners, NEW s \in 0..Skew
  PROVE  /\ CountAfter(s) = Cardinality({j \in Job : OwnersAfter(s)[j] # None})
         /\ IsFiniteSet({j \in Job : OwnersAfter(s)[j] # None})
         /\ \A j \in Job : OwnersAfter(s)[j] # None <=> LeaseAfter(s)[j] # NoLease
<1>1. IsFiniteSet(Owned)
  <2>1. Owned \in SUBSET Job
    BY DEF Owned
  <2> QED BY <2>1, FS_Subset, ConstantsAssumption
<1>2. {j \in Job : OwnersAfter(s)[j] # None} = Owned \ Expired(s)
  BY DEF OwnersAfter, Owned, Expired
<1>3. Expired(s) \cap Owned = Owned \cap Expired(s)
  OBVIOUS
<1>4. /\ IsFiniteSet(Owned \ Expired(s))
      /\ Cardinality(Owned \ Expired(s)) = Cardinality(Owned) - Cardinality(Owned \cap Expired(s))
      /\ Cardinality(Owned \cap Expired(s)) \in Nat
      /\ Cardinality(Owned \cap Expired(s)) <= Cardinality(Owned)
  BY <1>1, CardinalityDifference
<1>5. count = Cardinality(Owned) /\ count \in Nat
  BY DEF CounterAgreesWithOwners, TypeOK
<1>6. CountAfter(s) = count - Cardinality(Owned \cap Expired(s))
  BY <1>3, <1>4, <1>5, LessFacts DEF CountAfter
<1>7. CountAfter(s) = Cardinality(Owned \ Expired(s))
  BY <1>4, <1>5, <1>6
<1>8. \A j \in Job : OwnersAfter(s)[j] # None <=> LeaseAfter(s)[j] # NoLease
  BY DEF OwnersAfter, LeaseAfter, CounterAgreesWithOwners
<1> QED BY <1>2, <1>4, <1>7, <1>8

(* Setting one entry after the reaping keeps the hash and the sorted set   *)
(* in step.                                                                *)
LEMMA GrantKeepsStep ==
  ASSUME TypeOK, CounterAgreesWithOwners, NEW s \in 0..Skew, NEW j0 \in Job,
         lease' = [LeaseAfter(s) EXCEPT ![j0] = TTL],
         NEW t, t # None,
         owners' = [OwnersAfter(s) EXCEPT ![j0] = t]
  PROVE  \A j \in Job : owners'[j] # None <=> lease'[j] # NoLease
<1>1. TTL # NoLease
  BY ConstantsAssumption
<1>2. \A j \in Job : OwnersAfter(s)[j] # None <=> LeaseAfter(s)[j] # NoLease
  BY ReapAccounting
<1>3. \A j \in Job : owners'[j] = IF j = j0 THEN t ELSE OwnersAfter(s)[j]
  BY DEF OwnersAfter
<1>4. \A j \in Job : lease'[j] = IF j = j0 THEN TTL ELSE LeaseAfter(s)[j]
  BY DEF LeaseAfter
<1> HIDE DEF NoLease
<1> QED BY <1>1, <1>2, <1>3, <1>4

(* The counter, the hash and the sorted set stay in step. *)
LEMMA AccountingStep ==
  ASSUME TypeOK, CounterAgreesWithOwners, [Next]_vars
  PROVE  CounterAgreesWithOwners'
<1> USE ConstantsAssumption
<1> DEFINE Left(s) == {j \in Job : OwnersAfter(s)[j] # None}
<1>1. ASSUME NEW e \in Exec, NEW s \in 0..Skew, AcquireExisting(e, s)
      PROVE CounterAgreesWithOwners'
  <2>1. Owned' = Left(s) /\ count' = CountAfter(s)
    BY <1>1 DEF AcquireExisting, Owned
  <2>2. \A j \in Job : owners'[j] # None <=> lease'[j] # NoLease
    <3> DEFINE j0 == JobOf[e]
    <3>1. j0 \in Job /\ OwnersAfter(s)[j0] # None
      BY <1>1 DEF AcquireExisting
    <3>2. owners' = [OwnersAfter(s) EXCEPT ![j0] = OwnersAfter(s)[j0]]
      BY <1>1, ReapType DEF AcquireExisting
    <3>3. lease' = [LeaseAfter(s) EXCEPT ![j0] = TTL]
      BY <1>1 DEF AcquireExisting
    <3> QED BY <3>1, <3>2, <3>3, GrantKeepsStep
  <2>3. CountAfter(s) = Cardinality(Left(s))
    BY ReapAccounting
  <2> QED BY <2>1, <2>2, <2>3 DEF CounterAgreesWithOwners
<1>2. ASSUME NEW e \in Exec, NEW s \in 0..Skew, AcquireDenied(e, s)
      PROVE CounterAgreesWithOwners'
  <2>1. Owned' = Left(s) /\ count' = CountAfter(s)
    BY <1>2 DEF AcquireDenied, Owned
  <2>2. \A j \in Job : owners'[j] # None <=> lease'[j] # NoLease
    BY <1>2, ReapAccounting DEF AcquireDenied
  <2>3. CountAfter(s) = Cardinality(Left(s))
    BY ReapAccounting
  <2> QED BY <2>1, <2>2, <2>3 DEF CounterAgreesWithOwners
<1>3. ASSUME NEW e \in Exec, NEW s \in 0..Skew, NEW t \in Token, AcquireNew(e, s, t)
      PROVE CounterAgreesWithOwners'
  <2> DEFINE j0 == JobOf[e]
  <2>1. j0 \in Job /\ j0 \notin Left(s)
    BY <1>3 DEF AcquireNew
  <2>2. Owned' = Left(s) \cup {j0}
    BY <1>3, <2>1, ReapType DEF AcquireNew, Owned
  <2>3. /\ CountAfter(s) = Cardinality(Left(s))
        /\ IsFiniteSet(Left(s))
    BY ReapAccounting
  <2>4. Cardinality(Left(s) \cup {j0}) = Cardinality(Left(s)) + 1
    BY <2>1, <2>3, FS_AddElement
  <2>5. count' = CountAfter(s) + 1
    BY <1>3 DEF AcquireNew
  <2>6. \A j \in Job : owners'[j] # None <=> lease'[j] # NoLease
    <3>1. t # None
      OBVIOUS
    <3>2. owners' = [OwnersAfter(s) EXCEPT ![j0] = t]
      BY <1>3 DEF AcquireNew
    <3>3. lease' = [LeaseAfter(s) EXCEPT ![j0] = TTL]
      BY <1>3 DEF AcquireNew
    <3> QED BY <2>1, <3>1, <3>2, <3>3, GrantKeepsStep
  <2> QED BY <2>2, <2>3, <2>4, <2>5, <2>6 DEF CounterAgreesWithOwners
<1>4. ASSUME NEW e \in Exec, Renew(e) \/ RenewError(e)
      PROVE CounterAgreesWithOwners'
  <2>1. owners' = owners /\ count' = count /\ Owned' = Owned
    BY <1>4 DEF Renew, RenewError, Owned
  <2>2. lease' = lease \/ (PermitOf(e) /\ lease' = [lease EXCEPT ![JobOf[e]] = TTL])
    BY <1>4 DEF Renew, RenewError
  <2>3. \A j \in Job : owners'[j] # None <=> lease'[j] # NoLease
    BY <2>1, <2>2 DEF CounterAgreesWithOwners, PermitOf, TypeOK
  <2> QED BY <2>1, <2>3 DEF CounterAgreesWithOwners
<1>5. ASSUME NEW e \in Exec, Release(e) PROVE CounterAgreesWithOwners'
  <2>1. CASE PermitOf(e)
    <3> DEFINE j0 == JobOf[e]
    <3>1. j0 \in Owned /\ Owned' = Owned \ {j0}
      BY <1>5, <2>1 DEF Release, PermitOf, Owned, TypeOK
    <3>2. IsFiniteSet(Owned)
      <4>1. Owned \in SUBSET Job
        BY DEF Owned
      <4> QED BY <4>1, FS_Subset
    <3>3. /\ Cardinality(Owned \ {j0}) = Cardinality(Owned) - 1
          /\ Cardinality(Owned) \in Nat
          /\ Cardinality(Owned \ {j0}) \in Nat
      <4>1. Cardinality(Owned \ {j0}) = Cardinality(Owned) - 1 /\ IsFiniteSet(Owned \ {j0})
        BY <3>1, <3>2, FS_RemoveElement
      <4> QED BY <3>2, <4>1, FS_CardinalityType
    <3>4. count' = Less(count, 1) /\ count = Cardinality(Owned)
      BY <1>5, <2>1 DEF Release, CounterAgreesWithOwners
    <3>5. count' = Cardinality(Owned')
      BY <3>1, <3>3, <3>4 DEF Less
    <3>6. \A j \in Job : owners'[j] # None <=> lease'[j] # NoLease
      BY <1>5, <2>1 DEF Release, CounterAgreesWithOwners, TypeOK
    <3> QED BY <3>5, <3>6 DEF CounterAgreesWithOwners
  <2>2. CASE ~PermitOf(e)
    BY <1>5, <2>2 DEF Release, CounterAgreesWithOwners, Owned, redisVars
  <2> QED BY <2>1, <2>2
<1>6. CASE Tick
  <2>1. owners' = owners /\ count' = count /\ Owned' = Owned
    BY <1>6 DEF Tick, Owned
  <2>2. \A j \in Job : lease'[j] = NoLease <=> lease[j] = NoLease
    BY <1>6 DEF Tick, TypeOK
  <2> QED BY <2>1, <2>2 DEF CounterAgreesWithOwners
<1>7. CASE \/ UNCHANGED vars
           \/ \E l \in Settings : SetLimit(l)
           \/ \E e \in Exec : ReadLimit(e) \/ Abandon(e) \/ Retire(e)
  <2>1. UNCHANGED redisVars
    BY <1>7 DEF vars, redisVars, SetLimit, ReadLimit, Abandon, Retire
  <2> QED BY <2>1 DEF redisVars, CounterAgreesWithOwners, Owned
<1> QED
  BY <1>1, <1>2, <1>3, <1>4, <1>5, <1>6, <1>7 DEF Next, Acquire

(* Four scripts that update three keys keep one semaphore: the counter     *)
(* never drifts from the owners, in any interleaving and with any losses.  *)
THEOREM CounterNeverDrifts == Spec => []CounterAgreesWithOwners
<1>1. Init => CounterAgreesWithOwners
  <2> SUFFICES ASSUME Init PROVE CounterAgreesWithOwners
    OBVIOUS
  <2>1. Owned = {}
    BY DEF Init, Owned
  <2> QED BY <2>1, FS_EmptySet DEF Init, CounterAgreesWithOwners
<1>2. TypeOK /\ CounterAgreesWithOwners /\ [Next]_vars => CounterAgreesWithOwners'
  BY AccountingStep
<1> QED BY <1>1, <1>2, TypeCorrect, PTL DEF Spec

(* The limit an execution has read, and so the counter, never exceeds Cap. *)
WithinCap == CountWithinCap /\ \A e \in Exec : seen[e] <= Cap

LEMMA WithinCapStep ==
  ASSUME TypeOK, WithinCap, [Next]_vars
  PROVE  WithinCap'
<1> USE ConstantsAssumption
<1>1. ASSUME NEW e \in Exec, ReadLimit(e) PROVE WithinCap'
  BY <1>1, ClampFacts DEF ReadLimit, WithinCap, CountWithinCap, TypeOK, redisVars
<1>2. ASSUME NEW e \in Exec, NEW s \in 0..Skew,
             \/ AcquireExisting(e, s) \/ AcquireDenied(e, s)
             \/ \E t \in Token : AcquireNew(e, s, t)
      PROVE WithinCap'
  <2>1. CountAfter(s) \in Nat /\ CountAfter(s) <= count /\ count \in Nat
    BY ReapType DEF TypeOK
  <2>2. seen' = seen /\ seen[e] \in Nat /\ seen[e] <= Cap
    BY <1>2 DEF AcquireExisting, AcquireDenied, AcquireNew, TypeOK, WithinCap
  <2>3. count' = CountAfter(s) \/ (count' = CountAfter(s) + 1 /\ CountAfter(s) < seen[e])
    BY <1>2 DEF AcquireExisting, AcquireDenied, AcquireNew, HasRoom
  <2> QED BY <2>1, <2>2, <2>3 DEF WithinCap, CountWithinCap
<1>3. ASSUME NEW e \in Exec, Release(e) PROVE WithinCap'
  <2>1. Less(count, 1) <= count /\ Less(count, 1) \in Nat /\ count \in Nat
    BY LessFacts DEF TypeOK
  <2> QED BY <1>3, <2>1 DEF Release, WithinCap, CountWithinCap, redisVars
<1>4. CASE \/ UNCHANGED vars \/ Tick
           \/ \E l \in Settings : SetLimit(l)
           \/ \E e \in Exec : Renew(e) \/ RenewError(e) \/ Abandon(e) \/ Retire(e)
  <2>1. UNCHANGED <<count, seen>>
    BY <1>4 DEF vars, redisVars, execVars, Tick, SetLimit, Renew, RenewError, Abandon, Retire
  <2> QED BY <2>1 DEF WithinCap, CountWithinCap
<1> QED
  BY <1>1, <1>2, <1>3, <1>4 DEF Next, Acquire

(* A lane never has more permits out than the largest limit an             *)
(* administrator may set, whatever a worker read before the last change.   *)
THEOREM PermitsWithinCap == Spec => []CountWithinCap
<1>1. Init => WithinCap
  BY ConstantsAssumption, ClampFacts DEF Init, WithinCap, CountWithinCap
<1>2. TypeOK /\ WithinCap /\ [Next]_vars => WithinCap'
  BY WithinCapStep
<1>3. WithinCap => CountWithinCap
  BY DEF WithinCap
<1> QED BY <1>1, <1>2, <1>3, TypeCorrect, PTL DEF Spec

----------------------------------------------------------------------------
(* Under punctual heartbeats the lease of a holder is at least as long as  *)
(* the time until its next renewal plus the slack TTL - RenewEvery, which  *)
(* no worker's clock error reaches.                                        *)
OneExecPerJob  == \A x, y \in Exec : JobOf[x] = JobOf[y] => x = y
Punctual       == Timely /\ TTL > RenewEvery + Skew
LeaseCovers(e) == PermitOf(e) /\ lease[JobOf[e]] >= TTL - RenewEvery + beat[e]
HolderInv      == \A e \in Exec : Holds(e) => LeaseCovers(e)

(* Reaping leaves every holder's permit alone. *)
LEMMA ReapSparesHolders ==
  ASSUME TypeOK, HolderInv, Punctual, NEW s \in 0..Skew,
         NEW x \in Exec, Holds(x)
  PROVE  /\ OwnersAfter(s)[JobOf[x]] = owners[JobOf[x]]
         /\ LeaseAfter(s)[JobOf[x]] = lease[JobOf[x]]
<1>1. JobOf[x] \in Job /\ beat[x] \in 0..RenewEvery /\ lease[JobOf[x]] \in NoLease..TTL
  BY ConstantsAssumption DEF TypeOK
<1>2. lease[JobOf[x]] >= TTL - RenewEvery + beat[x]
  BY DEF HolderInv, LeaseCovers
<1>3. lease[JobOf[x]] > s
  BY <1>1, <1>2, ConstantsAssumption DEF Punctual
<1>4. JobOf[x] \notin Expired(s)
  BY <1>1, <1>3, ConstantsAssumption DEF Expired
<1> QED BY <1>1, <1>4 DEF OwnersAfter, LeaseAfter

(* A step that leaves an execution's own variables and its job's Redis     *)
(* entries alone keeps its lease covered.                                  *)
LEMMA Untouched ==
  ASSUME TypeOK, HolderInv, NEW x \in Exec, Holds(x)',
         pc'[x] = pc[x], tok'[x] = tok[x], beat'[x] = beat[x],
         owners'[JobOf[x]] = owners[JobOf[x]], lease'[JobOf[x]] = lease[JobOf[x]]
  PROVE  LeaseCovers(x)'
BY DEF HolderInv, LeaseCovers, PermitOf, Holds

LEMMA HolderStep ==
  ASSUME TypeOK, HolderInv, Punctual, OneExecPerJob, [Next]_vars
  PROVE  HolderInv'
<1> SUFFICES ASSUME NEW x \in Exec, Holds(x)' PROVE LeaseCovers(x)'
  BY DEF HolderInv
<1> DEFINE jx == JobOf[x]
<1>0. jx \in Job
  BY ConstantsAssumption
<1>1. ASSUME NEW e \in Exec, NEW s \in 0..Skew,
             \/ AcquireExisting(e, s) \/ AcquireDenied(e, s)
             \/ \E t \in Token : AcquireNew(e, s, t)
      PROVE LeaseCovers(x)'
  <2>0. JobOf[e] \in Job
    BY ConstantsAssumption
  <2>1. CASE x # e
    <3>1. pc'[x] = pc[x] /\ tok'[x] = tok[x] /\ beat'[x] = beat[x]
      BY <1>1, <2>1 DEF AcquireExisting, AcquireDenied, AcquireNew, Obtain, Unaware, TypeOK
    <3>2. Holds(x) /\ jx # JobOf[e]
      BY <2>1, <3>1 DEF Holds, OneExecPerJob
    <3>3. owners'[jx] = OwnersAfter(s)[jx] /\ lease'[jx] = LeaseAfter(s)[jx]
      BY <1>0, <1>1, <2>0, <3>2, ReapType DEF AcquireExisting, AcquireDenied, AcquireNew
    <3>4. owners'[jx] = owners[jx] /\ lease'[jx] = lease[jx]
      BY <3>2, <3>3, ReapSparesHolders
    <3> QED BY <3>1, <3>4, Untouched
  <2>2. CASE x = e
    <3>1. pc'[x] = "running"
      BY DEF Holds
    <3>2. ~AcquireDenied(e, s)
      BY <2>2, <3>1 DEF AcquireDenied, TypeOK
    <3>3. PICK t \in Token : Obtain(e, t) /\ owners'[jx] = t
      <4>1. CASE AcquireExisting(e, s)
        <5>1. owners[jx] = OwnersAfter(s)[jx] /\ owners[jx] \in Token
          BY <1>0, <2>2, <4>1 DEF AcquireExisting, OwnersAfter, TypeOK
        <5>2. Obtain(e, owners[jx])
          BY <2>2, <3>1, <4>1 DEF AcquireExisting, Unaware, TypeOK
        <5> QED BY <2>2, <4>1, <5>1, <5>2 DEF AcquireExisting
      <4>2. CASE \E t \in Token : AcquireNew(e, s, t)
        <5>1. PICK t \in Token : AcquireNew(e, s, t)
          BY <4>2
        <5>2. owners'[jx] = t
          BY <1>0, <2>2, <5>1, ReapType DEF AcquireNew
        <5>3. Obtain(e, t)
          BY <2>2, <3>1, <5>1 DEF AcquireNew, Unaware, TypeOK
        <5> QED BY <5>2, <5>3
      <4> QED BY <1>1, <3>2, <4>1, <4>2
    <3>4. lease'[jx] = TTL
      BY <1>0, <1>1, <2>2, <3>2, ReapType DEF AcquireExisting, AcquireNew
    <3>5. beat'[x] = RenewEvery /\ tok'[x] = t
      BY <2>2, <3>3 DEF Obtain, TypeOK
    <3>6. t # None
      BY ConstantsAssumption
    <3> QED BY <3>3, <3>4, <3>5, <3>6, ConstantsAssumption DEF LeaseCovers, PermitOf
  <2> QED BY <2>1, <2>2
<1>2. ASSUME NEW e \in Exec, Renew(e) \/ RenewError(e) PROVE LeaseCovers(x)'
  <2>0. JobOf[e] \in Job
    BY ConstantsAssumption
  <2>1. CASE x # e
    <3>1. pc'[x] = pc[x] /\ tok'[x] = tok[x] /\ beat'[x] = beat[x]
      BY <1>2, <2>1 DEF Renew, RenewError, TypeOK
    <3>2. Holds(x) /\ jx # JobOf[e]
      BY <2>1, <3>1 DEF Holds, OneExecPerJob
    <3>3. owners'[jx] = owners[jx] /\ lease'[jx] = lease[jx]
      BY <1>0, <1>2, <2>0, <3>2 DEF Renew, RenewError, TypeOK
    <3> QED BY <3>1, <3>3, Untouched
  <2>2. CASE x = e
    <3>1. pc'[x] = "running"
      BY DEF Holds
    <3>2. Renew(e) /\ PermitOf(e)
      BY <1>2, <2>2, <3>1 DEF Renew, RenewError, TypeOK
    <3>3. /\ lease'[jx] = TTL /\ beat'[x] = RenewEvery
          /\ owners'[jx] = owners[jx] /\ tok'[x] = tok[x]
      BY <1>0, <2>2, <3>2 DEF Renew, TypeOK
    <3> QED BY <2>2, <3>2, <3>3, ConstantsAssumption DEF LeaseCovers, PermitOf
  <2> QED BY <2>1, <2>2
<1>3. ASSUME NEW e \in Exec, Release(e) \/ Abandon(e) \/ Retire(e) PROVE LeaseCovers(x)'
  <2>0. JobOf[e] \in Job
    BY ConstantsAssumption
  <2>1. x # e
    BY <1>3 DEF Holds, Release, Abandon, Retire, Finish, TypeOK
  <2>2. pc'[x] = pc[x] /\ tok'[x] = tok[x] /\ beat'[x] = beat[x]
    BY <1>3, <2>1 DEF Release, Abandon, Retire, Finish, TypeOK
  <2>3. jx # JobOf[e]
    BY <2>1 DEF OneExecPerJob
  <2>4. owners'[jx] = owners[jx] /\ lease'[jx] = lease[jx]
    BY <1>0, <1>3, <2>0, <2>3 DEF Release, Abandon, Retire, TypeOK, redisVars
  <2> QED BY <2>2, <2>4, Untouched
<1>4. CASE Tick
  <2>1. Holds(x) /\ pc' = pc /\ tok' = tok /\ owners' = owners
    BY <1>4 DEF Tick, Holds
  <2>2. LeaseCovers(x) /\ beat[x] > 0 /\ beat'[x] = beat[x] - 1
    BY <1>4, <2>1 DEF Tick, HolderInv, Punctual, TypeOK
  <2>3. /\ lease[jx] \in NoLease..TTL /\ beat[x] \in 0..RenewEvery
        /\ lease'[jx] = IF lease[jx] > 0 THEN lease[jx] - 1 ELSE lease[jx]
    BY <1>0, <1>4 DEF Tick, TypeOK
  <2>4. lease[jx] >= TTL - RenewEvery + beat[x]
    BY <2>2 DEF LeaseCovers
  <2>5. TTL > RenewEvery + Skew /\ TTL \in Nat /\ RenewEvery \in Nat /\ Skew \in Nat
    BY ConstantsAssumption DEF Punctual
  <2>6. lease'[jx] >= TTL - RenewEvery + beat'[x]
    BY <2>2, <2>3, <2>4, <2>5
  <2>7. PermitOf(x)'
    BY <2>1, <2>2 DEF LeaseCovers, PermitOf
  <2> QED BY <2>6, <2>7 DEF LeaseCovers
<1>5. CASE \/ UNCHANGED vars
           \/ \E l \in Settings : SetLimit(l)
           \/ \E e \in Exec : ReadLimit(e)
  <2>1. UNCHANGED <<owners, lease, tok, beat>> /\ pc'[x] = pc[x]
    <3>1. UNCHANGED <<owners, lease, tok, beat>>
      BY <1>5 DEF vars, SetLimit, ReadLimit, redisVars, execVars
    <3>2. pc'[x] = pc[x]
      BY <1>5 DEF vars, SetLimit, ReadLimit, execVars, Holds, TypeOK
    <3> QED BY <3>1, <3>2
  <2> QED BY <2>1, Untouched
<1> QED
  BY <1>1, <1>2, <1>3, <1>4, <1>5 DEF Next, Acquire

(* Given punctual heartbeats, leases longer than a renewal period plus the *)
(* clock error, and no two executions of one job, an execution that has    *)
(* not been told otherwise owns its permit.                                *)
THEOREM HoldersKeepPermits ==
  ASSUME Punctual, OneExecPerJob
  PROVE  Spec => []HolderKeepsPermit
<1>1. Init => HolderInv
  BY DEF Init, HolderInv, Holds
<1>2. TypeOK /\ HolderInv /\ [Next]_vars => HolderInv'
  BY HolderStep
<1>3. HolderInv => HolderKeepsPermit
  BY DEF HolderInv, HolderKeepsPermit, LeaseCovers
<1> QED BY <1>1, <1>2, <1>3, TypeCorrect, PTL DEF Spec

(* Holders map one to one to owned permits, so the refreshes that run side *)
(* by side are bounded by the largest limit.                               *)
THEOREM RunningBounded ==
  ASSUME Punctual, OneExecPerJob
  PROVE  Spec => []RunningWithinCap
<1> DEFINE Running == {e \in Exec : Holds(e)}
<1>1. TypeOK /\ CounterAgreesWithOwners /\ CountWithinCap /\ HolderKeepsPermit
        => RunningWithinCap
  <2> SUFFICES ASSUME TypeOK, CounterAgreesWithOwners, CountWithinCap, HolderKeepsPermit
               PROVE  Cardinality(Running) <= Cap
    BY DEF RunningWithinCap
  <2> DEFINE f == [e \in Running |-> JobOf[e]]
  <2>1. \A e \in Running : JobOf[e] \in Owned
    BY ConstantsAssumption DEF HolderKeepsPermit, PermitOf, Owned
  <2>2. f \in Injection(Running, Owned)
    BY <2>1 DEF Injection, IsInjective, OneExecPerJob
  <2>3. IsFiniteSet(Owned)
    <3>1. Owned \in SUBSET Job
      BY DEF Owned
    <3> QED BY <3>1, FS_Subset, ConstantsAssumption
  <2>4. IsFiniteSet(Running) /\ Cardinality(Running) <= Cardinality(Owned)
    BY <2>2, <2>3, FS_Injection
  <2>5. Cardinality(Running) \in Nat /\ Cardinality(Owned) <= Cap
    BY <2>4, FS_CardinalityType DEF CounterAgreesWithOwners, CountWithinCap
  <2>6. Cardinality(Owned) \in Nat
    BY <2>3, FS_CardinalityType
  <2> QED BY <2>4, <2>5, <2>6, ConstantsAssumption
<1> QED
  BY <1>1, TypeCorrect, CounterNeverDrifts, PermitsWithinCap, HoldersKeepPermits, PTL

----------------------------------------------------------------------------
(* What a step may never do. *)
LEMMA Losses ==
  ASSUME TypeOK, [Next]_vars, NEW j \in Job, owners[j] # None, owners'[j] # owners[j]
  PROVE  \/ lease[j] <= Skew
         \/ \E e \in Exec : tok[e] = owners[j] /\ pc'[e] = "idle"
<1>0. \A e \in Exec : JobOf[e] \in Job
  BY ConstantsAssumption
<1>1. ASSUME NEW e \in Exec, NEW s \in 0..Skew,
             \/ AcquireExisting(e, s) \/ AcquireDenied(e, s)
             \/ \E t \in Token : AcquireNew(e, s, t)
      PROVE  lease[j] <= Skew
  <2>1. j \in Expired(s)
    <3>1. owners'[j] = OwnersAfter(s)[j] \/ OwnersAfter(s)[j] = None
      BY <1>0, <1>1, ReapType DEF AcquireExisting, AcquireDenied, AcquireNew
    <3> QED BY <3>1 DEF OwnersAfter
  <2>2. lease[j] \in NoLease..TTL /\ lease[j] <= s
    BY <2>1 DEF Expired, TypeOK
  <2> QED BY <2>2, ConstantsAssumption
<1>2. ASSUME NEW e \in Exec, Release(e)
      PROVE  tok[e] = owners[j] /\ pc'[e] = "idle"
  <2>1. PermitOf(e) /\ JobOf[e] = j
    BY <1>0, <1>2 DEF Release, redisVars, TypeOK
  <2>2. pc'[e] = "idle"
    BY <1>2 DEF Release, Finish, TypeOK
  <2> QED BY <2>1, <2>2 DEF PermitOf
<1>3. CASE \/ Tick \/ UNCHANGED vars
           \/ \E l \in Settings : SetLimit(l)
           \/ \E e \in Exec : \/ ReadLimit(e) \/ Renew(e) \/ RenewError(e)
                             \/ Abandon(e) \/ Retire(e)
  BY <1>3 DEF Tick, vars, SetLimit, ReadLimit, Renew, RenewError, Abandon, Retire, redisVars
<1> QED BY <1>1, <1>2, <1>3 DEF Next, Acquire

(* A permit is only lost to its own token, or after its lease: whatever    *)
(* the clocks, and however many executions share a job.                    *)
THEOREM PermitsAreOnesOwn == Spec => OnlyOwnTokenReleased
<1>1. TypeOK /\ [Next]_vars =>
        [\A j \in Job : owners[j] # None /\ owners'[j] # owners[j] =>
           \/ lease[j] <= Skew
           \/ \E e \in Exec : tok[e] = owners[j] /\ pc'[e] = "idle"]_vars
  BY Losses
<1> QED BY <1>1, TypeCorrect, PTL DEF Spec, OnlyOwnTokenReleased

LEMMA Denials ==
  ASSUME TypeOK, CounterAgreesWithOwners, [Next]_vars,
         NEW e \in Exec, pc[e] = "ready", pc'[e] = "denied"
  PROVE  Cardinality({j \in Job \ {JobOf[e]} : owners'[j] # None /\ lease'[j] > 0}) >= seen[e]
<1>0. pc \in [Exec -> {"idle", "ready", "denied", "running", "lost"}]
  BY DEF TypeOK
<1>1. PICK s \in 0..Skew : AcquireDenied(e, s)
  <2>1. ASSUME NEW x \in Exec,
               \/ \E s \in 0..Skew : \/ AcquireExisting(x, s)
                                     \/ \E t \in Token : AcquireNew(x, s, t)
        PROVE  FALSE
    BY <1>0, <2>1 DEF AcquireExisting, AcquireNew, Obtain, Unaware
  <2>2. ASSUME NEW x \in Exec, \/ ReadLimit(x) \/ Renew(x) \/ RenewError(x) \/ Release(x)
                                \/ Abandon(x) \/ Retire(x)
        PROVE  FALSE
    BY <1>0, <2>2 DEF ReadLimit, Renew, RenewError, Release, Abandon, Retire, Finish
  <2>3. ASSUME NEW x \in Exec, NEW s \in 0..Skew, AcquireDenied(x, s) PROVE x = e
    BY <1>0, <2>3 DEF AcquireDenied
  <2>4. CASE Tick \/ UNCHANGED vars \/ \E l \in Settings : SetLimit(l)
    BY <2>4 DEF Tick, vars, SetLimit, execVars
  <2> QED BY <2>1, <2>2, <2>3, <2>4 DEF Next, Acquire
<1>2. \A j \in Job : OwnersAfter(s)[j] # None => LeaseAfter(s)[j] > 0
  <2> SUFFICES ASSUME NEW j \in Job, OwnersAfter(s)[j] # None PROVE LeaseAfter(s)[j] > 0
    OBVIOUS
  <2>1. LeaseAfter(s)[j] = lease[j] /\ lease[j] # NoLease /\ ~(lease[j] <= s)
    BY DEF OwnersAfter, LeaseAfter, Expired, CounterAgreesWithOwners
  <2>2. lease[j] \in NoLease..TTL
    BY DEF TypeOK
  <2> QED BY <2>1, <2>2, ConstantsAssumption
<1>3. {j \in Job \ {JobOf[e]} : owners'[j] # None /\ lease'[j] > 0}
        = {j \in Job : OwnersAfter(s)[j] # None}
  BY <1>1, <1>2 DEF AcquireDenied
<1>4. CountAfter(s) >= seen[e]
  BY <1>1, ReapType DEF AcquireDenied, HasRoom, TypeOK
<1> QED BY <1>3, <1>4, ReapAccounting

(* No refresh is deferred because of a permit that is dead, or of one that *)
(* was counted twice.                                                      *)
THEOREM DenialsAreJustified == Spec => DenialIsJustified
<1>1. TypeOK /\ CounterAgreesWithOwners /\ [Next]_vars =>
        [\A e \in Exec : pc[e] = "ready" /\ pc'[e] = "denied" =>
           Cardinality({j \in Job \ {JobOf[e]} : owners'[j] # None /\ lease'[j] > 0})
             >= seen[e]]_vars
  BY Denials
<1> QED BY <1>1, TypeCorrect, CounterNeverDrifts, PTL DEF Spec, DenialIsJustified

----------------------------------------------------------------------------
(* The refinement: a step of the scripts is a step of the permit pool.     *)
Live == {j \in Owned : lease[j] > Skew}

(* The owners a worker reaps all have leases that are not live. *)
LEMMA ReapedAreLapsed ==
  ASSUME TypeOK, NEW s \in 0..Skew
  PROVE  /\ Expired(s) \cap Owned \in SUBSET (Owned \ Live)
         /\ {j \in Job : OwnersAfter(s)[j] # None} = Owned \ (Expired(s) \cap Owned)
         /\ \A j \in Owned \ Expired(s) : LeaseAfter(s)[j] = lease[j]
<1>1. \A j \in Job : lease[j] \in NoLease..TTL
  BY DEF TypeOK
<1>2. Expired(s) \cap Owned \in SUBSET (Owned \ Live)
  BY <1>1, ConstantsAssumption DEF Expired, Live, Owned
<1> QED BY <1>2 DEF OwnersAfter, LeaseAfter, Owned

(* The instance counts as this module does. *)
LEMMA SameCardinality ==
  ASSUME NEW S
  PROVE  Pool!Cardinality(S) = Cardinality(S)
BY DEF Pool!Cardinality, Cardinality

LEMMA PoolStep ==
  ASSUME TypeOK, CounterAgreesWithOwners, WithinCap, TTL > Skew, [Next]_vars
  PROVE  [Pool!PoolNext]_<<Owned, Live>>
<1> USE ConstantsAssumption
<1>t. TTL \in Nat /\ Skew \in Nat
  OBVIOUS
<1>1. ASSUME NEW e \in Exec, NEW s \in 0..Skew, AcquireExisting(e, s)
      PROVE Pool!Grant(JobOf[e])
  <2> DEFINE j0 == JobOf[e]
             gone == Expired(s) \cap Owned
  <2>1. j0 \in Owned \ gone
    BY <1>1 DEF AcquireExisting, OwnersAfter, Owned
  <2>2. Owned' = Owned \ gone
    BY <1>1, ReapedAreLapsed DEF AcquireExisting, Owned
  <2>3. \A j \in Owned \ gone : lease'[j] = IF j = j0 THEN TTL ELSE lease[j]
    BY <1>1, ReapedAreLapsed, ReapType DEF AcquireExisting, Owned
  <2>4. gone \in SUBSET (Owned \ Live)
    BY ReapedAreLapsed
  <2>5. Owned' = (Owned \ gone) \cup {j0}
    BY <2>1, <2>2
  <2>6. Live' = Live \cup {j0}
    BY <1>t, <2>1, <2>2, <2>3, <2>4 DEF Live
  <2> QED BY <2>1, <2>4, <2>5, <2>6 DEF Pool!Grant, Live
<1>2. ASSUME NEW e \in Exec, NEW s \in 0..Skew, NEW t \in Token, AcquireNew(e, s, t)
      PROVE Pool!Grant(JobOf[e])
  <2> DEFINE j0 == JobOf[e]
             gone == Expired(s) \cap Owned
  <2>1. /\ j0 \in Job /\ j0 \notin Owned \ gone
        /\ t # None
    BY <1>2, ReapedAreLapsed DEF AcquireNew
  <2>2. Owned' = (Owned \ gone) \cup {j0}
    BY <1>2, <2>1, ReapedAreLapsed, ReapType DEF AcquireNew, Owned
  <2>3. /\ lease'[j0] = TTL
        /\ \A j \in Owned \ gone : lease'[j] = lease[j]
    BY <1>2, <2>1, ReapedAreLapsed, ReapType DEF AcquireNew, Owned
  <2>4. gone \in SUBSET (Owned \ Live)
    BY ReapedAreLapsed
  <2>5. Live' = Live \cup {j0}
    BY <1>t, <2>1, <2>2, <2>3, <2>4 DEF Live
  <2>6. Cardinality(Owned \ gone) < Cap
    <3>1. CountAfter(s) = Cardinality(Owned \ gone)
      BY ReapAccounting, ReapedAreLapsed
    <3>2. CountAfter(s) < seen[e] /\ seen[e] <= Cap /\ seen[e] \in Nat
      BY <1>2 DEF AcquireNew, HasRoom, WithinCap, TypeOK
    <3>3. CountAfter(s) \in Nat
      BY ReapType
    <3> QED BY <3>1, <3>2, <3>3
  <2>7. PICK lapsed \in SUBSET (Owned \ Live) : lapsed = gone
    BY <2>4
  <2>8. /\ Cardinality(Owned \ lapsed) < Cap
        /\ Owned' = (Owned \ lapsed) \cup {j0}
        /\ Live' = Live \cup {j0}
    BY <2>2, <2>5, <2>6, <2>7
  <2> HIDE DEF gone, j0
  <2>9. \E l \in SUBSET (Owned \ Live) :
          /\ j0 \in Owned \ l \/ Cardinality(Owned \ l) < Cap
          /\ Owned' = (Owned \ l) \cup {j0}
          /\ Live' = Live \cup {j0}
    BY <2>8
  <2> QED BY <2>9, SameCardinality DEF Pool!Grant, Live, j0
<1>3. ASSUME NEW e \in Exec, NEW s \in 0..Skew, AcquireDenied(e, s)
      PROVE Pool!Refuse
  <2> DEFINE gone == Expired(s) \cap Owned
  <2>1. Owned' = Owned \ gone
    BY <1>3, ReapedAreLapsed DEF AcquireDenied, Owned
  <2>2. \A j \in Owned \ gone : lease'[j] = lease[j]
    BY <1>3, ReapedAreLapsed DEF AcquireDenied
  <2>3. gone \in SUBSET (Owned \ Live)
    BY ReapedAreLapsed
  <2>4. Live' = Live /\ Live \subseteq Owned'
    BY <2>1, <2>2, <2>3 DEF Live
  <2> QED BY <2>1, <2>4 DEF Pool!Refuse, Live
<1>4. ASSUME NEW e \in Exec, Renew(e) \/ RenewError(e)
      PROVE Pool!Extend(JobOf[e]) \/ UNCHANGED <<Owned, Live>>
  <2>1. owners' = owners /\ Owned' = Owned
    BY <1>4 DEF Renew, RenewError, Owned
  <2>2. CASE lease' = lease
    BY <2>1, <2>2 DEF Live
  <2>3. CASE PermitOf(e) /\ lease' = [lease EXCEPT ![JobOf[e]] = TTL]
    <3>1. JobOf[e] \in Owned
      BY <2>3 DEF PermitOf, Owned
    <3>2. \A j \in Job : lease'[j] = IF j = JobOf[e] THEN TTL ELSE lease[j]
      BY <2>3 DEF TypeOK
    <3>3. Live' = Live \cup {JobOf[e]}
      BY <1>t, <2>1, <3>1, <3>2 DEF Live, Owned
    <3> QED BY <2>1, <3>1, <3>3 DEF Pool!Extend, Live
  <2> QED BY <1>4, <2>2, <2>3 DEF Renew, RenewError
<1>5. ASSUME NEW e \in Exec, Release(e)
      PROVE Pool!Return(JobOf[e]) \/ UNCHANGED <<Owned, Live>>
  <2>1. CASE PermitOf(e)
    <3>1. Owned' = Owned \ {JobOf[e]}
      BY <1>5, <2>1 DEF Release, Owned, TypeOK
    <3>2. \A j \in Owned' : lease'[j] = lease[j]
      BY <1>5, <2>1, <3>1 DEF Release, Owned, TypeOK
    <3>3. Live' = Live \ {JobOf[e]}
      BY <3>1, <3>2 DEF Live
    <3> QED BY <3>1, <3>3 DEF Pool!Return, Live
  <2>2. CASE ~PermitOf(e)
    BY <1>5, <2>2 DEF Release, redisVars, Owned, Live
  <2> QED BY <2>1, <2>2
<1>6. CASE Tick
  <2>1. Owned' = Owned
    BY <1>6 DEF Tick, Owned
  <2>2. \A j \in Job : /\ lease[j] \in NoLease..TTL /\ lease'[j] \in NoLease..TTL
                       /\ lease'[j] <= lease[j]
    BY <1>6 DEF Tick, TypeOK
  <2>3. Live' \in SUBSET Live
    BY <1>t, <2>1, <2>2 DEF Live, Owned
  <2> QED BY <2>1, <2>3 DEF Pool!PoolNext, Pool!Expire, Live
<1>7. CASE \/ UNCHANGED vars
           \/ \E l \in Settings : SetLimit(l)
           \/ \E e \in Exec : ReadLimit(e) \/ Abandon(e) \/ Retire(e)
  <2>1. UNCHANGED redisVars
    BY <1>7 DEF vars, redisVars, SetLimit, ReadLimit, Abandon, Retire
  <2> QED BY <2>1 DEF redisVars, Owned, Live
<1>8. \A e \in Exec : JobOf[e] \in Job
  OBVIOUS
<1> QED
  BY <1>1, <1>2, <1>3, <1>4, <1>5, <1>6, <1>7, <1>8 DEF Next, Acquire, Pool!PoolNext

(* The Lua scripts, their callers and their failures implement the permit  *)
(* pool, provided a fresh lease outlives the difference of two clocks.     *)
THEOREM ImplementsPool ==
  ASSUME TTL > Skew
  PROVE  Spec => PoolRefined
<1>1. Init => Pool!PoolInit
  BY DEF Init, Pool!PoolInit, Owned
<1>2. Init => WithinCap
  BY ConstantsAssumption, ClampFacts DEF Init, WithinCap, CountWithinCap
<1>3. TypeOK /\ WithinCap /\ [Next]_vars => WithinCap'
  BY WithinCapStep
<1>4. TypeOK /\ CounterAgreesWithOwners /\ WithinCap /\ [Next]_vars
        => [Pool!PoolNext]_<<Owned, {j \in Owned : lease[j] > Skew}>>
  BY PoolStep DEF Live
<1> QED
  BY <1>1, <1>2, <1>3, <1>4, TypeCorrect, CounterNeverDrifts, PTL
     DEF Spec, PoolRefined, Pool!PoolSpec, Pool!poolVars
=============================================================================
