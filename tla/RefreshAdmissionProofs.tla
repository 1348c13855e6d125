----------------------- MODULE RefreshAdmissionProofs -----------------------
(***************************************************************************)
(* Theorems about RefreshAdmission, for all jobs, windows, limits, points  *)
(* and failures.                                                           *)
(***************************************************************************)
EXTENDS RefreshAdmission, FiniteSetTheorems, TLAPS

(* The part of TypeOK that the scripts can disturb. *)
HoldType ==
  /\ res \in [Window -> SUBSET Job] /\ total \in [Window -> Int]
  /\ wclLease \in [Job -> Lease] /\ slotLease \in [Job -> Lease]
  /\ slots \subseteq Job /\ slotCount \in Nat
  /\ jobWindow \in [Job -> Window \cup {None}]

(* The sweep handles a job; TypeOK alone allows it to handle none. *)
SweepsJobs == sweep.at # "idle" => sweep.job \in Job

WellTyped == TypeOK /\ SweepsJobs

(* A window id or none: what the scripts are called with. *)
Windows == Window \cup {None}

----------------------------------------------------------------------------
(* What the scripts write is of the right type. *)
LEMMA ReserveType ==
  ASSUME HoldType, NEW j \in Job, win[j] \in Windows, j \in Wcl => win[j] \in Window,
         ReserveScript(j)
  PROVE  HoldType'
BY ConstantsAssumption DEF HoldType, ReserveScript, BareSlot, Lease, wclVars, Windows

LEMMA ReleaseType ==
  ASSUME HoldType, NEW j \in Job, NEW w \in Windows, ReleaseScript(j, w)
  PROVE  HoldType'
<1>1. wclLease' \in [Job -> Lease] /\ res' \in [Window -> SUBSET Job]
  BY DEF HoldType, ReleaseScript, ReserveIn, Windows, Lease, wclVars
<1>2. total' \in [Window -> Int]
  BY ConstantsAssumption DEF HoldType, ReleaseScript, ReserveIn, Windows, wclVars
<1>3. slots' \subseteq Job /\ slotLease' \in [Job -> Lease] /\ slotCount' \in Nat
  BY DEF HoldType, ReleaseScript, Lease, slotVars
<1>4. jobWindow' \in [Job -> Window \cup {None}]
  BY DEF HoldType, ReleaseScript
<1> QED BY <1>1, <1>2, <1>3, <1>4 DEF HoldType

LEMMA RenewType ==
  ASSUME HoldType, NEW j \in Job, NEW w \in Windows, RenewScript(j, w)
  PROVE  HoldType'
BY DEF HoldType, RenewScript, Lease

(* A job that needs points and is not denied expects a window. *)
LEMMA AdmittedWindow ==
  ASSUME NEW j \in Job, ~Denied(j, win[j])
  PROVE  j \in Wcl => win[j] # None
BY DEF Denied, ReserveIn, TooDear

----------------------------------------------------------------------------
(* Every step changes the holds in one of five ways. *)
Reserves == \E j \in Job : ~Denied(j, win[j]) /\ Expected(j) = win[j] /\ ReserveScript(j)
Releases == \E j \in Job, w \in Windows : ReleaseScript(j, w)
Renews   == \E j \in slots, w \in Windows : RenewScript(j, w)
Lapses   == \E j \in Job : /\ wclLease'  = Lapse(wclLease, j)
                           /\ slotLease' = Lapse(slotLease, j)
                           /\ UNCHANGED <<res, total, slots, slotCount, jobWindow>>

LEMMA HoldSteps ==
  ASSUME WellTyped, [Next]_vars
  PROVE  Reserves \/ Releases \/ Renews \/ Lapses \/ UNCHANGED holdVars
<1> USE DEF WellTyped
<1>1. ASSUME NEW j \in Job, Worker(j) PROVE Reserves \/ Releases \/ Renews \/ UNCHANGED holdVars
  <2>0. win[j] \in Windows
    BY DEF TypeOK, Windows
  <2>1. CASE Admit(j)
    BY <2>1 DEF Admit, Reserves
  <2>2. CASE RecordFails(j) \/ Finish(j)
    BY <2>0, <2>2 DEF RecordFails, Finish, ReleaseOrFail, Releases
  <2>3. CASE Renew(j)
    BY <2>0, <2>3 DEF Renew, Renews
  <2>4. CASE Pickup(j) \/ Predict(j) \/ Refuse(j) \/ Record(j) \/ Spend(j) \/ RenewReads(j)
               \/ RenewWrites(j) \/ Settle(j) \/ Crash(j)
    BY <2>4 DEF Pickup, Predict, Refuse, Record, Spend, RenewReads, RenewWrites, Settle, Crash
  <2> QED BY <1>1, <2>1, <2>2, <2>3, <2>4 DEF Worker
<1>2. ASSUME NEW j \in Job, Expire(j) PROVE Lapses
  BY <1>2 DEF Expire, Lapses
<1>3. ASSUME NEW j \in Job, KillRelease(j) PROVE Releases \/ UNCHANGED holdVars
  <2>1. killing[j].win \in Windows
    BY DEF TypeOK, Windows
  <2> QED BY <1>3, <2>1 DEF KillRelease, CallOfRelease, ReleaseOrFail, Releases
<1>4. ASSUME NEW j \in Job, Requeue(j) \/ GoStale(j) \/ Cancel(j) \/ Kill(j)
      PROVE  UNCHANGED holdVars
  BY <1>4 DEF Requeue, GoStale, Cancel, Kill
<1>5. ASSUME SnapshotAges \/ NewEpoch \/ \E w \in Window : RefreshSnapshot(w)
      PROVE  UNCHANGED holdVars
  BY <1>5 DEF SnapshotAges, NewEpoch, RefreshSnapshot
<1>6. ASSUME Sweeper PROVE Releases \/ Renews \/ UNCHANGED holdVars
  <2>1. CASE \E j \in Job : SweepList(j)
    BY <2>1 DEF SweepList
  <2>2. CASE SweepReadJob \/ SweepReadRow \/ SweepRenewReads \/ SweepRenewWrites \/ SweepFails
    BY <2>2 DEF SweepReadJob, SweepReadRow, SweepRenewReads, SweepRenewWrites, SweepFails
  <2>3. CASE SweepRenew
    <3>1. sweep.win \in Windows
      BY DEF TypeOK, Windows
    <3> QED BY <2>3, <3>1 DEF SweepRenew, Renews
  <2>4. CASE SweepRelease
    <3>1. sweep.job \in Job /\ sweep.win \in Windows
      BY <2>4 DEF SweepRelease, InRelease, SweepsJobs, TypeOK, Windows
    <3> QED BY <2>4, <3>1 DEF SweepRelease, CallOfRelease, ReleaseOrFail, Releases
  <2> QED BY <1>6, <2>1, <2>2, <2>3, <2>4 DEF Sweeper, SweepsFurther
<1>7. CASE UNCHANGED vars
  BY <1>7 DEF vars, holdVars
<1> QED BY <1>1, <1>2, <1>3, <1>4, <1>5, <1>6, <1>7 DEF Next

LEMMA HoldTypeStep ==
  ASSUME WellTyped, [Next]_vars
  PROVE  HoldType'
<1>0. HoldType
  BY DEF WellTyped, TypeOK, HoldType
<1>1. CASE Reserves
  <2>1. PICK j \in Job : ~Denied(j, win[j]) /\ ReserveScript(j)
    BY <1>1 DEF Reserves
  <2>2. win[j] \in Windows
    BY DEF WellTyped, TypeOK, Windows
  <2>3. j \in Wcl => win[j] \in Window
    BY <2>1, <2>2, AdmittedWindow DEF Windows
  <2> QED BY <1>0, <2>1, <2>2, <2>3, ReserveType
<1>2. CASE Releases
  BY <1>0, <1>2, ReleaseType DEF Releases
<1>3. CASE Renews
  <2>1. PICK j \in slots, w \in Windows : RenewScript(j, w)
    BY <1>3 DEF Renews
  <2>2. j \in Job
    BY <1>0 DEF HoldType
  <2> QED BY <1>0, <2>1, <2>2, RenewType
<1>4. CASE Lapses
  BY <1>0, <1>4 DEF Lapses, Lapse, HoldType, Lease
<1>5. CASE UNCHANGED holdVars
  BY <1>0, <1>5 DEF holdVars, HoldType
<1> QED BY <1>1, <1>2, <1>3, <1>4, <1>5, HoldSteps

(* A release under way, or none. *)
Calls == [at : {"idle", "read", "look", "release", "settle"}, win : Windows]

(* What the scripts do not write. *)
RestType ==
  /\ epoch \in 1..Epochs /\ left \in Int
  /\ snap \in [win : Windows, rem : Int]
  /\ row \in [Job -> [is : {"none", "RESERVED", "closed"}, win : Windows]]
  /\ status \in [Job -> {"QUEUED", "ACTIVE", "ENDED"}] /\ cancelled \subseteq Job
  /\ pc \in [Job -> {"idle", "started", "predicted", "granted", "running", "spent",
                     "settling"}]
  /\ win \in [Job -> Windows]
  /\ renewal \in [Job -> {"none", "renewed", "seen"}]
  /\ killing \in [Job -> Calls]
  /\ sweep \in [job : Job \cup {None},
                at : {"idle", "listed", "healthy", "doubtful", "renew", "renewed", "seen",
                      "read", "look", "release", "settle"},
                win : Windows]

LEMMA TypeParts == TypeOK <=> HoldType /\ RestType
BY DEF TypeOK, HoldType, RestType, Calls, Windows

RowType    == [Job -> [is : {"none", "RESERVED", "closed"}, win : Windows]]
StatusType == [Job -> {"QUEUED", "ACTIVE", "ENDED"}]

LEMMA RowTypes ==
  ASSUME RestType, NEW j \in Job
  PROVE  /\ \A w \in Windows : Opened(j, w) \in RowType
         /\ Closed(j) \in RowType
         /\ Ended(j) \in StatusType
         /\ row[j].win \in Windows /\ win[j] \in Windows
         /\ Expected(j) \in Windows
BY DEF RestType, Opened, Closed, Ended, Expected, Windows, RowType, StatusType

(* A release goes from call to call, and writes a row of the right type. *)
LEMMA ReleaseCalls ==
  ASSUME WellTyped, NEW j \in Job, NEW r, r.at \in {"read", "look", "release", "settle"},
         r = [at |-> r.at, win |-> r.win], r.win \in Windows
  PROVE  /\ AfterCall(j, r, NoCall) \in Calls
         /\ CallOfRelease(j, r) => row' \in RowType
<1>1. RestType /\ row \in RowType /\ row[j].win \in Windows /\ jobWindow[j] \in Windows
  BY TypeParts DEF WellTyped, RestType, HoldType, RowType, Windows
<1>2. CallOfRelease(j, r) => row' \in RowType
  BY <1>1, RowTypes DEF CallOfRelease
<1>3. AfterCall(j, r, NoCall) \in Calls
  BY <1>1 DEF AfterCall, NoCall, Calls, Windows
<1> QED BY <1>2, <1>3

LEMMA RestTypeStep ==
  ASSUME WellTyped, [Next]_vars
  PROVE  RestType' /\ SweepsJobs'
<1>0. RestType /\ SweepsJobs
  BY TypeParts DEF WellTyped
<1> USE <1>0
<1>1. ASSUME NEW j \in Job, Worker(j) PROVE RestType' /\ SweepsJobs'
  <2>0. SweepsJobs'
    BY <1>1 DEF Worker, Pickup, Predict, Refuse, Admit, Record, RecordFails, Spend, Renew,
                RenewReads, RenewWrites, Finish, Settle, Crash, SweepsJobs
  <2>1. CASE Pickup(j) \/ Renew(j) \/ RenewReads(j)
    BY <2>0, <2>1 DEF RestType, Pickup, Renew, RenewReads, jobVars, workVars, provVars
  <2>9. CASE Spend(j)
    BY <2>0, <2>9, ConstantsAssumption DEF RestType, Spend, jobVars
  <2>2. CASE Predict(j)
    BY <2>0, <2>2, RowTypes DEF RestType, Predict, jobVars, provVars
  <2>3. CASE Record(j) \/ RenewWrites(j)
    <3>1. row' \in RowType
      BY <2>3, RowTypes DEF Record, RenewWrites
    <3> QED BY <2>0, <2>3, <3>1
            DEF RestType, Record, RenewWrites, RowType, jobVars, workVars, provVars
  <2>4. CASE Refuse(j) \/ RecordFails(j)
    <3>1. status' \in StatusType
      BY <2>4, RowTypes DEF Refuse, RecordFails
    <3> QED BY <2>0, <2>4, <3>1
            DEF RestType, Refuse, RecordFails, Forget, Windows, StatusType, provVars
  <2>5. CASE Admit(j)
    <3>1. status' \in StatusType
      BY <2>5, RowTypes DEF Admit, RestType, StatusType
    <3> QED BY <2>0, <2>5, <3>1 DEF RestType, Admit, Forget, Windows, StatusType, provVars
  <2>6. CASE Finish(j)
    <3>1. status' \in StatusType
      BY <2>6, RowTypes DEF Finish, RestType, StatusType
    <3> QED BY <2>0, <2>6, <3>1 DEF RestType, Finish, Forget, Windows, StatusType, provVars
  <2>7. CASE Settle(j)
    <3>1. status' \in StatusType /\ row' \in RowType
      BY <2>7, RowTypes DEF Settle, RestType, RowType
    <3> QED BY <2>0, <2>7, <3>1 DEF RestType, Settle, RowType, StatusType, provVars
  <2>8. CASE Crash(j)
    BY <2>0, <2>8 DEF RestType, Crash, Forget, Windows, jobVars, provVars
  <2> QED BY <1>1, <2>0, <2>1, <2>2, <2>3, <2>4, <2>5, <2>6, <2>7, <2>8, <2>9 DEF Worker
<1>2. ASSUME NEW j \in Job,
             Expire(j) \/ Requeue(j) \/ GoStale(j) \/ Cancel(j) \/ Kill(j) \/ KillRelease(j)
      PROVE  RestType' /\ SweepsJobs'
  <2>0. SweepsJobs'
    BY <1>2 DEF Expire, Requeue, GoStale, Cancel, Kill, KillRelease, SweepsJobs
  <2>1. CASE Expire(j) \/ Cancel(j) \/ Requeue(j)
    BY <2>0, <2>1 DEF RestType, Expire, Cancel, Requeue, jobVars, workVars, provVars
  <2>2. CASE GoStale(j)
    <3>1. status' \in StatusType
      BY <2>2, RowTypes DEF GoStale
    <3> QED BY <2>0, <2>2, <3>1 DEF RestType, GoStale, StatusType, workVars, provVars
  <2>3. CASE Kill(j)
    <3>1. status' \in StatusType
      BY <2>3, RowTypes DEF Kill, RestType, StatusType
    <3>2. killing' \in [Job -> Calls]
      BY <2>3 DEF Kill, Releasing, RestType, Calls, Windows
    <3> QED BY <2>0, <2>3, <3>1, <3>2 DEF RestType, Kill, StatusType, workVars, provVars
  <2>4. CASE KillRelease(j)
    <3> DEFINE r == killing[j]
    <3>1. /\ r.at \in {"read", "look", "release", "settle"}
          /\ r = [at |-> r.at, win |-> r.win] /\ r.win \in Windows
      BY <2>4 DEF KillRelease, InRelease, RestType, Calls
    <3>2. AfterCall(j, r, NoCall) \in Calls /\ NoCall \in Calls
      BY <3>1, ReleaseCalls DEF NoCall, Calls, Windows
    <3>3. killing' \in [Job -> Calls]
      BY <2>4, <3>2 DEF KillRelease, RestType
    <3>4. row' \in RowType
      <4>1. row \in RowType
        BY DEF RestType, RowType
      <4> QED BY <2>4, <3>1, <4>1, ReleaseCalls DEF KillRelease
    <3> QED BY <2>0, <2>4, <3>3, <3>4
            DEF RestType, KillRelease, RowType, jobVars, workVars, provVars
  <2> QED BY <1>2, <2>1, <2>2, <2>3, <2>4
<1>3. ASSUME SnapshotAges \/ NewEpoch \/ \E w \in Window : RefreshSnapshot(w)
      PROVE  RestType' /\ SweepsJobs'
  BY <1>3, ConstantsAssumption DEF RestType, SweepsJobs, SnapshotAges, NewEpoch, RefreshSnapshot,
                                   Windows, jobVars, workVars, provVars
<1>4. ASSUME Sweeper PROVE RestType' /\ SweepsJobs'
  <2>1. CASE \E j \in Job : SweepList(j)
    BY <2>1 DEF SweepList, RestType, SweepsJobs, Windows, jobVars, workVars, provVars
  <2>2. CASE SweepReadJob \/ SweepFails
    <3>1. \/ sweep' = Idle
          \/ /\ sweep.job \in Job
             /\ \E a \in {"healthy", "doubtful"} :
                  sweep' = [job |-> sweep.job, at |-> a, win |-> sweep.win]
      BY <2>2 DEF SweepReadJob, SweepFails, RestType, SweepsJobs
    <3> QED BY <2>2, <3>1 DEF SweepReadJob, SweepFails, Idle, RestType, SweepsJobs, Windows,
                              jobVars, workVars, provVars
  <2>3. CASE SweepReadRow \/ SweepRenew \/ SweepRenewReads
    <3>1. sweep.job \in Job /\ row[sweep.job].win \in Windows
      BY <2>3 DEF SweepReadRow, SweepRenew, SweepRenewReads, SweepsJobs, RestType
    <3>2. \/ sweep' = Idle
          \/ \E a \in {"renew", "renewed", "seen", "read", "release"}, w \in Windows :
               sweep' = [job |-> sweep.job, at |-> a, win |-> w]
      BY <2>3, <3>1 DEF SweepReadRow, SweepRenew, SweepRenewReads, SweepsOn, Releasing, RestType
    <3>3. UNCHANGED <<provVars, snap, row, jobVars, workVars, renewal, killing>>
      BY <2>3 DEF SweepReadRow, SweepRenew, SweepRenewReads
    <3> QED BY <3>1, <3>2, <3>3
            DEF Idle, RestType, SweepsJobs, Windows, jobVars, workVars, provVars
  <2>4. CASE SweepRenewWrites
    <3>1. sweep.job \in Job
      BY <2>4 DEF SweepRenewWrites, SweepsJobs
    <3>2. row' \in RowType /\ sweep' = Idle
      BY <2>4, <3>1, RowTypes DEF SweepRenewWrites, RestType, RowType
    <3> QED BY <2>4, <3>2 DEF SweepRenewWrites, Idle, RestType, RowType, SweepsJobs, Windows,
                              jobVars, workVars, provVars
  <2>5. CASE SweepRelease
    <3>1. sweep.job \in Job /\ sweep.win \in Windows
      BY <2>5 DEF SweepRelease, InRelease, SweepsJobs, RestType
    <3>2. row' \in RowType
      <4>1. row \in RowType /\ Closed(sweep.job) \in RowType
        BY <3>1, RowTypes DEF RestType, RowType
      <4> QED BY <2>5, <4>1 DEF SweepRelease, CallOfRelease
    <3>3. \/ sweep' = Idle
          \/ \E a \in {"look", "release", "settle"}, w \in Windows :
               sweep' = [job |-> sweep.job, at |-> a, win |-> w]
      <4>1. row[sweep.job].win \in Windows /\ jobWindow[sweep.job] \in Windows
        BY <3>1, TypeParts DEF WellTyped, RestType, HoldType, Windows
      <4> QED BY <2>5, <3>1, <4>1 DEF SweepRelease, InRelease, AfterCall, RestType
    <3>4. UNCHANGED <<epoch, left, snap, status, cancelled, pc, win, renewal, killing>>
      BY <2>5 DEF SweepRelease, jobVars, workVars, provVars
    <3>5. /\ sweep' \in [job : Job \cup {None},
                         at : {"idle", "look", "release", "settle"}, win : Windows]
          /\ SweepsJobs'
      BY <3>1, <3>3 DEF Idle, SweepsJobs, Windows
    <3> QED BY <3>2, <3>4, <3>5 DEF RestType, RowType
  <2> QED BY <1>4, <2>1, <2>2, <2>3, <2>4, <2>5 DEF Sweeper, SweepsFurther
<1>5. CASE UNCHANGED vars
  BY <1>5 DEF vars, RestType, SweepsJobs
<1> QED BY <1>1, <1>2, <1>3, <1>4, <1>5 DEF Next

LEMMA WellTypedStep == WellTyped /\ [Next]_vars => WellTyped'
<1> SUFFICES ASSUME WellTyped, [Next]_vars PROVE WellTyped'
  OBVIOUS
<1>1. HoldType' /\ RestType' /\ SweepsJobs'
  BY HoldTypeStep, RestTypeStep
<1> QED BY <1>1 DEF WellTyped, TypeOK, HoldType, RestType, Calls, Windows

LEMMA WellTypedInit == Init => WellTyped
BY ConstantsAssumption DEF Init, WellTyped, TypeOK, SweepsJobs, Lease, NoRow, NoCall, Idle

LEMMA AlwaysWellTyped == Spec => []WellTyped
BY WellTypedInit, WellTypedStep, PTL DEF Spec

(* Whatever fails, every key, row and variable keeps its type; in          *)
(* particular no script and no sweep is called for a job that is none.     *)
THEOREM AdmissionTypeCorrect == Spec => []TypeOK
<1>1. WellTyped => TypeOK
  BY DEF WellTyped
<1> QED BY <1>1, AlwaysWellTyped, PTL

----------------------------------------------------------------------------
(* The accounting.  A script changes a set by at most one job, and its     *)
(* counter by as much.                                                     *)
Accounts == CountersAgree /\ SlotsAreLeased

LEMMA OneMore ==
  ASSUME NEW S, S \subseteq Job, NEW j \in Job
  PROVE  /\ Cardinality(S) \in Nat
         /\ j \notin S => Cardinality(S \cup {j}) = Cardinality(S) + 1
         /\ j \in S => /\ S \cup {j} = S
                       /\ Cardinality(S \ {j}) = Cardinality(S) - 1
                       /\ Cardinality(S) > 0
<1>1. IsFiniteSet(S)
  BY ConstantsAssumption, FS_Subset
<1>2. Cardinality(S) \in Nat
  BY <1>1, FS_CardinalityType
<1>3. j \notin S => Cardinality(S \cup {j}) = Cardinality(S) + 1
  BY <1>1, FS_AddElement
<1>4. j \in S => Cardinality(S \ {j}) = Cardinality(S) - 1
  BY <1>1, FS_RemoveElement
<1>5. j \in S => Cardinality(S) > 0
  BY <1>1, <1>2, FS_EmptySet
<1> QED BY <1>2, <1>3, <1>4, <1>5

LEMMA EstTimes ==
  ASSUME NEW n \in Int
  PROVE  /\ Est * n \in Int
         /\ Est * (n + 1) = Est * n + Est
         /\ Est * (n - 1) = Est * n - Est
BY ConstantsAssumption

LEMMA ReserveAccounts ==
  ASSUME HoldType, Accounts, NEW j \in Job, win[j] \in Windows,
         j \in Wcl => win[j] \in Window, ReserveScript(j)
  PROVE  Accounts'
<1>1. SlotsAreLeased'
  BY DEF Accounts, SlotsAreLeased, ReserveScript, BareSlot, HoldType
<1>2. slotCount' = Cardinality(slots')
  BY OneMore DEF Accounts, CountersAgree, ReserveScript, HoldType
<1>3. ASSUME NEW v \in Window PROVE total'[v] = Est * Cardinality(res'[v])
  <2>1. res[v] \subseteq Job /\ Cardinality(res[v]) \in Nat /\ total[v] \in Int
    BY OneMore DEF HoldType
  <2>2. total[v] = Est * Cardinality(res[v])
    BY DEF Accounts, CountersAgree
  <2>3. CASE j \in Wcl /\ v = win[j] /\ j \notin res[v]
    <3>1. res'[v] = res[v] \cup {j} /\ total'[v] = total[v] + Est
      BY <2>3 DEF ReserveScript, HoldType
    <3> QED BY <2>1, <2>2, <2>3, <3>1, OneMore, EstTimes
  <2>4. CASE j \in Wcl /\ v = win[j] /\ j \in res[v]
    <3>1. res'[v] = res[v] \cup {j} /\ total'[v] = total[v]
      BY <2>4 DEF ReserveScript, HoldType
    <3> QED BY <2>1, <2>2, <2>4, <3>1, OneMore
  <2>5. CASE ~(j \in Wcl /\ v = win[j])
    <3>1. res'[v] = res[v] /\ total'[v] = total[v]
      BY <2>5 DEF ReserveScript, HoldType, wclVars
    <3> QED BY <2>2, <3>1
  <2> QED BY <2>3, <2>4, <2>5
<1> QED BY <1>1, <1>2, <1>3 DEF Accounts, CountersAgree

LEMMA ReleaseAccounts ==
  ASSUME HoldType, Accounts, NEW j \in Job, NEW w \in Windows, ReleaseScript(j, w)
  PROVE  Accounts'
<1>1. SlotsAreLeased'
  BY DEF Accounts, SlotsAreLeased, ReleaseScript, HoldType, slotVars
<1>2. slotCount' = Cardinality(slots')
  BY OneMore DEF Accounts, CountersAgree, ReleaseScript, HoldType, slotVars
<1>3. ASSUME NEW v \in Window PROVE total'[v] = Est * Cardinality(res'[v])
  <2>1. res[v] \subseteq Job /\ Cardinality(res[v]) \in Nat /\ total[v] \in Int
    BY OneMore DEF HoldType
  <2>2. total[v] = Est * Cardinality(res[v])
    BY DEF Accounts, CountersAgree
  <2>3. CASE v = w /\ ReserveIn(w, j)
    <3>1. j \in res[v] /\ res'[v] = res[v] \ {j} /\ total'[v] = total[v] - Est
      BY <2>3, ConstantsAssumption DEF ReleaseScript, ReserveIn, HoldType
    <3> QED BY <2>1, <2>2, <3>1, OneMore, EstTimes
  <2>4. CASE ~(v = w /\ ReserveIn(w, j))
    <3>1. res'[v] = res[v] /\ total'[v] = total[v]
      BY <2>4 DEF ReleaseScript, HoldType, wclVars
    <3> QED BY <2>2, <3>1
  <2> QED BY <2>3, <2>4
<1> QED BY <1>1, <1>2, <1>3 DEF Accounts, CountersAgree

LEMMA AccountsStep ==
  ASSUME WellTyped, Accounts, [Next]_vars
  PROVE  Accounts'
<1>0. HoldType
  BY DEF WellTyped, TypeOK, HoldType
<1>1. CASE Reserves
  <2>1. PICK j \in Job : ~Denied(j, win[j]) /\ ReserveScript(j)
    BY <1>1 DEF Reserves
  <2>2. win[j] \in Windows
    BY DEF WellTyped, TypeOK, Windows
  <2>3. j \in Wcl => win[j] \in Window
    BY <2>1, <2>2, AdmittedWindow DEF Windows
  <2> QED BY <1>0, <2>1, <2>2, <2>3, ReserveAccounts
<1>2. CASE Releases
  BY <1>0, <1>2, ReleaseAccounts DEF Releases
<1>3. CASE Renews
  BY <1>0, <1>3 DEF Renews, RenewScript, HoldType, Accounts, CountersAgree, SlotsAreLeased
<1>4. CASE Lapses
  BY <1>0, <1>4 DEF Lapses, Lapse, HoldType, Accounts, CountersAgree, SlotsAreLeased
<1>5. CASE UNCHANGED holdVars
  BY <1>5 DEF holdVars, Accounts, CountersAgree, SlotsAreLeased
<1> QED BY <1>1, <1>2, <1>3, <1>4, <1>5, HoldSteps

LEMMA AccountsInit == Init => Accounts
BY FS_EmptySet, ConstantsAssumption DEF Init, Accounts, CountersAgree, SlotsAreLeased

LEMMA AlwaysAccounts == Spec => []Accounts
BY AccountsInit, AccountsStep, AlwaysWellTyped, PTL DEF Spec

(* The counters on which the scripts decide equal what the hashes hold,    *)
(* whichever process releases what, twice, too late or in a wrong window.  *)
THEOREM AdmissionCountersAgree == Spec => []CountersAgree
<1>1. Accounts => CountersAgree
  BY DEF Accounts
<1> QED BY <1>1, AlwaysAccounts, PTL

(* A slot is always in the sorted set in which a sweep looks for it.       *)
THEOREM AdmissionSlotsAreLeased == Spec => []SlotsAreLeased
<1>1. Accounts => SlotsAreLeased
  BY DEF Accounts
<1> QED BY <1>1, AlwaysAccounts, PTL

----------------------------------------------------------------------------
(* A job that is not denied has its slot already, or finds one free.       *)
LEMMA LimitStep ==
  ASSUME WellTyped, Accounts, SlotsWithinLimit, [Next]_vars
  PROVE  SlotsWithinLimit'
<1>0. HoldType /\ slots \subseteq Job /\ IsFiniteSet(slots)
  BY ConstantsAssumption, FS_Subset DEF WellTyped, TypeOK, HoldType
<1>1. CASE Reserves
  <2>1. PICK j \in Job : ~Denied(j, win[j]) /\ ReserveScript(j)
    BY <1>1 DEF Reserves
  <2>2. j \in slots \/ slotCount < Limit
    BY <1>0, <2>1, ConstantsAssumption DEF Denied, HoldType
  <2>3. slots' = slots \cup {j} /\ slotCount = Cardinality(slots)
    BY <2>1 DEF ReserveScript, Accounts, CountersAgree
  <2>4. /\ Cardinality(slots) \in Nat
        /\ j \in slots => slots' = slots
        /\ j \notin slots => Cardinality(slots') = Cardinality(slots) + 1
    BY <1>0, <2>3, OneMore
  <2> QED BY <2>2, <2>3, <2>4, ConstantsAssumption DEF SlotsWithinLimit
<1>2. CASE Releases
  <2>1. slots' \subseteq slots
    BY <1>2 DEF Releases, ReleaseScript, slotVars
  <2>2. Cardinality(slots') <= Cardinality(slots)
    BY <1>0, <2>1, FS_Subset
  <2>3. Cardinality(slots) \in Nat /\ Cardinality(slots') \in Nat
    BY <1>0, <2>1, FS_Subset, FS_CardinalityType
  <2> QED BY <2>2, <2>3, ConstantsAssumption DEF SlotsWithinLimit
<1>3. CASE Renews \/ Lapses \/ UNCHANGED holdVars
  BY <1>3 DEF Renews, RenewScript, Lapses, holdVars, SlotsWithinLimit
<1> QED BY <1>1, <1>2, <1>3, HoldSteps

(* Never more slots than the global limit, after any sequence of crashes,  *)
(* retries, lost replies and releases.                                     *)
THEOREM AdmissionWithinLimit == Spec => []SlotsWithinLimit
<1>1. Init => SlotsWithinLimit
  BY FS_EmptySet, ConstantsAssumption DEF Init, SlotsWithinLimit
<1> QED BY <1>1, LimitStep, AlwaysWellTyped, AlwaysAccounts, PTL DEF Spec

----------------------------------------------------------------------------
(* Points.  The prediction, the script's own look at the snapshot and the  *)
(* total it counts with may each be of another moment; what is granted is  *)
(* what fits at the moment of the grant.                                   *)
GrantFitsWindow ==
  [][\A w \in Window : ~(res'[w] \subseteq res[w]) =>
       /\ snap.win = w
       /\ Est * Cardinality(res'[w]) + Reserve <= snap.rem]_vars

LEMMA GrantFits ==
  ASSUME WellTyped, Accounts, [Next]_vars, NEW w \in Window, ~(res'[w] \subseteq res[w])
  PROVE  snap.win = w /\ Est * Cardinality(res'[w]) + Reserve <= snap.rem
<1>0. HoldType /\ snap.rem \in Int
  BY DEF WellTyped, TypeOK, HoldType
<1>1. Reserves
  <2>1. ASSUME Releases PROVE FALSE
    BY <1>0, <2>1 DEF Releases, ReleaseScript, ReserveIn, HoldType, wclVars
  <2>2. ASSUME Renews \/ Lapses \/ UNCHANGED holdVars PROVE FALSE
    BY <2>2 DEF Renews, RenewScript, Lapses, holdVars
  <2> QED BY <2>1, <2>2, HoldSteps
<1>2. PICK j \in Job : ~Denied(j, win[j]) /\ Expected(j) = win[j] /\ ReserveScript(j)
  BY <1>1 DEF Reserves
<1>3. j \in Wcl /\ win[j] = w /\ j \notin res[w] /\ res'[w] = res[w] \cup {j}
  BY <1>0, <1>2 DEF ReserveScript, HoldType, wclVars
<1>4. snap.rem - Reserve - total[w] >= Est
  <2>1. total[w] \in Int
    BY <1>0 DEF HoldType
  <2>2. ~TooDear(w)
    BY <1>2, <1>3, ConstantsAssumption DEF Denied, ReserveIn
  <2> QED BY <1>0, <2>1, <2>2, ConstantsAssumption DEF TooDear
<1>5. res[w] \subseteq Job /\ total[w] = Est * Cardinality(res[w])
  BY <1>0 DEF HoldType, Accounts, CountersAgree
<1>6. Cardinality(res[w]) \in Nat /\ Cardinality(res'[w]) = Cardinality(res[w]) + 1
  BY <1>3, <1>5, OneMore
<1>7. Est * Cardinality(res'[w]) = total[w] + Est
  BY <1>5, <1>6, EstTimes
<1>8. snap.win = w
  BY <1>2, <1>3 DEF Expected
<1> QED BY <1>0, <1>4, <1>5, <1>6, <1>7, <1>8, EstTimes, ConstantsAssumption

(* A reservation is only made in the window that the snapshot names at     *)
(* that moment, and all reservations of that window id then fit what the   *)
(* snapshot leaves above the emergency reserve, however many workers       *)
(* predicted on older snapshots, whoever releases meanwhile, and whatever  *)
(* fails.                                                                  *)
THEOREM AdmissionGrantsFit == Spec => GrantFitsWindow
<1>1. WellTyped /\ Accounts /\ [Next]_vars =>
        [\A w \in Window : ~(res'[w] \subseteq res[w]) =>
           /\ snap.win = w
           /\ Est * Cardinality(res'[w]) + Reserve <= snap.rem]_vars
  BY GrantFits
<1> QED BY <1>1, AlwaysWellTyped, AlwaysAccounts, PTL DEF Spec, GrantFitsWindow

----------------------------------------------------------------------------
(* Refinement.  A script, a lapse or anything else is one step of the      *)
(* abstract pool, or none.                                                 *)
LiveSlots == {j \in slots : slotLease[j] = "live"}

(* The instance counts as this module does. *)
LEMMA SameCardinality ==
  ASSUME NEW S
  PROVE  SlotPool!Cardinality(S) = Cardinality(S)
BY DEF SlotPool!Cardinality, Cardinality

LEMMA SlotPoolStep ==
  ASSUME WellTyped, Accounts, [Next]_vars
  PROVE  [SlotPool!PoolNext]_<<slots, LiveSlots>>
<1>0. HoldType /\ (\A j \in Job : j \in slots <=> slotLease[j] # "none")
  BY DEF WellTyped, TypeOK, HoldType, Accounts, SlotsAreLeased
<1>1. ASSUME NEW j \in Job, ~Denied(j, win[j]), ReserveScript(j)
      PROVE  SlotPool!Grant(j) \/ UNCHANGED <<slots, LiveSlots>>
  <2>1. j \in slots \/ slotCount < Limit
    BY <1>0, <1>1, ConstantsAssumption DEF Denied, HoldType
  <2>2. j \in slots \ {} \/ SlotPool!Cardinality(slots \ {}) < Limit
    <3>1. slots \ {} = slots
      OBVIOUS
    <3> QED BY <2>1, <3>1, SameCardinality DEF Accounts, CountersAgree
  <2>3. slots' = (slots \ {}) \cup {j}
    BY <1>1 DEF ReserveScript
  <2>4. {} \in SUBSET (slots \ LiveSlots)
    OBVIOUS
  <2>5. CASE BareSlot(j, win[j])
    BY <1>1, <2>3, <2>5 DEF ReserveScript, BareSlot, LiveSlots
  <2>6. CASE ~BareSlot(j, win[j])
    <3>1. LiveSlots' = LiveSlots \cup {j}
      BY <1>0, <1>1, <2>6 DEF ReserveScript, LiveSlots, HoldType
    <3> QED BY <2>2, <2>3, <2>4, <3>1 DEF SlotPool!Grant, LiveSlots
  <2> QED BY <2>5, <2>6
<1>2. ASSUME NEW j \in Job, NEW w \in Windows, ReleaseScript(j, w) PROVE SlotPool!Return(j)
  <2>1. slots' = slots \ {j}
    BY <1>2 DEF ReleaseScript, slotVars
  <2>2. LiveSlots' = LiveSlots \ {j}
    BY <1>0, <1>2, <2>1 DEF ReleaseScript, slotVars, LiveSlots, HoldType
  <2> QED BY <2>1, <2>2 DEF SlotPool!Return, LiveSlots
<1>3. ASSUME NEW j \in slots, NEW w \in Windows, RenewScript(j, w) PROVE SlotPool!Extend(j)
  <2>1. slots' = slots /\ LiveSlots' = LiveSlots \cup {j}
    BY <1>0, <1>3 DEF RenewScript, LiveSlots, HoldType
  <2> QED BY <2>1 DEF SlotPool!Extend, LiveSlots
<1>4. ASSUME Lapses PROVE SlotPool!Expire
  <2>1. slots' = slots /\ LiveSlots' \in SUBSET LiveSlots
    BY <1>0, <1>4 DEF Lapses, Lapse, LiveSlots, HoldType
  <2> QED BY <2>1 DEF SlotPool!Expire, LiveSlots
<1>5. CASE UNCHANGED holdVars
  BY <1>5 DEF holdVars, LiveSlots
<1>6. CASE Reserves \/ Releases \/ Renews
  BY <1>0, <1>1, <1>2, <1>3, <1>6
     DEF Reserves, Releases, Renews, HoldType, SlotPool!PoolNext
<1> QED BY <1>4, <1>5, <1>6, HoldSteps DEF SlotPool!PoolNext

(* The two-sided script implements the abstract pool of slots, whatever    *)
(* fails and whoever releases or sweeps: grants never exceed the limit,    *)
(* and a live slot goes only with a release of its job.                    *)
THEOREM AdmissionImplementsPool == Spec => PoolRefined
<1>1. Init => SlotPool!PoolInit
  BY DEF Init, SlotPool!PoolInit
<1>2. WellTyped /\ Accounts /\ [Next]_vars
        => [SlotPool!PoolNext]_<<slots, {j \in slots : slotLease[j] = "live"}>>
  BY SlotPoolStep DEF LiveSlots
<1> QED
  BY <1>1, <1>2, AlwaysWellTyped, AlwaysAccounts, PTL
     DEF Spec, PoolRefined, SlotPool!PoolSpec, SlotPool!poolVars

=============================================================================
