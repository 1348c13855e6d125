-------------------------- MODULE RefreshAdmission --------------------------
(***************************************************************************)
(* Refresh admission in enforce mode                                       *)
(* (apps/worker/src/orchestration/refresh-admission): before it calls a    *)
(* provider, a refresh reserves its estimated WCL points in the current    *)
(* rate window and takes one global slot.  One Lua script does both; other *)
(* scripts renew and release.  A durable row per job mirrors the hold.     *)
(*                                                                         *)
(* The three parties are the worker that runs a job (with the timer that   *)
(* renews its lease), the operator who cancels jobs through the API, and   *)
(* the sweeper of expired leases.  A lease is live, or expired, or absent; *)
(* a job has at most one worker at a time (LanePermits studies the other   *)
(* case).  The scheduling state is RUNNING: nothing in the code sets it.   *)
(***************************************************************************)
EXTENDS Integers, FiniteSets

CONSTANTS
  Job,       (* ingestion job ids                                          *)
  Wcl,       (* the jobs that need WCL points: wclEnabled                  *)
  Window,    (* window ids that deriveWclWindowId may produce              *)
  Epochs,    (* how many rate windows of the provider are modelled         *)
  EpochOf,   (* the provider's rate window that a window id stands for     *)
  None,      (* no window                                                  *)
  Limit,     (* effectiveAdmissionGlobalConcurrency                        *)
  Est,       (* points a refresh is estimated to use                       *)
  Reserve,   (* emergency reserve points                                   *)
  Points,    (* pointsLimit of a rate window                               *)
  Sweeps,    (* TRUE: something calls reconcileExpiredAdmissionLeases      *)
  Operators, (* TRUE: operators cancel jobs                                *)
  Lossy      (* TRUE: Redis and the database may fail                      *)

ASSUME ConstantsAssumption ==
  /\ IsFiniteSet(Job) /\ Wcl \subseteq Job
  /\ None \notin Window
  /\ Epochs \in Nat \ {0} /\ EpochOf \in [Window -> 1..Epochs]
  /\ Limit \in Nat \ {0} /\ Est \in Nat \ {0}
  /\ Reserve \in Nat /\ Points \in Nat
  /\ Sweeps \in BOOLEAN /\ Operators \in BOOLEAN /\ Lossy \in BOOLEAN

VARIABLES
  epoch,      (* the provider's current rate window                        *)
  left,       (* points the provider still grants in it                    *)
  snap,       (* the rate snapshot in Redis; win None: missing or too old  *)
  res,        (* per window: the jobs with a reservation (of Est points)   *)
  total,      (* per window: the reserved total                            *)
  wclLease,   (* lease of a job's reservation                              *)
  slots,      (* the jobs that own a global slot                           *)
  slotLease,  (* lease of a job's slot                                     *)
  slotCount,  (* the counter of slots                                      *)
  jobWindow,  (* job:{id}:window                                           *)
  row,        (* RefreshAdmission row: status and window                   *)
  status,     (* status of the IngestionJob row                            *)
  cancelled,  (* jobs whose cancellation was requested                     *)
  pc,         (* where the worker of a job is                              *)
  win,        (* the window the worker expects, then holds                 *)
  renewal,    (* the renewal in flight                                     *)
  killing,    (* the release an operator's request has still to make       *)
  sweep       (* what the sweeper does                                     *)

provVars  == <<epoch, left>>
wclVars   == <<res, total, wclLease>>
slotVars  == <<slots, slotLease, slotCount>>
holdVars  == <<res, total, wclLease, slots, slotLease, slotCount, jobWindow>>
jobVars   == <<status, cancelled>>
workVars  == <<pc, win>>
vars == <<epoch, left, snap, res, total, wclLease, slots, slotLease, slotCount,
          jobWindow, row, status, cancelled, pc, win, renewal, killing, sweep>>

Lease  == {"none", "live", "expired"}
Idle   == [job |-> None, at |-> "idle", win |-> None]
NoRow  == [is |-> "none", win |-> None]
NoCall == [at |-> "idle", win |-> None]

(* The job is admitted and its heartbeat timer is on. *)
Working(j) == pc[j] \in {"running", "spent"}

Init ==
  /\ epoch = 1 /\ left = Points
  /\ snap = [win |-> None, rem |-> 0]
  /\ res = [w \in Window |-> {}] /\ total = [w \in Window |-> 0]
  /\ wclLease = [j \in Job |-> "none"]
  /\ slots = {} /\ slotCount = 0
  /\ slotLease = [j \in Job |-> "none"]
  /\ jobWindow = [j \in Job |-> None]
  /\ row = [j \in Job |-> NoRow]
  /\ status = [j \in Job |-> "QUEUED"] /\ cancelled = {}
  /\ pc = [j \in Job |-> "idle"] /\ win = [j \in Job |-> None]
  /\ renewal = [j \in Job |-> "none"]
  /\ killing = [j \in Job |-> NoCall]
  /\ sweep = Idle

----------------------------------------------------------------------------
(* The rate snapshot.  A window id is the local time of the response plus  *)
(* pointsResetIn, in whole seconds: one rate window may have several ids.  *)
RefreshSnapshot(w) ==
  /\ EpochOf[w] = epoch
  /\ snap' = [win |-> w, rem |-> left]
  /\ UNCHANGED <<provVars, holdVars, row, jobVars, workVars, renewal, killing, sweep>>

SnapshotAges ==
  /\ snap.win # None
  /\ snap' = [win |-> None, rem |-> 0]
  /\ UNCHANGED <<provVars, holdVars, row, jobVars, workVars, renewal, killing, sweep>>

(* The provider opens a new rate window; the old snapshot may still pass   *)
(* for fresh.                                                              *)
NewEpoch ==
  /\ epoch < Epochs
  /\ epoch' = epoch + 1 /\ left' = Points
  /\ UNCHANGED <<snap, holdVars, row, jobVars, workVars, renewal, killing, sweep>>

(* The stages that call WCL: at most the estimate is spent. *)
Spend(j) ==
  /\ pc[j] = "running" /\ j \in Wcl /\ left >= Est
  /\ left' = left - Est
  /\ pc' = [pc EXCEPT ![j] = "spent"]
  /\ UNCHANGED <<epoch, snap, holdVars, row, jobVars, win, renewal, killing, sweep>>

(* Leases that are not renewed run out, both of a job together.  Where a   *)
(* call renewed only one, the other may in fact run out first; a sweep     *)
(* does not ask which did.                                                 *)
Lapse(lease, j) == [lease EXCEPT ![j] = IF @ = "live" THEN "expired" ELSE @]

Expire(j) ==
  /\ "live" \in {slotLease[j], wclLease[j]}
  /\ wclLease'  = Lapse(wclLease, j)
  /\ slotLease' = Lapse(slotLease, j)
  /\ UNCHANGED <<provVars, snap, res, total, slots, slotCount, jobWindow, row, jobVars,
                 workVars, renewal, killing, sweep>>

----------------------------------------------------------------------------
(* The scripts.  Denied is every refusal of RESERVE_LUA but a change of    *)
(* window; the prediction that runs before it refuses in the same cases.   *)
Expected(j)     == IF j \in Wcl THEN snap.win ELSE None
ReserveIn(w, j) == IF w = None THEN FALSE ELSE j \in res[w]
TooDearAlone(w) == w = None \/ snap.rem - Reserve < Est    \* mutant: ignores the others
TooDear(w)      == IF w = None THEN TRUE ELSE snap.rem - Reserve - total[w] < Est

DeniedTooLate(j, w) ==                    \* mutant: one slot too many
  \/ j \notin slots /\ slotCount > Limit
  \/ j \in Wcl /\ ~ReserveIn(w, j) /\ TooDear(w)

Denied(j, w) ==
  IF ReserveIn(w, j) THEN j \notin slots
  ELSE \/ j \notin slots /\ slotCount >= Limit
       \/ j \in Wcl /\ TooDear(w)

ReserveCountedTwice(j) ==                 \* mutant: a retried admission counts again
  LET w == win[j] IN
  /\ slots'     = slots \cup {j}
  /\ slotLease' = [slotLease EXCEPT ![j] = "live"]
  /\ slotCount' = slotCount + 1
  /\ res'       = [v \in Window |-> IF v = w THEN res[v] \cup {j} ELSE res[v]]
  /\ total'     = [v \in Window |-> IF v = w THEN total[v] + Est ELSE total[v]]
  /\ wclLease'  = [wclLease EXCEPT ![j] = IF w = None THEN @ ELSE "live"]
  /\ jobWindow' = [jobWindow EXCEPT ![j] = IF w = None THEN @ ELSE w]

(* A slot without a reservation, left from another window, is kept as it   *)
(* is: its lease is not renewed.                                           *)
BareSlot(j, w) == j \in Wcl /\ j \in slots /\ ~ReserveIn(w, j)

ReserveScript(j) ==
  LET w == win[j] IN
  /\ slots'     = slots \cup {j}
  /\ slotLease' = IF BareSlot(j, w) THEN slotLease ELSE [slotLease EXCEPT ![j] = "live"]
  /\ slotCount' = IF j \in slots THEN slotCount ELSE slotCount + 1
  /\ IF j \in Wcl
     THEN /\ res'       = [res EXCEPT ![w] = @ \cup {j}]
          /\ total'     = IF j \in res[w] THEN total ELSE [total EXCEPT ![w] = @ + Est]
          /\ wclLease'  = [wclLease EXCEPT ![j] = "live"]
          /\ jobWindow' = [jobWindow EXCEPT ![j] = w]
     ELSE UNCHANGED <<wclVars, jobWindow>>

(* Mutants of the release: it counts down for a job without a slot; it     *)
(* leaves the points reserved.                                             *)
ReleaseUnchecked(j, w) ==
  /\ slots' = slots \ {j} /\ slotLease' = [slotLease EXCEPT ![j] = "none"]
  /\ slotCount' = slotCount - 1
  /\ jobWindow' = [jobWindow EXCEPT ![j] = None]
  /\ UNCHANGED wclVars

ReleaseKeepsPoints(j, w) ==
  /\ slots' = slots \ {j} /\ slotLease' = [slotLease EXCEPT ![j] = "none"]
  /\ slotCount' = IF j \in slots THEN slotCount - 1 ELSE slotCount
  /\ jobWindow' = [jobWindow EXCEPT ![j] = None]
  /\ UNCHANGED wclVars

ReleaseScript(j, w) ==
  /\ IF ReserveIn(w, j)
     THEN /\ res'      = [res EXCEPT ![w] = @ \ {j}]
          /\ total'    = [total EXCEPT ![w] = @ - Est]
          /\ wclLease' = [wclLease EXCEPT ![j] = "none"]
     ELSE UNCHANGED wclVars
  /\ IF j \in slots
     THEN /\ slots'     = slots \ {j}
          /\ slotLease' = [slotLease EXCEPT ![j] = "none"]
          /\ slotCount' = IF slotCount > 0 THEN slotCount - 1 ELSE 0
     ELSE UNCHANGED slotVars
  /\ jobWindow' = [jobWindow EXCEPT ![j] = None]

RenewScript(j, w) ==
  /\ slotLease' = [slotLease EXCEPT ![j] = "live"]
  /\ wclLease'  = IF ReserveIn(w, j) THEN [wclLease EXCEPT ![j] = "live"] ELSE wclLease
  /\ UNCHANGED <<res, total, slots, slotCount, jobWindow>>

(* A call to Redis that fails has run its script or not. *)
ReleaseOrFail(j, w) ==
  \/ ReleaseScript(j, w)
  \/ Lossy /\ UNCHANGED holdVars

Closed(j) == [row EXCEPT ![j].is = IF @ = "RESERVED" THEN "closed" ELSE @]

(* upsertReserved: a row that is RESERVED keeps its window. *)
Opened(j, w) == IF row[j].is = "RESERVED" THEN row
                ELSE [row EXCEPT ![j] = [is |-> "RESERVED", win |-> w]]

(* tryRelease, a call at a time.  A window it was not given it looks for   *)
(* in the row, then in the note in Redis; then it releases, and settles    *)
(* the row.  A failing look ends it, a failing release does not; over is   *)
(* what its caller does next.                                              *)
Releasing(w) == [at |-> IF w = None THEN "read" ELSE "release", win |-> w]
Looking(r)   == r.at \in {"read", "look"}
InRelease(r) == r.at \in {"read", "look", "release", "settle"}

AfterCall(j, r, over) ==
  CASE r.at = "read"    -> IF row[j].win = None THEN [r EXCEPT !.at = "look"]
                           ELSE [r EXCEPT !.at = "release", !.win = row[j].win]
    [] r.at = "look"    -> [r EXCEPT !.at = "release", !.win = jobWindow[j]]
    [] r.at = "release" -> [r EXCEPT !.at = "settle"]
    [] r.at = "settle"  -> over

CallOfRelease(j, r) ==
  \/ Looking(r) /\ UNCHANGED <<holdVars, row>>
  \/ r.at = "release" /\ ReleaseOrFail(j, r.win) /\ UNCHANGED row
  \/ /\ r.at = "settle" /\ UNCHANGED holdVars
     /\ \/ row' = Closed(j)
        \/ Lossy /\ UNCHANGED row
----------------------------------------------------------------------------
(* The worker of job j. *)

Forget(j) == win' = [win EXCEPT ![j] = None]

Ended(j) == [status EXCEPT ![j] = "ENDED"]

(* A new refresh request for a job that ended queues the same row again.   *)
Requeue(j) ==
  /\ status[j] = "ENDED"
  /\ status' = [status EXCEPT ![j] = "QUEUED"]
  /\ cancelled' = cancelled \ {j}
  /\ UNCHANGED <<provVars, snap, holdVars, row, workVars, renewal, killing, sweep>>

(* The queue delivers the job, again if its worker died. *)
Pickup(j) ==
  /\ pc[j] = "idle" /\ status[j] \in {"QUEUED", "ACTIVE"} /\ j \notin cancelled
  /\ pc' = [pc EXCEPT ![j] = "started"]
  /\ status' = [status EXCEPT ![j] = "ACTIVE"]
  /\ UNCHANGED <<provVars, snap, holdVars, row, cancelled, win, renewal, killing, sweep>>

(* The row of a dead worker's job is found stale. *)
GoStale(j) ==
  /\ pc[j] = "idle" /\ status[j] = "ACTIVE"
  /\ status' = Ended(j)
  /\ UNCHANGED <<provVars, snap, holdVars, row, cancelled, workVars, renewal, killing, sweep>>

(* loadPredictContext and predict: the window the script will check.       *)
Predict(j) ==
  /\ pc[j] = "started"
  /\ ~Denied(j, Expected(j))
  /\ pc'  = [pc EXCEPT ![j] = "predicted"]
  /\ win' = [win EXCEPT ![j] = Expected(j)]
  /\ UNCHANGED <<provVars, snap, holdVars, row, jobVars, renewal, killing, sweep>>

(* Refused by the prediction, or by the script: the snapshot's window has  *)
(* changed, or another worker took what was left.                          *)
Refused(j) ==
  \/ pc[j] = "started" /\ Denied(j, Expected(j))
  \/ pc[j] = "predicted" /\ (Expected(j) # win[j] \/ Denied(j, win[j]))

Refuse(j) ==
  /\ Refused(j)
  /\ pc' = [pc EXCEPT ![j] = "idle"]
  /\ status' = Ended(j)
  /\ Forget(j)
  /\ UNCHANGED <<provVars, snap, holdVars, row, cancelled, renewal, killing, sweep>>

Admit(j) ==
  /\ pc[j] = "predicted" /\ Expected(j) = win[j] /\ ~Denied(j, win[j])
  /\ ReserveScript(j)
  /\ \/ /\ pc' = [pc EXCEPT ![j] = "granted"]
        /\ UNCHANGED <<status, win>>
     \/ /\ Lossy                             \* the reply is lost: deferred
        /\ pc' = [pc EXCEPT ![j] = "idle"]
        /\ status' = Ended(j)
        /\ Forget(j)
  /\ UNCHANGED <<provVars, snap, row, cancelled, renewal, killing, sweep>>

Record(j) ==
  /\ pc[j] = "granted"
  /\ row' = Opened(j, win[j])
  /\ pc'  = [pc EXCEPT ![j] = "running"]
  /\ UNCHANGED <<provVars, snap, holdVars, jobVars, win, renewal, killing, sweep>>

(* The row cannot be written: the hold is given back, errors swallowed.    *)
RecordFails(j) ==
  /\ pc[j] = "granted" /\ Lossy
  /\ ReleaseOrFail(j, win[j])
  /\ pc' = [pc EXCEPT ![j] = "idle"]
  /\ status' = Ended(j)
  /\ Forget(j)
  /\ UNCHANGED <<provVars, snap, row, cancelled, renewal, killing, sweep>>

(* A tick of the heartbeat: the script, then the row, in three calls.      *)
(* Stopping the timer does not stop a renewal in flight.                   *)
Renew(j) ==
  /\ Working(j) /\ renewal[j] = "none" /\ j \in slots
  /\ RenewScript(j, win[j])
  /\ renewal' = [renewal EXCEPT ![j] = "renewed"]
  /\ UNCHANGED <<provVars, snap, row, jobVars, workVars, killing, sweep>>

RenewReads(j) ==
  /\ renewal[j] = "renewed"
  /\ renewal' = [renewal EXCEPT ![j] = IF row[j].is = "RESERVED" THEN "seen" ELSE "none"]
  /\ UNCHANGED <<provVars, snap, holdVars, row, jobVars, workVars, killing, sweep>>

RenewWrites(j) ==
  /\ renewal[j] = "seen"
  /\ row' = Opened(j, row[j].win)
  /\ renewal' = [renewal EXCEPT ![j] = "none"]
  /\ UNCHANGED <<provVars, snap, holdVars, jobVars, workVars, killing, sweep>>

(* The refresh ends, or notices its cancellation: the timer is stopped and *)
(* the hold released; the job's row is written before or after.            *)
Finish(j) ==
  /\ Working(j)
  /\ ReleaseOrFail(j, win[j])
  /\ pc' = [pc EXCEPT ![j] = "settling"]
  /\ status' \in {status, Ended(j)}
  /\ Forget(j)
  /\ UNCHANGED <<provVars, snap, row, cancelled, renewal, killing, sweep>>

Settle(j) ==
  /\ pc[j] = "settling"
  /\ \/ row' = Closed(j)
     \/ Lossy /\ UNCHANGED row
  /\ pc' = [pc EXCEPT ![j] = "idle"]
  /\ status' = Ended(j)
  /\ UNCHANGED <<provVars, snap, holdVars, cancelled, win, renewal, killing, sweep>>

(* The worker process dies, its timers with it. *)
Crash(j) ==
  /\ pc[j] # "idle"
  /\ pc' = [pc EXCEPT ![j] = "idle"]
  /\ renewal' = [renewal EXCEPT ![j] = "none"]
  /\ Forget(j)
  /\ UNCHANGED <<provVars, snap, holdVars, row, jobVars, killing, sweep>>

----------------------------------------------------------------------------
(* Operators.  The worker notices a cancellation at its next checkpoint;   *)
(* a forced one also ends the job, and releases its hold at once; so does  *)
(* the collapse of duplicates, which leaves the row of a running job as is. *)
Cancel(j) ==
  /\ Operators /\ status[j] = "ACTIVE" /\ j \notin cancelled
  /\ cancelled' = cancelled \cup {j}
  /\ UNCHANGED <<provVars, snap, holdVars, row, status, workVars, renewal, killing, sweep>>

Kill(j) ==
  /\ Operators /\ status[j] \in {"QUEUED", "ACTIVE"} /\ killing[j] = NoCall
  /\ cancelled' = cancelled \cup {j}
  /\ status' \in {Ended(j)} \cup {s \in {status} : s[j] = "ACTIVE"}
  /\ killing' = [killing EXCEPT ![j] = Releasing(None)]
  /\ UNCHANGED <<provVars, snap, holdVars, row, workVars, renewal, sweep>>

KillRelease(j) ==
  /\ InRelease(killing[j])
  /\ \/ /\ CallOfRelease(j, killing[j])
        /\ killing' = [killing EXCEPT ![j] = AfterCall(j, @, NoCall)]
     \/ /\ Lossy /\ Looking(killing[j])
        /\ killing' = [killing EXCEPT ![j] = NoCall]
        /\ UNCHANGED <<holdVars, row>>
  /\ UNCHANGED <<provVars, snap, jobVars, workVars, renewal, sweep>>

----------------------------------------------------------------------------
(* reconcileExpiredAdmissionLeases, one expired owner at a time. *)
SweepsOn(r) == [job |-> sweep.job, at |-> r.at, win |-> r.win]

SweepList(j) ==
  /\ Sweeps /\ sweep.at = "idle"
  /\ "expired" \in {slotLease[j], wclLease[j]}
  /\ sweep' = [job |-> j, at |-> "listed", win |-> None]
  /\ UNCHANGED <<provVars, snap, holdVars, row, jobVars, workVars, renewal, killing>>

(* It reads the job, then the row. *)
Healthy(j) == status[j] = "ACTIVE" /\ j \notin cancelled

SweepReadJob ==
  /\ sweep.at = "listed"
  /\ sweep' = [sweep EXCEPT !.at = IF Healthy(sweep.job) THEN "healthy" ELSE "doubtful"]
  /\ UNCHANGED <<provVars, snap, holdVars, row, jobVars, workVars, renewal, killing>>

SweepReadRow ==
  LET r == row[sweep.job] IN
  /\ sweep.at \in {"healthy", "doubtful"}
  /\ sweep' = IF sweep.at = "healthy" /\ r.is = "RESERVED"
              THEN [sweep EXCEPT !.at = "renew", !.win = r.win]
              ELSE SweepsOn(Releasing(r.win))
  /\ UNCHANGED <<provVars, snap, holdVars, row, jobVars, workVars, renewal, killing>>

(* A renewal that is refused, or fails, is followed by the release. *)
SweepRenew ==
  /\ sweep.at = "renew"
  /\ \/ /\ sweep.job \in slots
        /\ RenewScript(sweep.job, sweep.win)
        /\ \/ sweep' = [sweep EXCEPT !.at = "renewed"]
           \/ Lossy /\ sweep' = SweepsOn(Releasing(sweep.win))
     \/ /\ sweep.job \notin slots \/ Lossy
        /\ sweep' = SweepsOn(Releasing(sweep.win))
        /\ UNCHANGED holdVars
  /\ UNCHANGED <<provVars, snap, row, jobVars, workVars, renewal, killing>>

(* After a renewal the row is read again and written, as by the heartbeat. *)
SweepRenewReads ==
  /\ sweep.at = "renewed"
  /\ \/ sweep' = IF row[sweep.job].is = "RESERVED" THEN [sweep EXCEPT !.at = "seen"] ELSE Idle
     \/ Lossy /\ sweep' = SweepsOn(Releasing(sweep.win))
  /\ UNCHANGED <<provVars, snap, holdVars, row, jobVars, workVars, renewal, killing>>

SweepRenewWrites ==
  /\ sweep.at = "seen"
  /\ \/ row' = Opened(sweep.job, row[sweep.job].win)
     \/ Lossy /\ UNCHANGED row
  /\ sweep' = Idle
  /\ UNCHANGED <<provVars, snap, holdVars, jobVars, workVars, renewal, killing>>

SweepRelease ==
  /\ InRelease(sweep)
  /\ CallOfRelease(sweep.job, sweep)
  /\ sweep' = AfterCall(sweep.job, sweep, Idle)
  /\ UNCHANGED <<provVars, snap, jobVars, workVars, renewal, killing>>

(* A failing look at the job, the row or the note ends the sweep. *)
SweepFails ==
  /\ Lossy
  /\ sweep.at \in {"listed", "healthy", "doubtful"} \/ Looking(sweep)
  /\ sweep' = Idle
  /\ UNCHANGED <<provVars, snap, holdVars, row, jobVars, workVars, renewal, killing>>

----------------------------------------------------------------------------
Worker(j) ==
  \/ Pickup(j) \/ Predict(j) \/ Refuse(j) \/ Admit(j) \/ Record(j) \/ RecordFails(j)
  \/ Spend(j) \/ Renew(j) \/ RenewReads(j) \/ RenewWrites(j)
  \/ Finish(j) \/ Settle(j) \/ Crash(j)

SweepsFurther == \/ SweepReadJob \/ SweepReadRow \/ SweepRenew \/ SweepRenewReads
                 \/ SweepRenewWrites \/ SweepRelease \/ SweepFails
Sweeper == (\E j \in Job : SweepList(j)) \/ SweepsFurther

Next ==
  \/ SnapshotAges \/ NewEpoch \/ \E w \in Window : RefreshSnapshot(w)
  \/ \E j \in Job : Worker(j) \/ Expire(j) \/ Requeue(j) \/ GoStale(j)
                  \/ Cancel(j) \/ Kill(j) \/ KillRelease(j)
  \/ Sweeper

Spec == Init /\ [][Next]_vars

(* Leases run out, calls return, and a sweep handles every owner it lists. *)
FairSpec ==
  /\ Spec
  /\ \A j \in Job : WF_vars(Expire(j)) /\ WF_vars(KillRelease(j)) /\ SF_vars(SweepList(j))
  /\ WF_vars(SweepsFurther)

----------------------------------------------------------------------------
TypeOK ==
  /\ epoch \in 1..Epochs /\ left \in Int
  /\ snap \in [win : Window \cup {None}, rem : Int]
  /\ res \in [Window -> SUBSET Job] /\ total \in [Window -> Int]
  /\ wclLease \in [Job -> Lease] /\ slotLease \in [Job -> Lease]
  /\ slots \subseteq Job /\ slotCount \in Nat
  /\ jobWindow \in [Job -> Window \cup {None}]
  /\ row \in [Job -> [is : {"none", "RESERVED", "closed"}, win : Window \cup {None}]]
  /\ status \in [Job -> {"QUEUED", "ACTIVE", "ENDED"}] /\ cancelled \subseteq Job
  /\ pc \in [Job -> {"idle", "started", "predicted", "granted", "running", "spent",
                     "settling"}]
  /\ win \in [Job -> Window \cup {None}]
  /\ renewal \in [Job -> {"none", "renewed", "seen"}]
  /\ killing \in [Job -> [at : {"idle", "read", "look", "release", "settle"},
                          win : Window \cup {None}]]
  /\ sweep \in [job : Job \cup {None},
                at : {"idle", "listed", "healthy", "doubtful", "renew", "renewed", "seen",
                      "read", "look", "release", "settle"},
                win : Window \cup {None}]

(* The counters the scripts decide on never drift from the hashes they     *)
(* summarise, whoever releases what, and however often.                    *)
CountersAgree ==
  /\ slotCount = Cardinality(slots)
  /\ \A w \in Window : total[w] = Est * Cardinality(res[w])

(* Every slot can be found by a sweep: it is in the sorted set of leases.  *)
SlotsAreLeased == \A j \in Job : j \in slots <=> slotLease[j] # "none"

(* No crash, retry, lost reply or release leads to more slots than the     *)
(* global limit.                                                           *)
SlotsWithinLimit == Cardinality(slots) <= Limit

(* The global slots are a pool of leased permits that grants at most       *)
(* Limit, whatever else the scripts count in the same call; a slot whose   *)
(* lease is live is lost to nobody but by a release of its own job.        *)
SlotPool == INSTANCE PermitPool WITH Cap <- Limit, granted <- slots,
                                     live <- {j \in slots : slotLease[j] = "live"}
PoolRefined == SlotPool!PoolSpec

(* The scripts never leave a reservation without the slot it came with, in *)
(* the window that is being charged: a job in that state is refused until  *)
(* the window closes.                                                      *)
ReservationHasSlot ==
  \A w \in Window : EpochOf[w] = epoch => res[w] \subseteq slots

(* Whenever points are newly reserved, all the reservations of that rate   *)
(* window together fit what the snapshot grants above the reserve.         *)
GrantFitsSnapshot ==
  [][\A w \in Window : ~(res'[w] \subseteq res[w]) =>
       LET held == {x \in Window \X Job : EpochOf[x[1]] = EpochOf[w] /\ x[2] \in res'[x[1]]}
       IN  Est * Cardinality(held) + Reserve <= snap.rem]_vars

(* A slot left behind by a job that ended without a worker is freed.       *)
Orphaned(j) == j \in slots /\ status[j] = "ENDED" /\ pc[j] = "idle"
OrphansReclaimed == \A j \in Job : Orphaned(j) ~> ~Orphaned(j)
=============================================================================
