-------------------------- MODULE SourceFightLease --------------------------
(***************************************************************************)
(* The distributed singleflight around the acquisition of one source       *)
(* fight's evidence (source-fight-lease.ts, with the singleflight calls of *)
(* wcl-concurrency/permits.ts and the work that orchestrator.ts runs under *)
(* it): one Redis key says who acquires, or that the evidence is ready;    *)
(* PostgreSQL holds the evidence.                                          *)
(*                                                                         *)
(* A step is one call to Redis or to the database.  A caller is one call   *)
(* of withSourceFightLock; it becomes owner at most once, so its token is  *)
(* its name.  A stored package stays: no code deletes or downgrades it.    *)
(* To fetch is to acquire and persist the package                          *)
(* (acquireAndPersistCapabilityPackage), the expensive provider calls.     *)
(***************************************************************************)

CONSTANTS
  Caller,
  Live,      (* callers that fetch a missing package; the others may not   *)
             (* (liveProviderPermission FORBIDDEN) or have older digests   *)
  Faults     (* which of stall, crash, throw, timeout may happen           *)

ASSUME CallersAssumption ==
  Live \subseteq Caller /\ Faults \subseteq {"stall", "crash", "throw", "timeout"}

VARIABLES
  key,       (* the Redis key: who owns it, a ready marker, or absent      *)
  package,   (* a compatible package is stored                             *)
  pc,        (* where a caller is                                          *)
  unbacked   (* history: a ready marker was set without a package          *)

vars == <<key, package, pc, unbacked>>

Absent   == [is |-> "absent"]
Ready    == [is |-> "ready"]
Owned(c) == [is |-> "owner", by |-> c]

(* From SET NX until the key is given up, a caller holds the lease; its    *)
(* heartbeat runs from the start of the work until the last call returned. *)
Holding(c) == pc[c] \in {"confirming", "closing", "sealing", "working", "fetching",
                         "completing", "marking", "releasing", "dropping"}
Beating(c) == pc[c] \in {"working", "fetching", "completing", "marking", "marked",
                         "leaving", "releasing", "dropping", "dropped"}
Ended(c)   == pc[c] \in {"done", "failed"}

Init ==
  /\ key = Absent /\ package = FALSE /\ unbacked = FALSE
  /\ pc = [c \in Caller |-> "start"]

----------------------------------------------------------------------------
Goes(c, at)     == pc' = [pc EXCEPT ![c] = at]
Moves(c, at)    == Goes(c, at) /\ UNCHANGED <<key, package, unbacked>>
Finds(c, yes, no) == Moves(c, IF package THEN yes ELSE no)

(* The fast path; a hit runs the work without a lease. *)
Start(c) == pc[c] = "start" /\ Finds(c, "reusing", "asking")

(* acquireSourceSingleflight: GET, SET NX, GET. *)
Ask(c) ==
  /\ pc[c] = "asking"
  /\ Moves(c, CASE key.is = "ready"  -> "reloading"
                [] key.is = "owner"  -> "waiting"
                [] key.is = "absent" -> "setting")

ClaimAlways(c) ==                         \* mutant: SET without NX
  /\ pc[c] = "setting"
  /\ key' = Owned(c) /\ Goes(c, "confirming")
  /\ UNCHANGED <<package, unbacked>>

Claim(c) ==
  /\ pc[c] = "setting"
  /\ IF key = Absent
     THEN key' = Owned(c) /\ Goes(c, "confirming") /\ UNCHANGED <<package, unbacked>>
     ELSE Moves(c, "looking")

LookAgain(c) ==
  /\ pc[c] = "looking"
  /\ Moves(c, IF key.is = "ready" THEN "reloading" ELSE "waiting")

(* A ready marker without a package is deleted, whatever is there by then. *)
Reload(c) == pc[c] = "reloading" /\ Finds(c, "reusing", "clearing")

Clear(c) ==
  /\ pc[c] = "clearing"
  /\ key' = Absent
  /\ Goes(c, "asking")
  /\ UNCHANGED <<package, unbacked>>

WaitWithoutAsking(c) == pc[c] = "waiting" /\ Finds(c, "reusing", "waiting")   \* mutant
Wait(c) == pc[c] = "waiting" /\ Finds(c, "reusing", "asking")

(* The 120 s are over: one last look. *)
TimeOut(c) == "timeout" \in Faults /\ pc[c] = "asking" /\ Moves(c, "late")
LastLook(c) == pc[c] = "late" /\ Finds(c, "reusing", "failed")

----------------------------------------------------------------------------
(* The owner looks once more before it works. *)
Confirm(c) == pc[c] = "confirming" /\ Finds(c, "closing", "working")

(* completeSourceSingleflight: GET, then SET without a condition. *)
CloseKey(c) == pc[c] = "closing" /\ Moves(c, IF key = Owned(c) THEN "sealing" ELSE "reusing")
Seal(c) ==
  /\ pc[c] = "sealing"
  /\ key' = Ready /\ Goes(c, "reusing")
  /\ UNCHANGED <<package, unbacked>>

(* The work with a package in store needs no provider. *)
Reuse(c) == pc[c] = "reusing" /\ package /\ Moves(c, "done")

(* The work under the lease: it finds the package, or it fetches it unless *)
(* it must or need not, and then it stores nothing.                        *)
Work(c) ==
  /\ pc[c] = "working"
  /\ Moves(c, IF package \/ c \notin Live THEN "completing" ELSE "fetching")

StoreNothing(c) ==                        \* mutant: the package is not persisted
  pc[c] = "fetching" /\ Moves(c, "completing")

Store(c) ==
  /\ pc[c] = "fetching"
  /\ package' = TRUE
  /\ Goes(c, "completing")
  /\ UNCHANGED <<key, unbacked>>

Complete(c) ==
  /\ pc[c] = "completing"
  /\ Moves(c, IF key = Owned(c) THEN "marking" ELSE "leaving")

Mark(c) ==
  /\ pc[c] = "marking"
  /\ key' = Ready /\ Goes(c, "marked")
  /\ unbacked' = (unbacked \/ ~package)
  /\ UNCHANGED package

(* The work throws, before or after it stored the package, or the          *)
(* completion does, perhaps because a reply is lost: the lease is released. *)
Throw(c) ==
  /\ "throw" \in Faults
  /\ pc[c] \in {"working", "fetching", "completing", "marking", "marked"}
  /\ Moves(c, "releasing")

(* releaseSourceSingleflight: GET, then DEL without a condition. *)
Release(c) ==
  /\ pc[c] = "releasing"
  /\ Moves(c, IF key = Owned(c) THEN "dropping" ELSE "dropped")

Drop(c) ==
  /\ pc[c] = "dropping"
  /\ key' = Absent
  /\ Goes(c, "dropped")
  /\ UNCHANGED <<package, unbacked>>

(* The reply arrives and the heartbeat stops. *)
Settle(c) ==
  /\ pc[c] \in {"marked", "leaving", "dropped"}
  /\ Moves(c, IF pc[c] = "dropped" THEN "failed" ELSE "done")

BeatAnonymous(c) ==                       \* mutant: the token is already null
  /\ Beating(c) /\ key # Absent
  /\ key' = [is |-> "owner", by |-> "null"]
  /\ UNCHANGED <<package, pc, unbacked>>

(* SET XX: whatever the key holds becomes this caller's lease again. *)
Beat(c) ==
  /\ Beating(c) /\ key # Absent
  /\ key' = Owned(c)
  /\ UNCHANGED <<package, pc, unbacked>>

(* A call outside the work fails, or the process dies: nothing is released.*)
Die(c) ==
  /\ "crash" \in Faults /\ ~Ended(c)
  /\ \/ Moves(c, "failed")
     \/ /\ pc[c] = "setting" /\ key = Absent     \* the reply to SET NX is lost
        /\ key' = Owned(c) /\ Goes(c, "failed")
        /\ UNCHANGED <<package, unbacked>>

(* The key expires: when nobody holds the lease or, after a stall, although *)
(* somebody does.                                                           *)
Lapse ==
  /\ key # Absent
  /\ (\E c \in Caller : Holding(c)) => "stall" \in Faults
  /\ key' = Absent
  /\ UNCHANGED <<package, pc, unbacked>>

Acquire(c) == \/ Start(c) \/ Ask(c) \/ Claim(c) \/ LookAgain(c) \/ Reload(c) \/ Clear(c)
              \/ Wait(c) \/ LastLook(c)
Own(c)     == \/ Confirm(c) \/ CloseKey(c) \/ Seal(c) \/ Work(c) \/ Store(c) \/ Complete(c)
              \/ Mark(c) \/ Release(c) \/ Drop(c) \/ Settle(c)
Step(c)    == Acquire(c) \/ Own(c) \/ Reuse(c)

Next ==
  \/ \E c \in Caller : Step(c) \/ TimeOut(c) \/ Throw(c) \/ Beat(c) \/ Die(c)
  \/ Lapse

Spec == Init /\ [][Next]_vars

(* Every awaited call returns or throws, and Redis lets keys expire. *)
FairSpec == Spec /\ (\A c \in Caller : WF_vars(Step(c))) /\ WF_vars(Lapse)

----------------------------------------------------------------------------
TypeOK ==
  /\ key \in {Absent, Ready} \cup {Owned(c) : c \in Caller}
  /\ package \in BOOLEAN /\ unbacked \in BOOLEAN
  /\ pc \in [Caller -> {"start", "asking", "setting", "looking", "reloading", "clearing",
                        "waiting", "late", "confirming", "closing", "sealing", "reusing",
                        "working", "fetching", "completing", "marking", "marked",
                        "leaving", "releasing", "dropping", "dropped", "done", "failed"}]

Fetching == {c \in Caller : pc[c] = "fetching"}

(* Whoever fetches is alone: neither an owner that has died nor *)
(* a late heartbeat, a deletion or a retry lets a second caller pay for    *)
(* the same fight.                                                         *)
OneFetch == \A c, d \in Fetching : c = d

(* The lease implements the abstract promise: one fetch at a time, none of *)
(* what is stored.  It does so until an owner that stores nothing leaves a *)
(* ready marker; OneFetch says more, and does not hold.                    *)
Counted == IF unbacked THEN {} ELSE Fetching
Backed  == package /\ ~unbacked

Once == INSTANCE FetchOnce WITH fetching <- Counted, stored <- Backed
FetchedOnce == Once!FetchSpec

(* Nobody waits for ever, not even behind an owner that died, and without  *)
(* the help of the timeout.                                                *)
EveryCallerEnds == \A c \in Caller : <>Ended(c)

(* A caller that fetches what is missing and does not fail leaves with a   *)
(* package in the database, whoever stored it: a ready marker, a lease that *)
(* lapsed or another owner's end is never taken for the package.           *)
DoneMeansStored == \A c \in Live : pc[c] = "done" => package
=============================================================================
