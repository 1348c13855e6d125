---------------------------- MODULE JobLifecycle ----------------------------
(***************************************************************************)
(* The life of one IngestionJob row (one dedupe key) and of the BullMQ     *)
(* messages that are published for it: producers claim the row before they *)
(* publish (enqueue.ts), workers execute messages (refresh-pipeline.ts),   *)
(* operators and the collapse of duplicate refreshes cancel or supersede   *)
(* it (refresh-job-control.ts), and all of them write the row through      *)
(* job-repository.ts.                                                      *)
(*                                                                         *)
(* A step is one call to the database or to the queue.  A repository       *)
(* method that finds a row and then updates it unconditionally is two      *)
(* steps where the caller has just read the row anyway: the decision goes  *)
(* with that read, the write comes later.  The status SUPERSEDED stands    *)
(* for FAILED with the code REFRESH_SUPERSEDED_DEDUPED.                    *)
(***************************************************************************)
EXTENDS Integers, FiniteSets

CONSTANTS
  Producer,   (* requests that enqueue this refresh                        *)
  Message,    (* BullMQ job ids; each is published at most once            *)
  Worker,     (* executions that may run side by side                      *)
  Controller, (* cancellations and supersessions                           *)
  Kinds,      (* what a controller may want: cancel, kill, supersede       *)
  None,       (* no message, no worker                                     *)
  Faults      (* which of crash, stall, age, season, callFails, queueError *)
              (* and replyLost may happen                                  *)

ASSUME ConstantsAssumption ==
  /\ IsFiniteSet(Producer) /\ IsFiniteSet(Message)
  /\ None \notin Message \cup Worker
  /\ Kinds \subseteq {"cancel", "kill", "supersede"}
  /\ Faults \subseteq {"crash", "stall", "age", "season", "callFails", "queueError",
                 "replyLost"}

VARIABLES
  row,     (* the IngestionJob row                                         *)
  queue,   (* the BullMQ messages                                          *)
  prod,    (* where a producer is, and the message it published            *)
  pc,      (* where a worker is                                            *)
  mark,    (* the status a worker is about to write, "keep" for no write   *)
  held,    (* workers whose process keeps a lane permit and an admission   *)
  op,      (* where a controller is                                        *)
  winner,  (* an earlier refresh of the same character is in flight        *)
  doomed   (* history: executions that ran when their job was cancelled    *)

workVars == <<pc, mark, held, doomed>>
vars     == <<row, queue, prod, pc, mark, held, op, winner, doomed>>

Terminal    == {"COMPLETED", "FAILED", "SUPERSEDED", "CANCELLED"}
InFlight(s) == s \in {"QUEUED", "ACTIVE"}
Executing   == {w \in Worker : pc[w] \in {"started", "preflight", "working", "publishing"}}

(* queuedResetData: a new execution forgets everything of the last one. *)
Reset == [status |-> "QUEUED", cancel |-> "no", queueId |-> None]

Init ==
  /\ row = [status |-> "none", cancel |-> "no", queueId |-> None]
  /\ queue = [m \in Message |-> [at |-> "unused", lock |-> None, again |-> FALSE]]
  /\ prod = [p \in Producer |-> [at |-> "new", m |-> None]]
  /\ pc = [w \in Worker |-> "idle"] /\ mark = [w \in Worker |-> "keep"]
  /\ held = {}
  /\ op = [o \in Controller |-> [at |-> "new", kind |-> "cancel"]]
  /\ winner \in {w \in BOOLEAN : w => "supersede" \in Kinds}
  /\ doomed = {}

----------------------------------------------------------------------------
(* What the methods of the job repository decide from the row they find.   *)
MarkFailed ==
  CASE row.status = "CANCELLED"                       -> "keep"
    [] row.cancel # "no" /\ InFlight(row.status)      -> "CANCELLED"
    [] OTHER                                          -> "FAILED"

MarkSuperseded == IF row.status \in {"CANCELLED", "SUPERSEDED"} THEN "keep" ELSE "SUPERSEDED"
MarkCancelledQueued == IF row.status = "QUEUED" THEN "CANCELLED" ELSE "keep"   \* mutant
MarkCancelled  == IF InFlight(row.status) THEN "CANCELLED" ELSE "keep"

(* A row that is written CANCELLED also carries the request. *)
Written(s) ==
  IF s = "keep" THEN row
  ELSE [row EXCEPT !.status = s,
                   !.cancel = IF s = "CANCELLED" /\ @ = "no" THEN "admin" ELSE @]

(* requestCancel: compare and set. *)
Asked(reason) == IF InFlight(row.status) /\ row.cancel = "no"
                 THEN [row EXCEPT !.cancel = reason] ELSE row

(* isRefreshCancellationRequested *)
CancelSeen == row.status = "CANCELLED" \/ row.cancel # "no"

(* The row as resolveForEnqueue and createOrGetByDedupe find it: a missing *)
(* one is created, one in flight may be found stale and is closed first.   *)
Closed == IF row.status = "ACTIVE" /\ row.cancel # "no" THEN "CANCELLED" ELSE "FAILED"
Found  == IF row.status = "none" THEN {Written("FAILED")}
          ELSE {row} \cup {r \in {Written(Closed)} : "age" \in Faults /\ InFlight(row.status)}

----------------------------------------------------------------------------
(* Producers (persistAndEnqueue). *)
Goes(p, at) == prod' = [prod EXCEPT ![p].at = at]

(* enqueueRefresh closes a job of an obsolete contract, running or not.    *)
SeasonChange(p) ==
  /\ "season" \in Faults /\ prod[p].at = "new" /\ InFlight(row.status)
  /\ row' = Written(MarkFailed)
  /\ UNCHANGED <<queue, prod, workVars, op, winner>>

Resolve(p) ==
  /\ prod[p].at = "new"
  /\ row' \in Found
  /\ Goes(p, IF InFlight(row'.status) THEN "done" ELSE "resolved")
  /\ UNCHANGED <<queue, workVars, op, winner>>

ClaimUnchecked(p) ==                      \* mutant: update without the compare
  /\ prod[p].at = "resolved"
  /\ row' = Reset /\ Goes(p, "won")
  /\ UNCHANGED <<queue, workVars, op, winner>>

(* promoteToQueuedAfterEnqueue: only one producer wins a terminal row. *)
Claim(p) ==
  /\ prod[p].at = "resolved"
  /\ IF row.status \in Terminal
     THEN row' = Reset /\ Goes(p, "won")
     ELSE UNCHANGED row /\ Goes(p, "done")
  /\ UNCHANGED <<queue, workVars, op, winner>>

Publishes(m) == /\ queue[m].at = "unused"
                /\ queue' = [queue EXCEPT ![m].at = "waiting"]

Add(p, m) ==
  /\ prod[p].at = "won"
  /\ Publishes(m)
  /\ prod' = [prod EXCEPT ![p] = [at |-> "added", m |-> m]]
  /\ UNCHANGED <<row, workVars, op, winner>>

EnqueueFailedIgnored == row               \* mutant: the claimed row is left QUEUED

(* markEnqueueFailed *)
EnqueueFailed ==
  IF row.status \in {"COMPLETED", "CANCELLED"} THEN row ELSE [row EXCEPT !.status = "FAILED"]

AddFails(p) ==
  /\ prod[p].at = "won" /\ "queueError" \in Faults
  /\ \/ UNCHANGED queue
     \/ "replyLost" \in Faults /\ \E m \in Message : Publishes(m)
  /\ Goes(p, "failed")
  /\ UNCHANGED <<row, workVars, op, winner>>

MarkEnqueueFailed(p) ==
  /\ prod[p].at = "failed"
  /\ row' = EnqueueFailed
  /\ Goes(p, "done")
  /\ UNCHANGED <<queue, workVars, op, winner>>

SetRowIdAsQueueJobId(p) ==                \* mutant: the wrong kind of id
  /\ prod[p].at = "added"
  /\ row' = [row EXCEPT !.queueId = p]
  /\ Goes(p, "done")
  /\ UNCHANGED <<queue, workVars, op, winner>>

SetQueueJobId(p) ==
  /\ prod[p].at = "added"
  /\ \/ row' = [row EXCEPT !.queueId = prod[p].m]
     \/ "queueError" \in Faults /\ UNCHANGED row
  /\ Goes(p, "done")
  /\ UNCHANGED <<queue, workVars, op, winner>>

ProducerDies(p) ==
  /\ "crash" \in Faults /\ prod[p].at \in {"won", "failed", "added"}
  /\ Goes(p, "done")
  /\ UNCHANGED <<row, queue, workVars, op, winner>>

----------------------------------------------------------------------------
(* The queue.  A message whose worker has stopped renewing its lock is     *)
(* delivered once more; the worker may be dead, or only slow.              *)
Redeliver(m) ==
  /\ queue[m].at = "active"
  /\ queue[m].lock # None => "stall" \in Faults
  /\ queue' = [queue EXCEPT ![m] =
       [at |-> IF @.again THEN "gone" ELSE "waiting", lock |-> None, again |-> TRUE]]
  /\ UNCHANGED <<row, prod, workVars, op, winner>>

(* Workers (runRefreshPipeline). *)
Moves(w, at) == pc' = [pc EXCEPT ![w] = at]

Deliver(w, m) ==
  /\ pc[w] = "idle" /\ queue[m].at = "waiting"
  /\ queue' = [queue EXCEPT ![m].at = "active", ![m].lock = w]
  /\ Moves(w, "delivered")
  /\ UNCHANGED <<row, prod, mark, held, op, winner, doomed>>

(* createOrGetByDedupe, then the terminal guard. *)
LookUp(w) ==
  /\ pc[w] = "delivered"
  /\ row' \in Found
  /\ Moves(w, CASE InFlight(row'.status)        -> "found"
                [] row'.status = "SUPERSEDED"   -> "leaving"
                [] OTHER                        -> "reviving")
  /\ UNCHANGED <<queue, prod, mark, held, op, winner, doomed>>

Revive(w) ==
  /\ pc[w] = "reviving"
  /\ row' = Reset
  /\ Moves(w, "found")
  /\ UNCHANGED <<queue, prod, mark, held, op, winner, doomed>>

MarkActive(w) ==
  /\ pc[w] = "found"
  /\ row' = [row EXCEPT !.status = "ACTIVE"]
  /\ Moves(w, "started")
  /\ UNCHANGED <<queue, prod, mark, held, op, winner, doomed>>

(* The execution stops for a reason it read in the row, and will write s.  *)
Stops(w, s) ==
  /\ Moves(w, "writing")
  /\ mark' = [mark EXCEPT ![w] = s]
  /\ UNCHANGED <<row, queue, prod, op, winner, doomed>>

Lets(w) == held' = held \ {w}      \* releaseAdmission

StopAtCheckpoint(w) ==
  /\ pc[w] \in {"started", "preflight", "working"} /\ CancelSeen
  /\ Lets(w)
  /\ Stops(w, IF row.cancel = "superseded" THEN MarkSuperseded ELSE MarkCancelled)

(* assertStillWinningRefresh *)
LoseToWinner(w) ==
  /\ pc[w] = "started" /\ ~CancelSeen /\ winner
  /\ Lets(w)
  /\ Stops(w, MarkSuperseded)

PassGuards(w) ==
  /\ pc[w] = "started" /\ ~CancelSeen /\ ~winner
  /\ Moves(w, "preflight")
  /\ UNCHANGED <<row, queue, prod, mark, held, op, winner, doomed>>

(* The lane permit and the admission are granted. *)
Admit(w) ==
  /\ pc[w] = "preflight"
  /\ Moves(w, "working")
  /\ held' = held \cup {w}
  /\ UNCHANGED <<row, queue, prod, mark, op, winner, doomed>>

(* A refusal that marks the job and throws: nothing is released if it      *)
(* comes after admission.                                                  *)
Refuse(w) ==
  /\ pc[w] \in {"preflight", "working"}
  /\ UNCHANGED held
  /\ Stops(w, MarkFailed)

(* The permit is found lost: the job is marked, then all is let go; here   *)
(* the order makes no difference.                                          *)
LosePermit(w) ==
  /\ pc[w] = "working"
  /\ Lets(w)
  /\ Stops(w, MarkFailed)

(* Any other error: ensureFailed releases and marks a job that is still in *)
(* flight, and does nothing for one that is not.                           *)
Throw(w) ==
  /\ pc[w] \in {"preflight", "working", "publishing", "published", "rejected"}
  /\ IF InFlight(row.status)
     THEN Lets(w) /\ Stops(w, IF row.cancel # "no" THEN MarkCancelled ELSE MarkFailed)
     ELSE /\ Moves(w, "leaving")
          /\ UNCHANGED <<row, queue, prod, mark, held, op, winner, doomed>>

(* A call fails where nothing catches it: before the try of the pipeline,  *)
(* or when the row is to be marked.  The row stays as it is.               *)
CallFails(w) ==
  /\ "callFails" \in Faults
  /\ pc[w] \in {"delivered", "reviving", "found", "started", "writing"}
  /\ Moves(w, "leaving")
  /\ mark' = [mark EXCEPT ![w] = "keep"]
  /\ UNCHANGED <<row, queue, prod, held, op, winner, doomed>>

PassUncancelled(w) ==                     \* mutant: the flag is not looked at
  /\ pc[w] = "working" /\ row.status = "ACTIVE"
  /\ Moves(w, "publishing")
  /\ UNCHANGED <<row, queue, prod, mark, held, op, winner, doomed>>

(* The publication transaction begins with a plain read of the row: it     *)
(* takes no lock, and nothing reads the row again before the commit.       *)
PassPublicationGuard(w) ==
  /\ pc[w] = "working"
  /\ row.status = "ACTIVE" /\ row.cancel = "no"
  /\ Moves(w, "publishing")
  /\ UNCHANGED <<row, queue, prod, mark, held, op, winner, doomed>>

(* Its commit. *)
Publish(w) ==
  /\ pc[w] = "publishing"
  /\ Moves(w, "published")
  /\ UNCHANGED <<row, queue, prod, mark, held, op, winner, doomed>>

(* Refused by the coherence rules, or because the row is no longer ACTIVE; *)
(* unless a cancellation is seen the execution goes on.                    *)
Reject(w) ==
  /\ pc[w] = "working" /\ ~CancelSeen
  /\ Moves(w, "rejected")
  /\ UNCHANGED <<row, queue, prod, mark, held, op, winner, doomed>>

Complete(w) ==
  /\ pc[w] \in {"published", "rejected"}
  /\ row' = [row EXCEPT !.status = "COMPLETED"]
  /\ Lets(w)
  /\ Moves(w, "leaving")
  /\ UNCHANGED <<queue, prod, mark, op, winner, doomed>>

Write(w) ==
  /\ pc[w] = "writing"
  /\ row' = Written(mark[w])
  /\ mark' = [mark EXCEPT ![w] = "keep"]
  /\ Moves(w, "leaving")
  /\ UNCHANGED <<queue, prod, held, op, winner, doomed>>

(* The processor returns or throws: the message is done, if still locked.  *)
Leave(w) ==
  /\ pc[w] = "leaving"
  /\ queue' = [m \in Message |-> IF queue[m].lock = w
                                 THEN [queue[m] EXCEPT !.at = "gone", !.lock = None]
                                 ELSE queue[m]]
  /\ Moves(w, "idle")
  /\ doomed' = doomed \ {w}
  /\ UNCHANGED <<row, prod, mark, held, op, winner>>

(* The leases of what the process held run out. *)
Crash(w) ==
  /\ "crash" \in Faults /\ pc[w] # "idle"
  /\ queue' = [m \in Message |-> IF queue[m].lock = w THEN [queue[m] EXCEPT !.lock = None]
                                                      ELSE queue[m]]
  /\ Moves(w, "idle")
  /\ mark' = [mark EXCEPT ![w] = "keep"]
  /\ Lets(w)
  /\ doomed' = doomed \ {w}
  /\ UNCHANGED <<row, prod, op, winner>>

----------------------------------------------------------------------------
(* Controllers: cancelRefreshJob, and supersedeDuplicateRefreshJob for a   *)
(* job that loses to an earlier one.                                       *)
Turns(o, at) == op' = [op EXCEPT ![o].at = at]
Dooms        == doomed' = IF row'.cancel # "no" \/ row'.status = "CANCELLED"
                          THEN doomed \cup Executing ELSE doomed
Super(o)     == op[o].kind = "supersede"
Reason(o)    == IF Super(o) THEN "superseded" ELSE "admin"

(* A cancellation that was already requested is forced. *)
Request(o, k) ==
  /\ op[o].at = "new" /\ InFlight(row.status) /\ k \in {"cancel", "kill"}
  /\ LET kind == IF row.cancel # "no" THEN "kill" ELSE k
     IN  op' = [op EXCEPT ![o] =
           [kind |-> kind,
            at   |-> IF row.status = "QUEUED" THEN "inspecting"
                     ELSE IF kind = "kill" THEN "forcing" ELSE "done"]]
  /\ row' = Asked("admin")
  /\ Dooms
  /\ UNCHANGED <<queue, prod, pc, mark, held, winner>>

Supersede(o) ==
  /\ op[o].at = "new" /\ InFlight(row.status) /\ winner
  /\ op' = [op EXCEPT ![o] = [kind |-> "supersede",
                              at   |-> IF row.status = "QUEUED" THEN "inspecting" ELSE "done"]]
  /\ IF row.status = "ACTIVE" THEN row' = Asked("superseded") /\ Dooms
                              ELSE UNCHANGED <<row, doomed>>
  /\ UNCHANGED <<queue, prod, pc, mark, held, winner>>

(* inspectAndRemoveQueuedBullJob: the message named in the row, else any   *)
(* waiting one; its errors are swallowed.                                  *)
Named      == {m \in Message : m = row.queueId /\ queue[m].at \in {"waiting", "active"}}
Candidates == IF Named # {} THEN Named ELSE {m \in Message : queue[m].at = "waiting"}

RemoveOnly(o, m) ==                       \* mutant: the row is not closed
  /\ op[o].at = "inspecting" /\ m \in Candidates /\ queue[m].at = "waiting"
  /\ queue' = [queue EXCEPT ![m].at = "gone"]
  /\ Turns(o, "done")
  /\ UNCHANGED <<row, prod, workVars, winner>>

Remove(o, m) ==
  /\ op[o].at = "inspecting" /\ m \in Candidates /\ queue[m].at = "waiting"
  /\ queue' = [queue EXCEPT ![m].at = "gone"]
  /\ Turns(o, "closing")
  /\ UNCHANGED <<row, prod, workVars, winner>>

BecameActive(o, m) ==
  /\ op[o].at = "inspecting" /\ m \in Candidates /\ queue[m].at = "active"
  /\ row' = IF Super(o) THEN Asked("superseded") ELSE row
  /\ Turns(o, IF op[o].kind = "kill" /\ InFlight(row.status) THEN "forcing" ELSE "done")
  /\ Dooms
  /\ UNCHANGED <<queue, prod, pc, mark, held, winner>>

NotRemoved(o) ==
  /\ op[o].at = "inspecting"
  /\ Candidates = {} \/ "queueError" \in Faults
  /\ Turns(o, "closing")
  /\ UNCHANGED <<row, queue, prod, workVars, winner>>

(* markCancelledIfQueued is a compare and set; the collapse only reads the *)
(* row here and marks it failed in its next call.                          *)
Close(o) ==
  /\ op[o].at = "closing"
  /\ \/ row.status = "QUEUED" /\ ~Super(o) /\ row' = Written("CANCELLED") /\ Turns(o, "done")
     \/ row.status = "QUEUED" /\ Super(o) /\ UNCHANGED row /\ Turns(o, "failing")
     \/ row.status = "ACTIVE" /\ op[o].kind = "kill" /\ UNCHANGED row /\ Turns(o, "forcing")
     \/ row.status = "ACTIVE" /\ op[o].kind # "kill" /\ row' = Asked(Reason(o)) /\ Turns(o, "done")
     \/ ~InFlight(row.status) /\ UNCHANGED row /\ Turns(o, "done")
  /\ Dooms
  /\ UNCHANGED <<queue, prod, pc, mark, held, winner>>

(* markCancelled finds the row, and updates the row it found. *)
ForceCancel(o) ==
  /\ op[o].at = "forcing"
  /\ Turns(o, IF MarkCancelled = "keep" THEN "done" ELSE "marking")
  /\ UNCHANGED <<row, queue, prod, workVars, winner>>

WriteCancelled(o) ==
  /\ op[o].at = "marking"
  /\ row' = Written("CANCELLED")
  /\ Turns(o, "done")
  /\ Dooms
  /\ UNCHANGED <<queue, prod, pc, mark, held, winner>>

MarkLoser(o) ==
  /\ op[o].at = "failing"
  /\ row' = Written(MarkSuperseded)
  /\ Turns(o, "done")
  /\ UNCHANGED <<queue, prod, workVars, winner>>

WinnerEnds ==
  /\ winner
  /\ winner' = FALSE
  /\ UNCHANGED <<row, queue, prod, workVars, op>>

----------------------------------------------------------------------------
Produce(p) ==
  \/ SeasonChange(p) \/ Resolve(p) \/ Claim(p) \/ AddFails(p) \/ MarkEnqueueFailed(p)
  \/ SetQueueJobId(p) \/ ProducerDies(p) \/ \E m \in Message : Add(p, m)

Work(w) ==
  \/ LookUp(w) \/ Revive(w) \/ MarkActive(w) \/ PassGuards(w) \/ Admit(w)
  \/ StopAtCheckpoint(w) \/ LoseToWinner(w) \/ Refuse(w) \/ LosePermit(w) \/ Throw(w)
  \/ CallFails(w) \/ PassPublicationGuard(w) \/ Publish(w) \/ Reject(w) \/ Complete(w) \/ Write(w) \/ Leave(w)

Control(o) ==
  \/ \E k \in Kinds : Request(o, k)
  \/ Supersede(o) \/ NotRemoved(o) \/ Close(o) \/ ForceCancel(o) \/ WriteCancelled(o) \/ MarkLoser(o)
  \/ \E m \in Message : Remove(o, m) \/ BecameActive(o, m)

Next ==
  \/ \E p \in Producer : Produce(p)
  \/ \E w \in Worker : Work(w) \/ Crash(w) \/ \E m \in Message : Deliver(w, m)
  \/ \E m \in Message : Redeliver(m)
  \/ \E o \in Controller : Control(o)
  \/ WinnerEnds

Spec == Init /\ [][Next]_vars

(* A process that runs goes on running, and the queue serves its messages. *)
FairSpec ==
  /\ Spec
  /\ \A p \in Producer : WF_vars(Produce(p))
  /\ \A w \in Worker : WF_vars(Work(w) \/ \E m \in Message : Deliver(w, m))
  /\ \A o \in Controller : WF_vars(Control(o) /\ op[o].at # "new")

----------------------------------------------------------------------------
TypeOK ==
  /\ row \in [status : {"none", "QUEUED", "ACTIVE"} \cup Terminal,
              cancel : {"no", "admin", "superseded"}, queueId : Message \cup {None}]
  /\ queue \in [Message -> [at : {"unused", "waiting", "active", "gone"},
                            lock : Worker \cup {None}, again : BOOLEAN]]
  /\ prod \in [Producer -> [at : {"new", "resolved", "won", "failed", "added", "done"},
                            m : Message \cup {None}]]
  /\ pc \in [Worker -> {"idle", "delivered", "reviving", "found", "started", "preflight",
                        "working", "publishing", "published", "rejected", "writing", "leaving"}]
  /\ mark \in [Worker -> {"keep"} \cup Terminal]
  /\ held \subseteq Worker /\ doomed \subseteq Worker
  /\ op \in [Controller -> [at : {"new", "inspecting", "closing", "forcing", "marking", "failing",
                                  "done"},
                            kind : {"cancel", "kill", "supersede"}]]
  /\ winner \in BOOLEAN

(* A message that can still cause provider work. *)
Live(m) == \/ queue[m].at = "waiting"
           \/ queue[m].at = "active" /\ (queue[m].lock # None => pc[queue[m].lock] # "leaving")

(* A producer that has claimed the row and neither published a message nor *)
(* closed the row again.                                                   *)
Owes(p) == prod[p].at \in {"won", "failed"}

(* What is on its way to be executed: a claim not yet published, a message. *)
Pending == ({"claim"} \X {p \in Producer : Owes(p)})
           \cup ({"message"} \X {m \in Message : Live(m)})

(* Concurrent producers never publish a second message for an execution    *)
(* that is under way, because the claim on the row comes first; until an   *)
(* operator intervenes.                                                    *)
OneExecution == (\A o \in Controller : op[o].at = "new") => \A x, y \in Pending : x = y

(* A row that says QUEUED is going to run: a message waits, or the         *)
(* producer is about to publish it or to close the row, or whoever removed *)
(* it is about to close the row, or a worker is about to take it up.       *)
QueuedIsRunnable ==
  row.status = "QUEUED" =>
    \/ \E m \in Message : queue[m].at = "waiting"
    \/ \E p \in Producer : Owes(p)
    \/ \E o \in Controller : op[o].at \in {"closing", "failing"}
    \/ \E w \in Worker : pc[w] \in {"delivered", "found"}

(* The guard of the publication transaction stops every execution that ran *)
(* when its job was cancelled or superseded, whatever the queue and other  *)
(* parties do meanwhile, until a second message is published for the row.  *)
PassesGuard(w) == pc[w] # "publishing" /\ pc'[w] = "publishing"
SecondMessage  == \E m, n \in Message : m # n /\ queue[m].at # "unused" /\ queue[n].at # "unused"

GuardStopsCancelled == [][\A w \in doomed : PassesGuard(w) => SecondMessage]_vars

(* The guard stops a cancelled execution unconditionally. *)
GuardAlwaysStopsCancelled == [][\A w \in doomed : ~PassesGuard(w)]_vars

(* An execution that runs while its job is cancelled or superseded never   *)
(* publishes a score: in a race of the two, the cancellation wins.         *)
CancelStopsPublication ==
  [][\A w \in doomed : pc'[w] = "published" => pc[w] = "published"]_vars

(* A queued job is started, or closed. *)
Served == row.status = "QUEUED" ~> row.status # "QUEUED"

(* A cancellation accepted while the job runs ends it. *)
CancelTakesEffect == (row.status = "ACTIVE" /\ row.cancel # "no") ~> ~InFlight(row.status)

(* A cancelled job is only queued again by a producer's claim. *)
CancelledNotRevived ==
  [][row.status = "CANCELLED" /\ row'.status = "QUEUED" =>
       \E p \in Producer : prod[p].at = "resolved" /\ prod'[p].at = "won"]_vars

(* A job that was cancelled, or failed for good, is not completed by an    *)
(* execution that had not noticed.                                         *)
TerminalStays ==
  [][row.status \in Terminal \ {"COMPLETED"} => row'.status # "COMPLETED"]_vars

(* An execution that is over holds neither a lane permit nor an admission. *)
NothingHeldAtEnd == \A w \in held : pc[w] # "idle"
=============================================================================
