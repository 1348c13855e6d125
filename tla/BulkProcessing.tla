--------------------------- MODULE BulkProcessing ---------------------------
(***************************************************************************)
(* One bulk operation: an administrator starts it, pauses, resumes and     *)
(* cancels it through the API (bulk-character-processing-service.ts), and  *)
(* the worker drives it in ticks, one message of the bulk queue each       *)
(* (bulk-character-processing.ts), over rows that every statement of       *)
(* bulk-operation-repository.ts overwrites unconditionally.                *)
(*                                                                         *)
(* A step is one statement or one enqueue.  The worker process runs one    *)
(* tick at a time (concurrency 1), so ticks never overlap; the API's       *)
(* requests and the deletion of characters interleave with them anywhere.  *)
(* Of the checkpoint's counters the model keeps the one that steers: the   *)
(* calls consumed.  A character's child job is in flight or not; an        *)
(* enqueue of one in flight is answered with the job that is there.        *)
(***************************************************************************)
EXTENDS Integers, FiniteSets

CONSTANTS
  N,             (* the selection has items 1..N, in the order of position *)
  Full,          (* items whose child is a full refresh; others recalculate*)
  Incompatible,  (* items that the selection skips                         *)
  Deletable,     (* items whose character may be deleted meanwhile         *)
  BatchSize,
  Budget,        (* maxWclCalls                                            *)
  Cost,          (* calls that a full refresh is reckoned at               *)
  Admin,         (* requests of the API that can be open together          *)
  MaxRequests,   (* bound: pauses, resumes and cancels asked for           *)
  MaxFaults      (* bound: crashes, failing statements, failing enqueues   *)

Item == 1..N

ASSUME BulkAssumption ==
  /\ N \in Nat /\ BatchSize \in Nat \ {0}
  /\ Budget \in Nat /\ Cost \in Nat
  /\ MaxRequests \in Nat /\ MaxFaults \in Nat
  /\ Full \subseteq Item /\ Incompatible \subseteq Item /\ Deletable \subseteq Item

VARIABLES
  status,    (* the operation's row: status, the two request columns,      *)
  pause,     (*   the dry-run flag ...                                     *)
  cancel,
  dryRun,
  selected,  (*   ... and of its checkpoint selectionComplete              *)
  consumed,  (*   and consumedWclCalls                                     *)
  item,      (* the items' rows                                            *)
  gone,      (* characters deleted: their items' characterId is NULL       *)
  child,     (* characters with a child job in flight                      *)
  messages,  (* messages of this operation in the bulk queue               *)
  pc,        (* the tick: where it is, what its batch still holds, which   *)
  todo,      (*   of these had no character when they were listed, the     *)
  orphans,   (*   checkpoint's calls in memory, whether a child was new,   *)
  calls,     (*   whether any of the batch was                             *)
  fresh,
  progress,
  req,       (* the API's open requests: the next statement of each        *)
  asked,
  faults,
  spent,     (* history: calls of the full refreshes published             *)
  late       (* history: children published since a cancel was requested   *)

row    == <<status, pause, cancel, dryRun, selected, consumed>>
tick   == <<pc, todo, orphans, calls, fresh, progress>>
api    == <<req, asked>>
ledger == <<spent, late>>
vars   == <<row, item, gone, child, messages, tick, api, faults, ledger>>

Terminal    == {"COMPLETED", "CANCELLED", "DRY_RUN_COMPLETED"}
Pausable    == {"PENDING", "SELECTING", "RUNNING"}
Pending     == {i \in Item : item[i] = "PENDING"}
First(i, S) == i \in S /\ \A j \in S : i <= j
Batch(B)    == /\ Cardinality(B) <= BatchSize    \* the first pending items
               /\ B = Pending \/ Cardinality(B) = BatchSize
               /\ \A i \in B, j \in Pending \ B : i < j
Estimate(S) == Cost * Cardinality(S \cap Full)
HasTick     == messages > 0 \/ pc # "idle"

Init ==
  /\ status = "PENDING" /\ pause = FALSE /\ cancel = FALSE /\ dryRun \in BOOLEAN
  /\ selected = FALSE /\ consumed = 0
  /\ item = [i \in Item |-> "none"] /\ gone = {} /\ child \in SUBSET Item
  /\ messages = 0
  /\ pc = "idle" /\ todo = {} /\ orphans = {} /\ calls = 0 /\ fresh = FALSE /\ progress = FALSE
  /\ \E a \in Admin : req = [b \in Admin |-> IF b = a THEN "publish" ELSE "none"]
  /\ asked = 0 /\ faults = 0 /\ spent = 0 /\ late = 0

----------------------------------------------------------------------------
(* The tick. *)

Goes(at)  == pc' = at
Fault     == faults < MaxFaults /\ faults' = faults + 1
NoFault   == UNCHANGED faults
Outside   == UNCHANGED <<gone, messages, api>>
Quiet     == Outside /\ UNCHANGED <<child, ledger>>
BatchKept == UNCHANGED <<todo, orphans, fresh, progress>>

(* A terminal operation, and a paused one that nobody asked to pause, ends *)
(* the tick; else it goes on with the checkpoint it read.                  *)
IgnoresPaused    == status \in Terminal \cup {"PAUSED"} \* mutant: every paused one
IgnoresOnlyEnded == status \in Terminal                 \* mutant: no paused one
Ignores          == status \in Terminal \/ (status = "PAUSED" /\ ~pause)

StartUnasked ==                          \* mutant: a timer starts ticks, too
  /\ pc = "idle"
  /\ messages' = messages - 1
  /\ calls' = consumed
  /\ Goes(IF Ignores THEN "idle" ELSE IF selected THEN "reread" ELSE "marking")
  /\ BatchKept /\ UNCHANGED <<row, item, gone, child, api, faults, ledger>>

StartTick ==
  /\ pc = "idle" /\ messages > 0
  /\ messages' = messages - 1
  /\ calls' = consumed
  /\ Goes(IF Ignores THEN "idle" ELSE IF selected THEN "reread" ELSE "marking")
  /\ BatchKept /\ UNCHANGED <<row, item, gone, child, api, faults, ledger>>

MarkSelecting ==
  /\ pc = "marking"
  /\ status' = "SELECTING" /\ Goes("selecting")
  /\ UNCHANGED <<pause, cancel, dryRun, selected, consumed, item, calls, faults>>
  /\ BatchKept /\ Quiet

(* One transaction: the items that are not there yet, and the operation.   *)
Selected(i) == CASE item[i] # "none"   -> item[i]
                 [] i \in Incompatible -> "SKIPPED"
                 [] OTHER              -> IF dryRun THEN "SKIPPED" ELSE "PENDING"

SaveSelection ==
  /\ pc = "selecting"
  /\ item' = [i \in Item |-> Selected(i)]
  /\ status' = IF dryRun THEN "DRY_RUN_COMPLETED" ELSE "RUNNING"
  /\ selected' = TRUE /\ consumed' = 0 /\ calls' = 0
  /\ Goes(IF dryRun THEN "idle" ELSE "reread")
  /\ UNCHANGED <<pause, cancel, dryRun, faults>> /\ BatchKept /\ Quiet

(* shouldStopForWclBudget *)
StopsAlone(S) == Estimate(S) > Budget    \* mutant: what was consumed is forgotten
Stops(S)      == Estimate(S) > 0 /\ calls + Estimate(S) > Budget

Takes(batch) ==
  /\ todo' = batch /\ orphans' = batch \cap gone
  /\ progress' = FALSE /\ UNCHANGED fresh /\ Goes("batch")

(* The row is read again, then the first pending items, which only this    *)
(* tick changes.  A cancellation or an exhausted budget skips all of them. *)
RereadIgnoringCancel ==                  \* mutant: only the first read looks
  /\ pc = "reread"
  /\ \E batch \in SUBSET Pending :
     /\ Batch(batch)
     /\ \/ pause /\ Goes("pausing") /\ BatchKept
        \/ ~pause /\ (batch = {} \/ Stops(batch)) /\ Goes("completing") /\ BatchKept
        \/ ~pause /\ batch # {} /\ ~Stops(batch) /\ Takes(batch)
  /\ UNCHANGED <<row, item, calls, faults>> /\ Quiet

Reread ==
  /\ pc = "reread"
  /\ \E batch \in SUBSET Pending :
     /\ Batch(batch)
     /\ \/ cancel /\ Goes("cancelling") /\ BatchKept
        \/ ~cancel /\ pause /\ Goes("pausing") /\ BatchKept
        \/ /\ ~cancel /\ ~pause /\ (batch = {} \/ Stops(batch))
           /\ Goes("completing") /\ BatchKept
        \/ ~cancel /\ ~pause /\ batch # {} /\ ~Stops(batch) /\ Takes(batch)
  /\ UNCHANGED <<row, item, calls, faults>> /\ Quiet

SavePaused ==
  /\ pc = "pausing"
  /\ consumed' = calls /\ status' = "PAUSED" /\ Goes("idle")
  /\ UNCHANGED <<pause, cancel, dryRun, selected, item, calls, faults>>
  /\ BatchKept /\ Quiet

SkipPending ==
  /\ pc \in {"cancelling", "completing"} /\ Pending # {}
  /\ \E i \in Pending : First(i, Pending) /\ item' = [item EXCEPT ![i] = "SKIPPED"]
  /\ UNCHANGED <<row, pc, calls, faults>> /\ BatchKept /\ Quiet

SaveClosing ==
  /\ pc \in {"cancelling", "completing"} /\ Pending = {}
  /\ consumed' = calls
  /\ Goes(IF pc = "cancelling" THEN "cancelled" ELSE "completed")
  /\ UNCHANGED <<status, pause, cancel, dryRun, selected, item, calls, faults>>
  /\ BatchKept /\ Quiet

MarkTerminal ==
  /\ pc \in {"cancelled", "completed"}
  /\ status' = (IF pc = "cancelled" THEN "CANCELLED" ELSE "COMPLETED") /\ Goes("idle")
  /\ UNCHANGED <<pause, cancel, dryRun, selected, consumed, item, calls, faults>>
  /\ BatchKept /\ Quiet

----------------------------------------------------------------------------
(* The batch, in the order of position. *)

Tries(i)     == pc = "batch" /\ First(i, todo)
Done(i)      == Goes("batch") /\ todo' = todo \ {i} /\ UNCHANGED orphans
Publishes(i) ==
  /\ child' = child \cup {i}
  /\ spent' = IF i \in Full THEN spent + Cost ELSE spent
  /\ late' = IF cancel THEN late + 1 ELSE late

(* Listed without a character, or found without one by a recalculation.    *)
Deleted(i) == i \in orphans \/ (i \in gone /\ i \notin Full)

SkipDeleted(i) ==
  /\ Tries(i) /\ Deleted(i)
  /\ item' = [item EXCEPT ![i] = "SKIPPED"] /\ Done(i)
  /\ UNCHANGED <<row, calls, fresh, progress, faults>> /\ Quiet

(* The dispatch throws, as it does when the job row would refer to a       *)
(* character that is gone: the item stays pending.                         *)
LeavePending(i) ==
  /\ Tries(i) /\ ~Deleted(i)
  /\ IF i \in gone \ child THEN NoFault ELSE Fault
  /\ Done(i)
  /\ UNCHANGED <<row, item, calls, fresh, progress>> /\ Quiet

(* persistAndEnqueue: published, or answered with the job in flight.       *)
Dispatch(i) ==
  /\ Tries(i) /\ ~Deleted(i) /\ i \notin gone \ child
  /\ IF i \in child THEN UNCHANGED <<child, ledger>> ELSE Publishes(i)
  /\ fresh' = (i \notin child) /\ Goes("recording")
  /\ UNCHANGED <<row, item, todo, orphans, calls, progress, faults>> /\ Outside

(* queue.add fails: no job, and an answer like that of a new job, or like  *)
(* that of one in flight when the row is an earlier job's.                 *)
DispatchLost(i) ==
  /\ Tries(i) /\ ~Deleted(i) /\ i \notin gone \cup child
  /\ Fault /\ fresh' \in BOOLEAN /\ Goes("recording")
  /\ UNCHANGED <<row, item, todo, orphans, calls, progress>> /\ Quiet

Record(i) ==
  /\ pc = "recording" /\ First(i, todo)
  /\ item' = [item EXCEPT ![i] = "ENQUEUED"]
  /\ calls' = IF i \in Full THEN calls + Cost ELSE calls
  /\ progress' = (progress \/ fresh)
  /\ Done(i) /\ UNCHANGED <<row, fresh, faults>> /\ Quiet

(* The write of the item fails after the child was published. *)
RecordFails(i) ==
  /\ pc = "recording" /\ First(i, todo) /\ Fault
  /\ Done(i) /\ UNCHANGED <<row, item, calls, fresh, progress>> /\ Quiet

SaveBatch ==
  /\ pc = "batch" /\ todo = {}
  /\ consumed' = calls /\ status' = "RUNNING" /\ Goes("after")
  /\ UNCHANGED <<pause, cancel, dryRun, selected, item, calls, faults>>
  /\ BatchKept /\ Quiet

RestCompletes ==                         \* mutant: no progress counts as the end
  /\ pc = "after" /\ (Pending = {} \/ ~progress)
  /\ Goes("completed")
  /\ UNCHANGED <<row, item, calls, faults>> /\ BatchKept /\ Quiet

(* Completed, or at rest when nothing of the batch was new, or again. *)
Rest ==
  /\ pc = "after" /\ (Pending = {} \/ ~progress)
  /\ Goes(IF Pending = {} THEN "completed" ELSE "idle")
  /\ UNCHANGED <<row, item, calls, faults>> /\ BatchKept /\ Quiet

Requeue ==
  /\ pc = "after" /\ Pending # {} /\ progress
  /\ \/ messages' = messages + 1 /\ NoFault
     \/ UNCHANGED messages /\ Fault
  /\ Goes("idle")
  /\ UNCHANGED <<row, item, gone, child, calls, api, ledger>> /\ BatchKept

(* A crash: the stalled message is delivered again.  A statement that      *)
(* throws, or a message that stalls too often: the message is lost.        *)
Break ==
  /\ pc # "idle" /\ Fault /\ Goes("idle")
  /\ messages' \in {messages, messages + 1}
  /\ UNCHANGED <<row, item, gone, child, calls, api, ledger>> /\ BatchKept

----------------------------------------------------------------------------
(* The API: a check of the row, then an unconditional write.               *)

Asks(a, what) == req' = [req EXCEPT ![a] = what]
Aside         == UNCHANGED <<item, gone, child, tick, ledger>>

Allowed == [pause  |-> status \in Pausable,
            resume |-> status = "PAUSED" \/ pause,
            cancel |-> status \notin Terminal]

Ask(a, what) ==
  /\ req[a] = "none" /\ asked < MaxRequests /\ Allowed[what]
  /\ Asks(a, what) /\ asked' = asked + 1
  /\ UNCHANGED <<row, messages, faults>> /\ Aside

WritePause(a) ==
  /\ req[a] = "pause"
  /\ pause' = TRUE /\ Asks(a, "none")
  /\ UNCHANGED <<status, cancel, dryRun, selected, consumed, messages, asked, faults>> /\ Aside

WriteResume(a) ==
  /\ req[a] = "resume"
  /\ status' = "RUNNING" /\ pause' = FALSE /\ Asks(a, "publish")
  /\ UNCHANGED <<cancel, dryRun, selected, consumed, messages, asked, faults>> /\ Aside

(* A tick is asked for when the row, as written, has no worker looping.    *)
WriteCancel(a) ==
  /\ req[a] = "cancel"
  /\ cancel' = TRUE
  /\ Asks(a, IF status \in {"PAUSED", "PENDING"} THEN "publish" ELSE "none")
  /\ UNCHANGED <<status, pause, dryRun, selected, consumed, messages, asked, faults>> /\ Aside

(* Also the end of the request that created the operation. *)
Publish(a) ==
  /\ req[a] = "publish" /\ Asks(a, "none")
  /\ \/ messages' = messages + 1 /\ NoFault
     \/ UNCHANGED messages /\ Fault
  /\ UNCHANGED <<row, asked>> /\ Aside

----------------------------------------------------------------------------
(* The rest of the system: child jobs end, characters are deleted.         *)

ChildEnds ==
  /\ \E i \in child : child' = child \ {i}
  /\ UNCHANGED <<row, item, gone, messages, tick, api, faults, ledger>>

Delete ==
  /\ \E i \in Deletable \ gone : gone' = gone \cup {i}
  /\ UNCHANGED <<row, item, child, messages, tick, api, faults, ledger>>

Worker ==
  \/ StartTick \/ MarkSelecting \/ SaveSelection \/ Reread \/ SavePaused
  \/ SkipPending \/ SaveClosing \/ MarkTerminal
  \/ SaveBatch \/ Rest \/ Requeue
  \/ \E i \in Item :
       \/ SkipDeleted(i) \/ LeavePending(i)
       \/ Dispatch(i) \/ DispatchLost(i) \/ Record(i) \/ RecordFails(i)

Proceed(a) == WritePause(a) \/ WriteResume(a) \/ WriteCancel(a) \/ Publish(a)

Next ==
  \/ Worker \/ Break \/ ChildEnds \/ Delete
  \/ \E a \in Admin : Proceed(a) \/ \E what \in DOMAIN Allowed : Ask(a, what)

Spec     == Init /\ [][Next]_vars
FairSpec == Spec /\ WF_vars(Worker) /\ \A a \in Admin : WF_vars(Proceed(a))

----------------------------------------------------------------------------
(* Properties. *)

TypeOK ==
  /\ status \in Pausable \cup Terminal \cup {"PAUSED"}
  /\ pause \in BOOLEAN /\ cancel \in BOOLEAN /\ dryRun \in BOOLEAN
  /\ selected \in BOOLEAN /\ consumed \in Nat
  /\ item \in [Item -> {"none", "PENDING", "ENQUEUED", "SKIPPED"}]
  /\ gone \subseteq Item /\ child \subseteq Item
  /\ messages \in Nat
  /\ pc \in {"idle", "marking", "selecting", "reread", "pausing", "cancelling", "completing",
             "cancelled", "completed", "batch", "recording", "after"}
  /\ todo \subseteq Item /\ orphans \subseteq Item /\ calls \in Nat
  /\ fresh \in BOOLEAN /\ progress \in BOOLEAN
  /\ req \in [Admin -> {"none", "pause", "resume", "cancel", "publish"}]
  /\ asked \in Nat /\ faults \in Nat /\ spent \in Nat /\ late \in Nat

(* The budget of WCL calls (shouldStopForWclBudget) holds but for what     *)
(* failures hide: the checkpoint is saved once per batch, so each crash or *)
(* failing statement lets at most one batch of refreshes go uncounted,     *)
(* however ticks, requests and deliveries of one message interleave.       *)
SpendBounded == spent <= Budget + faults * BatchSize * Cost

(* A closed operation leaves nothing pending, whatever crashed between the *)
(* items' rows and the operation's, and whoever resumed it on the way.     *)
ClosedMeansSettled == status \in Terminal => Pending = {}

(* Children are only published while the operation's row says RUNNING: not *)
(* once it is shown as paused or closed, though the tick looks at the row  *)
(* once per batch and resumes come in between.                             *)
DispatchesWhileRunning == [][child' \ child # {} => status = "RUNNING"]_vars

(* After a cancellation was accepted at most the batch in progress is      *)
(* dispatched, even when its tick crashes and its message is delivered     *)
(* again, or when the operation is resumed.                                *)
LateBounded == late <= BatchSize

(* While nothing fails, what an admin asks of an operation that has a      *)
(* message is done.  A pause is obeyed by the tick, unless it is withdrawn *)
(* or the operation ends; a cancellation is applied by the next message of *)
(* the operation, be it running or paused, unless a tick in progress wrote *)
(* its PAUSED over a resumption: then ticks ignore the operation.          *)
RequestsApplied ==
  /\ (pause /\ messages > 0)
       ~> (~pause \/ status \in Terminal \cup {"PAUSED"} \/ faults > 0)
  /\ (cancel /\ messages > 0)
       ~> (status \in Terminal \/ (status = "PAUSED" /\ ~pause) \/ faults > 0)

(* An operation that nobody stops, and for which nothing fails, ends: only *)
(* a tick whose every dispatch failed is left without a successor ("Avoid a*)
(* hot requeue loop when every item in the tick failed dispatch and stayed *)
(* PENDING", bulk-character-processing.ts:544).  It does not hold: a batch *)
(* answered by jobs in flight, or of deleted characters, counts as well.   *)
Finishes == <>(status \in Terminal)

(* An accepted cancellation ends the operation ("Ensure a tick runs to     *)
(* apply cancellation when no worker is currently looping",                *)
(* bulk-character-processing-service.ts:350).  It does not hold: a worker  *)
(* on its way to write PAUSED is looping and looks no more.                *)
CancelEnds == cancel ~> (status \in Terminal)
=============================================================================
