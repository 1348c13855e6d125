--------------------------- MODULE EvidenceSlots ---------------------------
(***************************************************************************)
(* One shadow canary: its job plans a batch of evidence slots and fans     *)
(* them out (shadow-canary/runner.ts, scoring/orchestrator.ts), one job    *)
(* per slot acquires evidence (scoring/slot-processor.ts), and the slot    *)
(* that ends last asks for the fan-in (scoring/finalize.ts), all of them   *)
(* over the JSON of one row (evidence-v2-batch-repository.ts).             *)
(*                                                                         *)
(* A step is one repository call, one enqueue or one acquisition of a      *)
(* candidate.  The worker process runs one job of each of the three queues *)
(* at a time.  The slots are those of one dungeon, which share one chain   *)
(* of candidates: the plan never gives two dungeons the same candidate.    *)
(* Nothing in the code cancels or supersedes a batch, so no step does.     *)
(***************************************************************************)
EXTENDS Integers, Sequences, FiniteSets

CONSTANTS
  N,         (* the dungeon has slots 1..N, in the order of the plan       *)
  Key,       (* identities of fights: report code and fight id             *)
  Chains,    (* the candidates a discovery may find, in order              *)
  Batch,
  None,
  Attempts,  (* deliveries of a slot's message that may be deferred        *)
  Outcomes,  (* what acquiring a candidate may yield                       *)
  MaxFaults  (* bound: crashes, stalls, failing statements and enqueues    *)

Slot == 1..N

ASSUME SlotsAssumption ==
  /\ N \in Nat /\ Attempts \in Nat /\ MaxFaults \in Nat
  /\ Chains \subseteq Seq(Key)
  /\ None \notin Key /\ None \notin Batch /\ None \notin Chains
  /\ None \notin [Slot -> Key \cup {None}]
  /\ Outcomes \subseteq {"facts", "bare", "failed"}

VARIABLES
  canary,    (* the canary's row: status and analysisBatchId               *)
  launch,    (* the message of the canary's job is in its queue            *)
  run,       (* the canary's job: where it is, its batch, slots to publish *)
  chain,     (* per batch, the candidates of its plan (None: no batch)     *)
  slot,      (* per batch and slot, the record of the slot                 *)
  fin,       (* per batch, finalizationStatus                              *)
  manifest,  (* per batch, the manifest attached: per slot a fight or None *)
  queued,    (* messages of slots in the queue, due or delayed             *)
  tries,     (* per batch and slot, deliveries that were deferred          *)
  job,       (* the slot job: where it is, its slot, candidates to try,    *)
             (*   identities it takes for occupied, what it acquired       *)
  finalize,  (* messages of the fan-in                                     *)
  sent,      (* batches with a live job row for the fan-in                 *)
  fanin,     (* the fan-in job: where it is, its batch                     *)
  faults

batches  == <<chain, slot, fin, manifest>>
slotWork == <<queued, tries, job>>
vars     == <<canary, launch, run, batches, slotWork, finalize, sent, fanin, faults>>

Fresh    == [status |-> "PENDING", reserved |-> None, key |-> None, facts |-> "none"]
Terminal == {"ACQUIRED", "UNAVAILABLE", "FAILED"}  \* SUCCEEDED and PARTIAL: ACQUIRED
Idle     == [pc |-> "idle", b |-> None, s |-> 0, rest |-> <<>>, busy |-> {}, got |-> "none"]

Init ==
  /\ canary = [status |-> "QUEUED", batch |-> None] /\ launch = TRUE
  /\ run = [pc |-> "idle", b |-> None, left |-> {}]
  /\ chain = [b \in Batch |-> None]
  /\ slot = [b \in Batch |-> [s \in Slot |-> Fresh]]
  /\ fin = [b \in Batch |-> "PENDING"] /\ manifest = [b \in Batch |-> None]
  /\ queued = {} /\ tries = [b \in Batch |-> [s \in Slot |-> 0]] /\ job = Idle
  /\ finalize = {} /\ sent = {} /\ fanin = [pc |-> "idle", b |-> None]
  /\ faults = 0

Fault   == faults < MaxFaults /\ faults' = faults + 1
NoFault == UNCHANGED faults

----------------------------------------------------------------------------
(* The canary's job. *)

RunKept    == UNCHANGED <<canary, launch, run>>
SlotsKept  == UNCHANGED slotWork
FanInKept  == UNCHANGED <<finalize, sent, fanin>>
RunEnds    == run' = [pc |-> "idle", b |-> None, left |-> {}]
Leaves(st) == canary' = [canary EXCEPT !.status = st] /\ RunEnds

(* A canary that completed meanwhile is left alone. *)
StartRun ==
  /\ run.pc = "idle" /\ launch
  /\ launch' = FALSE
  /\ IF canary.status = "COMPLETED" THEN UNCHANGED <<canary, run>>
     ELSE /\ canary' = [canary EXCEPT !.status = "RUNNING"]
          /\ run' = [run EXCEPT !.pc = "planning"]
  /\ UNCHANGED <<batches, faults>> /\ SlotsKept /\ FanInKept

(* A new batch, with the chain that was discovered: every run makes one. *)
Plan(b) ==
  /\ run.pc = "planning" /\ chain[b] = None
  /\ \E c \in Chains : chain' = [chain EXCEPT ![b] = c]
  /\ run' = [pc |-> "publishing", b |-> b, left |-> Slot]
  /\ UNCHANGED <<canary, launch, slot, fin, manifest, faults>> /\ SlotsKept /\ FanInKept

(* The preview of the rate budget defers the whole plan. *)
Defer(b) ==
  /\ run.pc = "planning" /\ chain[b] = None
  /\ \E c \in Chains : chain' = [chain EXCEPT ![b] = c]
  /\ canary' = [status |-> "FAILED", batch |-> b]
  /\ RunEnds
  /\ UNCHANGED <<launch, slot, fin, manifest, faults>> /\ SlotsKept /\ FanInKept

(* persistAndEnqueue answers a failing queue.add as if it had worked. *)
PublishSlot(s) ==
  /\ run.pc = "publishing" /\ s \in run.left /\ \A t \in run.left : s <= t
  /\ run' = [run EXCEPT !.left = @ \ {s}]
  /\ \/ queued' = queued \cup {<<run.b, s>>} /\ NoFault
     \/ UNCHANGED queued /\ Fault
  /\ UNCHANGED <<canary, launch, batches, tries, job>> /\ FanInKept

EndRun ==
  /\ run.pc = "publishing" /\ run.left = {}
  /\ canary' = [status |-> "RUNNING", batch |-> run.b]
  /\ RunEnds
  /\ UNCHANGED <<launch, batches, faults>> /\ SlotsKept /\ FanInKept

RunFails ==
  /\ run.pc # "idle" /\ Fault /\ Leaves("FAILED")
  /\ UNCHANGED <<launch, batches>> /\ SlotsKept /\ FanInKept

----------------------------------------------------------------------------
(* The job of a slot. *)

Siblings(s)     == Slot \ {s}
OccupiedReserved(b, s) ==                \* mutant: what siblings acquired is free
  {slot[b][t].reserved : t \in Siblings(s)}
Occupied(b, s)  == {slot[b][t].key : t \in Siblings(s)} \cup {slot[b][t].reserved : t \in Siblings(s)}
AlmostDone(r)   ==                       \* mutant: the slot itself is not counted
  Cardinality({s \in Slot : r[s].status \in Terminal}) >= N - 1
Done(r)         == \A s \in Slot : r[s].status \in Terminal
Writes(r)       == slot' = [slot EXCEPT ![job.b][job.s] = r]
Mine            == slot[job.b][job.s]
At(pc)          == job.pc = pc
Goes(pc)        == job' = [job EXCEPT !.pc = pc]
Ends            == job' = Idle
AsksForNone(pc) ==                       \* mutant: for no batch
  job' = [Idle EXCEPT !.pc = pc]
Asks(pc)        == job' = [Idle EXCEPT !.pc = pc, !.b = job.b, !.s = job.s]
InSlotJob       == RunKept /\ UNCHANGED <<chain, manifest>>

(* The compare-and-set of a slot, with the view the job works from. *)
ClaimSlot(b, s) ==
  /\ At("idle") /\ <<b, s>> \in queued /\ slot[b][s].status = "PENDING"
  /\ queued' = queued \ {<<b, s>>}
  /\ slot' = [slot EXCEPT ![b][s].status = "RUNNING"]
  /\ fin' = [fin EXCEPT ![b] = "PENDING"]
  /\ job' = [Idle EXCEPT !.pc = "claimed", !.b = b, !.s = s, !.busy = Occupied(b, s)]
  /\ UNCHANGED <<tries, faults>> /\ InSlotJob /\ FanInKept

(* A redelivery finds the slot ended or claimed: the message is consumed.  *)
IgnoreSlot(b, s) ==
  /\ At("idle") /\ <<b, s>> \in queued /\ slot[b][s].status # "PENDING"
  /\ queued' = queued \ {<<b, s>>}
  /\ UNCHANGED <<slot, fin, tries, job, faults>> /\ InSlotJob /\ FanInKept

(* No per-character permit: the claim is released and the message delayed, *)
(* until its attempts are used up.                                         *)
Refuse ==
  /\ At("claimed") /\ chain[job.b] # <<>>
  /\ Writes([Mine EXCEPT !.status = "PENDING", !.reserved = None])
  /\ tries' = [tries EXCEPT ![job.b][job.s] = @ + 1]
  /\ queued' = IF tries[job.b][job.s] + 1 < Attempts THEN queued \cup {<<job.b, job.s>>}
                                                     ELSE queued
  /\ Ends
  /\ UNCHANGED <<fin, faults>> /\ InSlotJob /\ FanInKept

Permit ==
  /\ At("claimed") /\ chain[job.b] # <<>>
  /\ job' = [job EXCEPT !.pc = "trying", !.rest = chain[job.b]]
  /\ UNCHANGED <<slot, fin, queued, tries, faults>> /\ InSlotJob /\ FanInKept

(* DUPLICATE_REPORT_FIGHT: by the view, or by the rows when reserving.     *)
Skip ==
  /\ At("trying") /\ job.rest # <<>>
  /\ Head(job.rest) \in job.busy \cup Occupied(job.b, job.s)
  /\ job' = [job EXCEPT !.rest = Tail(@)]
  /\ UNCHANGED <<slot, fin, queued, tries, faults>> /\ InSlotJob /\ FanInKept

Reserve ==
  /\ At("trying") /\ job.rest # <<>>
  /\ Head(job.rest) \notin job.busy \cup Occupied(job.b, job.s)
  /\ Writes([Mine EXCEPT !.reserved = Head(job.rest)])
  /\ Goes("fetching")
  /\ UNCHANGED <<fin, queued, tries, faults>> /\ InSlotJob /\ FanInKept

Acquire(outcome) ==
  /\ At("fetching") /\ outcome # "failed"
  /\ job' = [job EXCEPT !.pc = "acquired", !.got = outcome]
  /\ UNCHANGED <<slot, fin, queued, tries, faults>> /\ InSlotJob /\ FanInKept

FallBack ==
  /\ At("fetching") /\ "failed" \in Outcomes
  /\ Writes([Mine EXCEPT !.reserved = None])
  /\ job' = [job EXCEPT !.pc = "trying", !.rest = Tail(@)]
  /\ UNCHANGED <<fin, queued, tries, faults>> /\ InSlotJob /\ FanInKept

(* completeSlot: the record, the recount, and whether the batch is ready.  *)
CompletesUncounted(status, key, next) == \* mutant: counted before the record
  /\ Writes([Mine EXCEPT !.status = status, !.reserved = None, !.key = key, !.facts = job.got])
  /\ LET done == Done(slot[job.b]) IN
     /\ fin' = [fin EXCEPT ![job.b] = IF done THEN "READY_TO_FINALIZE" ELSE "PENDING"]
     /\ IF done THEN Asks(next) ELSE Ends
  /\ UNCHANGED <<queued, tries>> /\ InSlotJob /\ FanInKept
Completes(status, key, next) ==
  LET r == [Mine EXCEPT !.status = status, !.reserved = None,
                        !.key = key, !.facts = job.got]
  IN  /\ Writes(r)
      /\ LET done == Done([slot[job.b] EXCEPT ![job.s] = r]) IN
         /\ fin' = [fin EXCEPT ![job.b] = IF done THEN "READY_TO_FINALIZE" ELSE "PENDING"]
         /\ IF done THEN Asks(next) ELSE Ends
  /\ UNCHANGED <<queued, tries>> /\ InSlotJob /\ FanInKept

CompleteAcquired ==
  At("acquired") /\ Completes("ACQUIRED", Head(job.rest), "ready") /\ NoFault

(* An exhausted chain is recorded under its last candidate. *)
CompleteExhausted ==
  /\ At("trying") /\ job.rest = <<>>
  /\ Completes("UNAVAILABLE", chain[job.b][Len(chain[job.b])], "ready") /\ NoFault

CompleteEmpty ==
  At("claimed") /\ chain[job.b] = <<>> /\ Completes("UNAVAILABLE", Mine.key, "ready") /\ NoFault

(* What is thrown once the permit was asked for ends the slot as FAILED,   *)
(* and the handler asks for the fan-in itself.  A character that has lost  *)
(* its name or realm ends it before, and nobody asks.                      *)
CompleteFailed ==
  /\ job.pc \in {"claimed", "trying", "fetching", "acquired"} /\ chain[job.b] # <<>>
  /\ Fault
  /\ LET r == [Mine EXCEPT !.status = "FAILED", !.reserved = None] IN
     /\ Writes(r)
     /\ LET done == Done([slot[job.b] EXCEPT ![job.s] = r]) IN
        /\ fin' = [fin EXCEPT ![job.b] = IF done THEN "READY_TO_FINALIZE" ELSE "PENDING"]
        /\ \/ IF done THEN Asks("again") ELSE Ends
           \/ At("claimed") /\ Ends
  /\ UNCHANGED <<queued, tries>> /\ InSlotJob /\ FanInKept

(* The fan-in's message, unless its job row is live already. *)
AskFanIn ==
  /\ job.pc \in {"ready", "again"} /\ Ends
  /\ finalize' = IF job.b \in sent THEN finalize ELSE finalize \cup {job.b}
  /\ sent' = sent \cup {job.b}
  /\ UNCHANGED <<slot, fin, queued, tries, fanin, faults>> /\ InSlotJob

AskLost ==
  /\ job.pc \in {"ready", "again"} /\ job.b \notin sent /\ Fault /\ Ends
  /\ UNCHANGED <<slot, fin, queued, tries>> /\ InSlotJob /\ FanInKept

(* The claim of the job row throws: the handler finds the slot ended and   *)
(* asks once more; of a slot without candidates nothing is caught.         *)
AskThrows ==
  /\ job.pc \in {"ready", "again"} /\ Fault
  /\ IF At("ready") /\ chain[job.b] # <<>> THEN Goes("again") ELSE Ends
  /\ UNCHANGED <<slot, fin, queued, tries>> /\ InSlotJob /\ FanInKept

(* The lock of the message lapses while its job runs on. *)
Stall ==
  /\ ~At("idle") /\ Fault
  /\ queued' = queued \cup {<<job.b, job.s>>}
  /\ UNCHANGED <<slot, fin, tries, job>> /\ InSlotJob /\ FanInKept

----------------------------------------------------------------------------
(* The fan-in. *)

InFanIn      == RunKept /\ SlotsKept /\ UNCHANGED <<chain, slot, sent>>
FanInAt(pc)  == fanin.pc = pc
FanInTo(pc)  == fanin' = [fanin EXCEPT !.pc = pc]
FanInEnds    == fanin' = [pc |-> "idle", b |-> None]
Claimable(b) == fin[b] \in {"PENDING", "READY_TO_FINALIZE"} /\ Done(slot[b])

ClaimFanIn(b) ==
  /\ FanInAt("idle") /\ b \in finalize /\ finalize' = finalize \ {b}
  /\ IF Claimable(b)
     THEN fin' = [fin EXCEPT ![b] = "FINALIZING"] /\ fanin' = [pc |-> "freezing", b |-> b]
     ELSE UNCHANGED <<fin, fanin>>
  /\ UNCHANGED <<manifest, faults>> /\ InFanIn

(* finalizeEvidenceManifestV2: every slot takes the first candidate of the *)
(* chain that was acquired with facts and that no earlier slot took, that  *)
(* is, the i-th slot the i-th of them in the order of first occurrence.    *)
Usable(b)       == {slot[b][s].key : s \in {t \in Slot : slot[b][t].facts = "facts"}}
Rank(b, k)      == Cardinality({x \in Usable(b) : \E i \in DOMAIN chain[b] : chain[b][i] = x
                                  /\ \A j \in DOMAIN chain[b] : chain[b][j] = k => i <= j})
SelectedByKey(b) == [s \in Slot |-> IF slot[b][s].key = None \* mutant: the recorded key
                                    THEN None ELSE slot[b][s].key]

Selected(b)     == [s \in Slot |-> IF \E k \in Usable(b) : Rank(b, k) = s
                                   THEN CHOOSE k \in Usable(b) : Rank(b, k) = s
                                   ELSE None]

(* Frozen once; a manifest attached by an earlier attempt is used. *)
Freeze ==
  /\ FanInAt("freezing")
  /\ manifest' = [manifest EXCEPT ![fanin.b] = IF @ = None THEN Selected(fanin.b) ELSE @]
  /\ FanInTo("binding")
  /\ UNCHANGED <<fin, finalize, faults>> /\ InFanIn

(* Facts and datasets of a slot go to the manifest's slot of their fight.  *)
Bindable(b) == \A s \in Slot : slot[b][s].facts # "none" =>
                 \E t \in Slot : manifest[b][t] = slot[b][s].key

Bind ==
  /\ FanInAt("binding") /\ Bindable(fanin.b) /\ FanInTo("finishing")
  /\ UNCHANGED <<manifest, fin, finalize, faults>> /\ InFanIn

(* The claim is released; the message had one attempt. *)
FanInFails ==
  /\ fanin.pc \in {"freezing", "binding", "finishing"}
  /\ IF FanInAt("binding") /\ ~Bindable(fanin.b) THEN NoFault ELSE Fault
  /\ fin' = [fin EXCEPT ![fanin.b] = "READY_TO_FINALIZE"] /\ FanInEnds
  /\ UNCHANGED <<manifest, finalize>> /\ InFanIn

Finish ==
  /\ FanInAt("finishing")
  /\ fin' = [fin EXCEPT ![fanin.b] = "FINALIZED"] /\ FanInTo("reporting")
  /\ UNCHANGED <<manifest, finalize, faults>> /\ InFanIn

Report ==
  /\ FanInAt("reporting")
  /\ canary' = [status |-> "COMPLETED", batch |-> fanin.b] /\ FanInEnds
  /\ UNCHANGED <<launch, run, batches, finalize, sent, faults>> /\ SlotsKept

(* The canary's row cannot be written; the batch is finalized all the same.*)
ReportFails ==
  /\ FanInAt("reporting") /\ Fault /\ FanInEnds
  /\ UNCHANGED <<manifest, fin, finalize>> /\ InFanIn

----------------------------------------------------------------------------
(* The worker process dies: its jobs' messages are delivered again, or end *)
(* as failed when they stalled before.                                     *)
Crash ==
  /\ Fault /\ (run.pc # "idle" \/ ~At("idle") \/ ~FanInAt("idle"))
  /\ \E again \in BOOLEAN :
     /\ launch' = (launch \/ (again /\ run.pc # "idle"))
     /\ queued' = IF again /\ ~At("idle") THEN queued \cup {<<job.b, job.s>>} ELSE queued
     /\ finalize' = IF again /\ ~FanInAt("idle") THEN finalize \cup {fanin.b} ELSE finalize
  /\ RunEnds /\ Ends /\ FanInEnds
  /\ UNCHANGED <<canary, batches, tries, sent>>

Runs == StartRun \/ (\E b \in Batch : Plan(b)) \/ (\E s \in Slot : PublishSlot(s)) \/ EndRun

Acquires ==
  \/ \E b \in Batch, s \in Slot : ClaimSlot(b, s) \/ IgnoreSlot(b, s)
  \/ Permit \/ Skip \/ Reserve \/ FallBack \/ \E o \in Outcomes : Acquire(o)
  \/ CompleteAcquired \/ CompleteExhausted \/ CompleteEmpty \/ AskFanIn

FansIn ==
  (\E b \in Batch : ClaimFanIn(b)) \/ Freeze \/ Bind \/ FanInFails \/ Finish \/ Report

Next ==
  \/ Runs \/ (\E b \in Batch : Defer(b)) \/ RunFails
  \/ Acquires \/ Refuse \/ CompleteFailed \/ AskLost \/ AskThrows \/ Stall
  \/ FansIn \/ ReportFails
  \/ Crash

Spec     == Init /\ [][Next]_vars
FairSpec == Spec /\ WF_vars(Runs) /\ WF_vars(Acquires) /\ WF_vars(FansIn)

----------------------------------------------------------------------------
(* Properties. *)

SlotRecord == [status : {"PENDING", "RUNNING"} \cup Terminal, reserved : Key \cup {None},
               key : Key \cup {None}, facts : {"none", "facts", "bare"}]
JobRecord  == [pc : {"idle", "claimed", "trying", "fetching", "acquired", "ready", "again"},
               b : Batch \cup {None}, s : 0..N, rest : Seq(Key),
               busy : SUBSET (Key \cup {None}), got : {"none", "facts", "bare"}]
FanInRecord == [pc : {"idle", "freezing", "binding", "finishing", "reporting"},
                b : Batch \cup {None}]

TypeOK ==
  /\ canary \in [status : {"QUEUED", "RUNNING", "COMPLETED", "FAILED"}, batch : Batch \cup {None}]
  /\ launch \in BOOLEAN
  /\ run \in [pc : {"idle", "planning", "publishing"}, b : Batch \cup {None}, left : SUBSET Slot]
  /\ chain \in [Batch -> Chains \cup {None}]
  /\ slot \in [Batch -> [Slot -> SlotRecord]]
  /\ fin \in [Batch -> {"PENDING", "READY_TO_FINALIZE", "FINALIZING", "FINALIZED"}]
  /\ manifest \in [Batch -> [Slot -> Key \cup {None}] \cup {None}]
  /\ queued \subseteq Batch \X Slot /\ tries \in [Batch -> [Slot -> Nat]]
  /\ job \in JobRecord /\ (job.pc # "idle" => job.b \in Batch /\ job.s \in Slot)
  /\ finalize \subseteq Batch /\ sent \subseteq Batch
  /\ fanin \in FanInRecord /\ (fanin.pc # "idle" => fanin.b \in Batch)
  /\ faults \in Nat

(* No fight is evidence for two slots, though the slots share their chain, *)
(* fail, are retried and are resumed from views of their siblings.         *)
DistinctEvidence ==
  \A b \in Batch : \A s, t \in Slot :
    s # t /\ slot[b][s].facts # "none" /\ slot[b][t].facts # "none" => slot[b][s].key # slot[b][t].key

(* The fan-in chooses anew from the chain, and ends with the very fights   *)
(* that slots acquired with facts: what was extracted has a manifest slot. *)
ManifestAgrees ==
  \A b \in Batch : manifest[b] # None =>
    {manifest[b][s] : s \in Slot} \ {None} = Usable(b)

(* The JSON of a batch has one writer: while the fan-in is at work on it,  *)
(* no job of its slots is, whatever was redelivered.                       *)
OneWriter ==
  ~FanInAt("idle") => ~(job.b = fanin.b /\ job.pc \in {"claimed", "trying", "fetching", "acquired"})

(* A batch does what EvidenceAssignment promises, whatever is redelivered  *)
(* or fails: slots end once and apart, all of them before the manifest is  *)
(* chosen, the manifest once and whole, and finalization comes after it.   *)
OverSlots == [b \in Batch |-> {s \in Slot : slot[b][s].status \in Terminal}]
Holds     == [b \in Batch |-> [s \in Slot |-> IF slot[b][s].facts = "none" THEN None
                                              ELSE slot[b][s].key]]
WithFacts == [b \in Batch |-> {s \in Slot : slot[b][s].facts = "facts"}]
Frozen    == {b \in Batch : manifest[b] # None}
Chosen    == [b \in Batch |-> IF manifest[b] = None THEN {}
                              ELSE {manifest[b][s] : s \in Slot} \ {None}]
Finalized == {b \in Batch : fin[b] = "FINALIZED"}
Assignment == INSTANCE EvidenceAssignment
  WITH Fight <- Key, Nothing <- None, ended <- OverSlots, holds <- Holds, usable <- WithFacts,
       frozen <- Frozen, chosen <- Chosen, final <- Finalized
AssignmentRefined == Assignment!AssignmentSpec

(* The canary is shown as completed with a batch that is finalized. *)
CompletedIsFinal ==
  canary.status = "COMPLETED" => canary.batch \in Batch /\ fin[canary.batch] = "FINALIZED"

(* Redeliveries undo nothing: a slot that ended, a manifest that was       *)
(* attached and a batch that is finalized stay as they are.                *)
SettledStays ==
  [][\A b \in Batch :
       /\ \A s \in Slot : slot[b][s].status \in Terminal => slot'[b][s] = slot[b][s]
       /\ manifest[b] # None => manifest'[b] = manifest[b]
       /\ fin[b] = "FINALIZED" => fin'[b] = "FINALIZED"]_vars

(* While nothing fails, no slot runs out of attempts and no fight is       *)
(* acquired without facts, a batch that was fanned out is finalized.       *)
BatchFinalizes ==
  \A b \in Batch :
    (run.pc = "publishing" /\ run.b = b)
      ~> \/ fin[b] = "FINALIZED" \/ faults > 0
         \/ \E s \in Slot : tries[b][s] >= Attempts \/ slot[b][s].facts = "bare"

(* "release FINALIZING -> READY_TO_FINALIZE and fail the job so redelivery *)
(* can reclaim" (finalize.ts:38).  It does not hold: the message of the    *)
(* fan-in has one attempt, so nothing delivers it again.                   *)
ReleasedIsReclaimed ==
  \A b \in Batch : (fin[b] = "READY_TO_FINALIZE") ~> (fin[b] = "FINALIZED")

(* A candidate is skipped as "already selected for another slot"           *)
(* (acquisition.ts:455) only when a sibling holds it.  It does not hold: a *)
(* chain that is exhausted is recorded under its last candidate.           *)
SkipsOnlyTaken ==
  [][Skip => \E t \in Siblings(job.s) :
       \/ slot[job.b][t].reserved = Head(job.rest)
       \/ slot[job.b][t].key = Head(job.rest) /\ slot[job.b][t].facts # "none"]_vars

(* A canary whose batch is finalized is shown as completed. It does not    *)
(* hold: the run that published the slots writes RUNNING when it ends.     *)
CompletedStays ==
  [][canary.status = "COMPLETED" => canary'.status = "COMPLETED"]_vars
=============================================================================
