------------------------ MODULE EvidenceSlotsProofs ------------------------
(***************************************************************************)
(* Proofs about EvidenceSlots.  A slot that a job works on is RUNNING and  *)
(* has no facts (Owned), so its batch is not done and the fan-in is not at *)
(* work (Gathered); what the siblings of one dungeon hold, reserved or     *)
(* acquired, is apart (Apart).  Planned says that messages and jobs are of *)
(* batches that have a plan.                                               *)
(***************************************************************************)
EXTENDS EvidenceSlots, FiniteSetTheorems, WellFoundedInduction, TLAPS

Working == job.pc \in {"claimed", "trying", "fetching", "acquired"}

Planned ==
  /\ \A b \in Batch, s \in Slot : <<b, s>> \in queued => chain[b] # None
  /\ run.pc = "publishing" => run.b \in Batch /\ chain[run.b] # None
  /\ job.pc # "idle" => chain[job.b] # None
  /\ job.pc \in {"trying", "fetching", "acquired"} => chain[job.b] # <<>>

Owned ==
  /\ Working => Mine.status = "RUNNING"
  /\ Working /\ job.pc # "acquired" => job.got = "none"
  /\ job.pc \in {"fetching", "acquired"} => job.rest # <<>> /\ Mine.reserved = Head(job.rest)
  /\ \A b \in Batch, s \in Slot : slot[b][s].status \notin Terminal => slot[b][s].facts = "none"
  /\ \A b \in Batch, s \in Slot : slot[b][s].facts # "none" => slot[b][s].key \in Key

Gathered ==
  /\ \A b \in Batch : fin[b] # "PENDING" => Done(slot[b])
  /\ fanin.pc \in {"freezing", "binding", "finishing"} => fin[fanin.b] = "FINALIZING"
  /\ FanInAt("reporting") => fin[fanin.b] = "FINALIZED"

Takes(r, k) == k # None /\ (r.reserved = k \/ (r.key = k /\ r.facts # "none"))
Apart ==
  \A b \in Batch : \A s, t \in Slot : \A k \in Key :
    Takes(slot[b][s], k) /\ Takes(slot[b][t], k) => s = t

IInv == TypeOK /\ Planned /\ Owned /\ Gathered /\ Apart /\ CompletedIsFinal

LEMMA Bits ==
  /\ None \notin Key /\ None \notin Batch /\ None \notin Chains
  /\ Chains \subseteq Seq(Key)
BY SlotsAssumption

(* The record that a step of a slot's job writes is of the type of slots. *)
LEMMA SlotTyped ==
  ASSUME TypeOK, job.pc # "idle", NEW r \in SlotRecord
  PROVE  [slot EXCEPT ![job.b][job.s] = r] \in [Batch -> [Slot -> SlotRecord]]
BY DEF TypeOK

LEMMA ChainTyped == TypeOK => \A b \in Batch : chain[b] # None => chain[b] \in Seq(Key)
BY Bits DEF TypeOK

LEMMA RestTyped ==
  ASSUME TypeOK, job.rest # <<>>
  PROVE  Head(job.rest) \in Key /\ Tail(job.rest) \in Seq(Key)
BY DEF TypeOK, JobRecord

LEMMA JobFields ==
  TypeOK => /\ job.b \in Batch \cup {None} /\ job.s \in 0..N /\ job.rest \in Seq(Key)
            /\ job.busy \in SUBSET (Key \cup {None}) /\ job.got \in {"none", "facts", "bare"}
BY DEF TypeOK, JobRecord

LEMMA MineTyped == TypeOK /\ job.pc # "idle" => Mine \in SlotRecord
BY DEF TypeOK, Mine

LEMMA LastTyped == ASSUME NEW c \in Seq(Key), c # <<>> PROVE c[Len(c)] \in Key
<1>1. Len(c) \in 1..Len(c) /\ \A i \in 1..Len(c) : c[i] \in Key
  OBVIOUS
<1> QED BY <1>1

----------------------------------------------------------------------------
LEMMA IdleTyped == Idle \in JobRecord
BY SlotsAssumption DEF Idle, JobRecord

LEMMA AsksTyped ==
  ASSUME TypeOK, NEW pc \in {"ready", "again"}, Asks(pc)
  PROVE  job' \in JobRecord /\ job'.pc = pc /\ job'.b = job.b /\ job'.s = job.s
<1>1. job' = [pc |-> pc, b |-> job.b, s |-> job.s, rest |-> <<>>, busy |-> {}, got |-> "none"]
  BY DEF Asks, Idle
<1>2. <<>> \in Seq(Key) /\ job.b \in Batch \cup {None} /\ job.s \in 0..N
  BY JobFields
<1> QED BY <1>1, <1>2 DEF JobRecord

LEMMA ClaimTyped ==
  ASSUME NEW b \in Batch, NEW s \in 0..N, NEW busy \in SUBSET (Key \cup {None})
  PROVE  [pc |-> "claimed", b |-> b, s |-> s, rest |-> <<>>, busy |-> busy, got |-> "none"] \in JobRecord
BY DEF JobRecord

LEMMA ClaimIs ==
  ASSUME NEW b, NEW s, NEW busy,
         job' = [Idle EXCEPT !.pc = "claimed", !.b = b, !.s = s, !.busy = busy]
  PROVE  job' = [pc |-> "claimed", b |-> b, s |-> s, rest |-> <<>>, busy |-> busy, got |-> "none"]
BY DEF Idle

(* completeSlot keeps the types. *)
LEMMA CompletesTyped ==
  ASSUME TypeOK, job.pc # "idle", NEW status \in Terminal, NEW key \in Key \cup {None},
         Completes(status, key, "ready"), NoFault
  PROVE  TypeOK'
<1> USE DEF NoFault, FanInKept, InSlotJob, RunKept
<1>1. [Mine EXCEPT !.status = status, !.reserved = None, !.key = key, !.facts = job.got] \in SlotRecord
  BY MineTyped, JobFields DEF SlotRecord
<1>2. slot' \in [Batch -> [Slot -> SlotRecord]]
  BY <1>1, SlotTyped DEF Completes, Writes
<1>3. /\ job' \in JobRecord
      /\ job'.pc # "idle" => job'.b = job.b /\ job'.s = job.s
  <2>1. CASE Asks("ready")
    BY <2>1, AsksTyped
  <2>2. CASE Ends
    BY <2>2, IdleTyped DEF Ends, Idle
  <2> QED BY <2>1, <2>2 DEF Completes
<1>4. fin' \in [Batch -> {"PENDING", "READY_TO_FINALIZE", "FINALIZING", "FINALIZED"}]
  BY DEF Completes, TypeOK
<1> QED BY <1>2, <1>3, <1>4 DEF Completes, TypeOK

(* Every step keeps the types. *)
LEMMA TypeKept ==
  ASSUME TypeOK, Planned, Owned, [Next]_vars
  PROVE  TypeOK'
<1> USE Bits, SlotsAssumption DEF vars, batches, slotWork, RunKept, SlotsKept, FanInKept, RunEnds,
       Leaves, InSlotJob, InFanIn,       FanInAt, FanInTo, FanInEnds, At, Goes, Ends, Asks, Mine, Writes, Idle
<1>1. CASE StartRun
  <2>1. CASE canary.status = "COMPLETED"
    BY <1>1, <2>1 DEF StartRun, TypeOK
  <2>2. CASE canary.status # "COMPLETED"
    <3>1. canary' \in [status : {"QUEUED", "RUNNING", "COMPLETED", "FAILED"}, batch : Batch \cup {None}]
      <4>1. canary' = [canary EXCEPT !.status = "RUNNING"]
        BY <1>1, <2>2 DEF StartRun
      <4> QED BY <4>1 DEF TypeOK
    <3>2. run' \in [pc : {"idle", "planning", "publishing"}, b : Batch \cup {None}, left : SUBSET Slot]
      BY <1>1, <2>2 DEF StartRun, TypeOK
    <3> QED BY <1>1, <3>1, <3>2 DEF StartRun, TypeOK
  <2> QED BY <2>1, <2>2
<1>2. CASE EndRun
  BY <1>2 DEF EndRun, TypeOK
<1>3. CASE RunFails
  <2>1. canary' \in [status : {"QUEUED", "RUNNING", "COMPLETED", "FAILED"}, batch : Batch \cup {None}]
    BY <1>3 DEF RunFails, TypeOK
  <2>2. run' \in [pc : {"idle", "planning", "publishing"}, b : Batch \cup {None}, left : SUBSET Slot]
    BY <1>3 DEF RunFails
  <2> QED BY <1>3, <2>1, <2>2 DEF RunFails, Fault, TypeOK
<1>4. CASE Refuse
  <2>1. [Mine EXCEPT !.status = "PENDING", !.reserved = None] \in SlotRecord
    BY <1>4, MineTyped DEF Refuse, SlotRecord
  <2>2. slot' \in [Batch -> [Slot -> SlotRecord]]
    BY <1>4, <2>1, SlotTyped DEF Refuse
  <2> QED BY <1>4, <2>2 DEF Refuse, TypeOK, JobRecord
<1>5. CASE Permit
  BY <1>5, ChainTyped DEF Permit, TypeOK, Planned, JobRecord
<1>6. CASE Skip
  BY <1>6, RestTyped, JobFields DEF Skip, TypeOK, JobRecord
<1>7. CASE Reserve
  <2>1. [Mine EXCEPT !.reserved = Head(job.rest)] \in SlotRecord
    BY <1>7, MineTyped, RestTyped DEF Reserve, SlotRecord
  <2>2. slot' \in [Batch -> [Slot -> SlotRecord]]
    BY <1>7, <2>1, SlotTyped DEF Reserve
  <2>3. job' \in JobRecord /\ job'.b = job.b /\ job'.s = job.s
    BY <1>7 DEF Reserve, TypeOK, JobRecord
  <2> QED BY <1>7, <2>2, <2>3 DEF Reserve, TypeOK
<1>8. CASE FallBack
  <2>1. [Mine EXCEPT !.reserved = None] \in SlotRecord
    BY <1>8, MineTyped DEF FallBack, SlotRecord
  <2>2. slot' \in [Batch -> [Slot -> SlotRecord]]
    BY <1>8, <2>1, SlotTyped DEF FallBack
  <2>3. job' \in JobRecord /\ job'.b = job.b /\ job'.s = job.s
    <3>1. job.rest # <<>>
      BY <1>8 DEF FallBack, Owned
    <3> QED BY <1>8, <3>1, RestTyped DEF FallBack, JobRecord, TypeOK
  <2> QED BY <1>8, <2>2, <2>3 DEF FallBack, TypeOK
<1>9. CASE CompleteAcquired
  BY <1>9, RestTyped, CompletesTyped DEF CompleteAcquired, Completes, NoFault, Owned, Terminal
<1>10. CASE CompleteExhausted
  BY <1>10, ChainTyped, LastTyped, CompletesTyped DEF CompleteExhausted, Completes, NoFault, Planned, TypeOK, Terminal
<1>11. CASE CompleteEmpty
  BY <1>11, MineTyped, CompletesTyped DEF CompleteEmpty, Completes, NoFault, SlotRecord, Terminal
<1>12. CASE CompleteFailed
  <2>1. [Mine EXCEPT !.status = "FAILED", !.reserved = None] \in SlotRecord
    BY <1>12, MineTyped DEF CompleteFailed, SlotRecord, Terminal
  <2>2. slot' \in [Batch -> [Slot -> SlotRecord]]
    BY <1>12, <2>1, SlotTyped DEF CompleteFailed
  <2>3. job' \in JobRecord /\ (job'.pc # "idle" => job'.b = job.b /\ job'.s = job.s /\ job.pc # "idle")
    <3>1. CASE Asks("again")
      BY <1>12, <3>1, AsksTyped DEF CompleteFailed
    <3>2. CASE job' = Idle
      BY <3>2, IdleTyped
    <3> QED BY <1>12, <3>1, <3>2 DEF CompleteFailed
  <2>4. UNCHANGED <<canary, launch, run, chain, manifest, queued, tries, finalize, sent, fanin>>
    BY <1>12 DEF CompleteFailed
  <2>5. fin' \in [Batch -> {"PENDING", "READY_TO_FINALIZE", "FINALIZING", "FINALIZED"}] /\ faults' \in Nat
    BY <1>12 DEF CompleteFailed, Fault, TypeOK
  <2> QED BY <2>2, <2>3, <2>4, <2>5 DEF TypeOK
<1>13. CASE AskFanIn
  BY <1>13 DEF AskFanIn, TypeOK, Terminal, JobRecord, FanInRecord
<1>14. CASE AskLost
  BY <1>14 DEF AskLost, Fault, TypeOK, Terminal, JobRecord, FanInRecord
<1>15. CASE AskThrows
  <2>1. job' \in JobRecord /\ (job'.pc # "idle" => job'.b = job.b /\ job'.s = job.s)
    <3>1. CASE Goes("again")
      BY <1>15, <3>1, JobFields DEF JobRecord, TypeOK
    <3>2. CASE job' = Idle
      BY <3>2, IdleTyped
    <3> QED BY <1>15, <3>1, <3>2 DEF AskThrows
  <2> QED BY <1>15, <2>1 DEF AskThrows, Fault, TypeOK
<1>16. CASE Stall
  BY <1>16 DEF Stall, Fault, TypeOK, Terminal, JobRecord, FanInRecord
<1>17. CASE Freeze
  <2>1. \A b \in Batch : Usable(b) \subseteq Key \cup {None}
    BY DEF Usable, TypeOK, SlotRecord
  <2>2. \A b \in Batch : Selected(b) \in [Slot -> Key \cup {None}]
    <3> SUFFICES ASSUME NEW b \in Batch, NEW s \in Slot, \E k \in Usable(b) : Rank(b, k) = s
                 PROVE  (CHOOSE k \in Usable(b) : Rank(b, k) = s) \in Key \cup {None}
      BY DEF Selected
    <3> QED BY <2>1
  <2>3. fanin' \in FanInRecord /\ fanin'.b = fanin.b /\ fanin.b \in Batch
    BY <1>17 DEF Freeze, TypeOK, FanInRecord
  <2> QED BY <1>17, <2>2, <2>3 DEF Freeze, TypeOK
<1>18. CASE Bind
  BY <1>18 DEF Bind, TypeOK, FanInRecord
<1>19. CASE FanInFails
  BY <1>19 DEF FanInFails, Fault, NoFault, TypeOK, Terminal, JobRecord, FanInRecord
<1>20. CASE Finish
  BY <1>20 DEF Finish, TypeOK, FanInRecord
<1>21. CASE Report
  BY <1>21 DEF Report, TypeOK, Terminal, JobRecord, FanInRecord
<1>22. CASE ReportFails
  BY <1>22 DEF ReportFails, Fault, TypeOK, Terminal, JobRecord, FanInRecord
<1>23. CASE Crash
  <2>1. run' = [pc |-> "idle", b |-> None, left |-> {}] /\ job' = Idle /\ fanin' = [pc |-> "idle", b |-> None]
    BY <1>23 DEF Crash
  <2>2. launch' \in BOOLEAN /\ queued' \subseteq Batch \X Slot /\ finalize' \subseteq Batch /\ faults' \in Nat
    BY <1>23 DEF Crash, Fault, TypeOK
  <2>3. UNCHANGED <<canary, chain, slot, fin, manifest, tries, sent>>
    BY <1>23 DEF Crash
  <2> QED BY <2>1, <2>2, <2>3, IdleTyped DEF TypeOK, FanInRecord
<1>24. ASSUME NEW b \in Batch, Plan(b)
     PROVE  TypeOK'
  BY <1>24 DEF Plan, TypeOK
<1>25. ASSUME NEW b \in Batch, Defer(b)
     PROVE  TypeOK'
  BY <1>25 DEF Defer, TypeOK
<1>26. ASSUME NEW b \in Batch, ClaimFanIn(b)
     PROVE  TypeOK'
  <2>1. fanin' \in FanInRecord /\ (fanin'.pc # "idle" => fanin'.b \in Batch)
    BY <1>26 DEF ClaimFanIn, TypeOK, FanInRecord
  <2> QED BY <1>26, <2>1 DEF ClaimFanIn, TypeOK
<1>27. ASSUME NEW s \in Slot, PublishSlot(s)
     PROVE  TypeOK'
  <2>1. run' \in [pc : {"idle", "planning", "publishing"}, b : Batch \cup {None}, left : SUBSET Slot]
    BY <1>27 DEF PublishSlot, TypeOK
  <2>2. queued' \subseteq Batch \X Slot /\ faults' \in Nat
    BY <1>27 DEF PublishSlot, Planned, Fault, NoFault, TypeOK
  <2>3. UNCHANGED <<canary, launch, chain, slot, fin, manifest, tries, job, finalize, sent, fanin>>
    BY <1>27 DEF PublishSlot
  <2> QED BY <2>1, <2>2, <2>3 DEF TypeOK
<1>28. ASSUME NEW b \in Batch, NEW s \in Slot, ClaimSlot(b, s)
     PROVE  TypeOK'
  <2>1. \A t \in Slot : slot[b][t].key \in Key \cup {None} /\ slot[b][t].reserved \in Key \cup {None}
    BY DEF TypeOK, SlotRecord
  <2>2. Occupied(b, s) \in SUBSET (Key \cup {None})
    BY <2>1 DEF Occupied, Siblings
  <2>3. job' \in JobRecord /\ job'.b = b /\ job'.s = s
    <3> DEFINE busy == Occupied(b, s)
    <3>1. s \in 0..N
      BY SlotsAssumption DEF Slot
    <3>2. job' = [pc |-> "claimed", b |-> b, s |-> s, rest |-> <<>>, busy |-> busy, got |-> "none"]
      BY <1>28, ClaimIs DEF ClaimSlot
    <3> QED BY <2>2, <3>1, <3>2, ClaimTyped
  <2>4. slot' \in [Batch -> [Slot -> SlotRecord]]
    <3>1. [slot[b][s] EXCEPT !.status = "RUNNING"] \in SlotRecord
      <4>1. slot[b][s] \in SlotRecord
        BY DEF TypeOK
      <4> QED BY <4>1 DEF SlotRecord
    <3>2. slot' = [slot EXCEPT ![b] = [slot[b] EXCEPT ![s] = [slot[b][s] EXCEPT !.status = "RUNNING"]]]
      BY <1>28 DEF ClaimSlot, TypeOK
    <3> QED BY <3>1, <3>2 DEF TypeOK
  <2> QED BY <1>28, <2>3, <2>4 DEF ClaimSlot, TypeOK
<1>29. ASSUME NEW b \in Batch, NEW s \in Slot, IgnoreSlot(b, s)
     PROVE  TypeOK'
  BY <1>29 DEF IgnoreSlot, TypeOK, Terminal, JobRecord, FanInRecord
<1>30. ASSUME NEW o \in Outcomes, Acquire(o)
     PROVE  TypeOK'
  BY <1>30, JobFields DEF Acquire, TypeOK, JobRecord
<1>31. CASE UNCHANGED vars
  BY <1>31 DEF TypeOK
<1> QED
  BY <1>1, <1>2, <1>3, <1>4, <1>5, <1>6, <1>7, <1>8, <1>9, <1>10, <1>11,
     <1>12, <1>13, <1>14, <1>15, <1>16, <1>17, <1>18, <1>19, <1>20, <1>21,
     <1>22, <1>23, <1>24, <1>25, <1>26, <1>27, <1>28, <1>29, <1>30, <1>31
  DEF Next, Runs, Acquires, FansIn

(* What a step that ends a slot, or asks in vain, leaves of the job. *)
LEMMA JobOver ==
  ASSUME TypeOK, \/ CompleteAcquired \/ CompleteExhausted \/ CompleteEmpty \/ CompleteFailed
                 \/ AskThrows
  PROVE  /\ job.pc # "idle" /\ job'.pc \in {"idle", "ready", "again"}
         /\ job'.pc # "idle" => job'.b = job.b
<1>a. Ends => job'.pc = "idle"
  BY DEF Ends, Idle
<1>1. CASE CompleteAcquired \/ CompleteExhausted \/ CompleteEmpty
  <2>1. job.pc # "idle" /\ (Asks("ready") \/ Ends)
    BY <1>1 DEF CompleteAcquired, CompleteExhausted, CompleteEmpty, Completes, At
  <2> QED BY <2>1, <1>a, AsksTyped
<1>2. CASE CompleteFailed
  <2>1. job.pc # "idle" /\ (Asks("again") \/ Ends)
    BY <1>2 DEF CompleteFailed
  <2> QED BY <2>1, <1>a, AsksTyped
<1>3. CASE AskThrows
  <2>1. job.pc # "idle" /\ (Goes("again") \/ Ends)
    BY <1>3 DEF AskThrows, At
  <2> QED BY <2>1, <1>a DEF Goes, TypeOK, JobRecord
<1> QED BY <1>1, <1>2, <1>3

(* Only the slot of the job is written. *)
Wrote(r) == \A b \in Batch, s \in Slot :
              slot'[b][s] = IF b = job.b /\ s = job.s THEN r ELSE slot[b][s]

LEMMA SlotAfter ==
  ASSUME TypeOK, job.pc # "idle", NEW r, Writes(r)
  PROVE  Wrote(r)
BY DEF Writes, Wrote, TypeOK

(* The record with which a job ends its slot, in each of the four ways. *)
Final(r) == /\ r.status \in Terminal /\ r.reserved = None
            /\ r.facts # "none" => r.key = Mine.reserved /\ r.key \in Key

LEMMA Ended ==
  ASSUME TypeOK, Owned,
         CompleteAcquired \/ CompleteExhausted \/ CompleteEmpty \/ CompleteFailed
  PROVE  /\ Working
         /\ \A b \in Batch : fin'[b] # fin[b] => b = job.b
         /\ fin'[job.b] # "PENDING" => Done(slot'[job.b])
         /\ \E r : Final(r) /\ Wrote(r)
<1>1. CASE CompleteFailed
  <2> DEFINE r == [Mine EXCEPT !.status = "FAILED", !.reserved = None]
  <2>1. Mine \in SlotRecord /\ Mine.facts = "none" /\ Working
    BY <1>1, MineTyped DEF CompleteFailed, Owned, Working, Terminal, Mine, TypeOK
  <2>2. Final(r)
    BY <2>1 DEF Final, SlotRecord, Terminal
  <2>3. /\ Writes(r)
        /\ fin' = [fin EXCEPT ![job.b] = IF Done([slot[job.b] EXCEPT ![job.s] = r])
                                         THEN "READY_TO_FINALIZE" ELSE "PENDING"]
    BY <1>1 DEF CompleteFailed
  <2>4. slot'[job.b] = [slot[job.b] EXCEPT ![job.s] = r]
    BY <2>1, <2>3 DEF Writes, TypeOK, Working
  <2> HIDE DEF r
  <2>5. Wrote(r)
    BY <2>1, <2>3, SlotAfter DEF Working
  <2> QED BY <2>1, <2>2, <2>3, <2>4, <2>5 DEF TypeOK, Working
<1>2. ASSUME NEW key, NEW status \in Terminal, Completes(status, key, "ready"), Working,
             job.got # "none" => key = Mine.reserved /\ key \in Key
      PROVE  /\ \A b \in Batch : fin'[b] # fin[b] => b = job.b
             /\ fin'[job.b] # "PENDING" => Done(slot'[job.b])
             /\ \E r : Final(r) /\ Wrote(r)
  <2> DEFINE r == [Mine EXCEPT !.status = status, !.reserved = None,
                               !.key = key, !.facts = job.got]
  <2>1. Mine \in SlotRecord
    BY <1>2, MineTyped DEF Working
  <2>2. Final(r)
    BY <1>2, <2>1 DEF Final, SlotRecord
  <2>3. /\ Writes(r)
        /\ fin' = [fin EXCEPT ![job.b] = IF Done([slot[job.b] EXCEPT ![job.s] = r])
                                         THEN "READY_TO_FINALIZE" ELSE "PENDING"]
    BY <1>2 DEF Completes
  <2>4. slot'[job.b] = [slot[job.b] EXCEPT ![job.s] = r]
    BY <1>2, <2>1, <2>3 DEF Writes, TypeOK, Working
  <2> HIDE DEF r
  <2>5. Wrote(r)
    BY <1>2, <2>3, SlotAfter DEF Working
  <2> QED BY <1>2, <2>2, <2>3, <2>4, <2>5 DEF TypeOK, Working
<1>3. CASE CompleteAcquired
  BY <1>2, <1>3, RestTyped DEF CompleteAcquired, At, Working, Owned, Terminal
<1>4. CASE CompleteExhausted
  BY <1>2, <1>4 DEF CompleteExhausted, At, Working, Owned, Terminal
<1>5. CASE CompleteEmpty
  BY <1>2, <1>5 DEF CompleteEmpty, At, Working, Owned, Terminal
<1> QED BY <1>1, <1>3, <1>4, <1>5

(* Messages and jobs belong to batches that have a plan. *)
LEMMA PlannedKept ==
  ASSUME TypeOK, Planned, [Next]_vars
  PROVE  Planned'
<1> USE Bits, SlotsAssumption DEF vars, batches, slotWork, RunKept, SlotsKept, FanInKept, RunEnds,
       Leaves, InSlotJob, InFanIn,       FanInAt, FanInTo, FanInEnds, At, Goes, Ends, Asks, Mine, Writes, Idle
<1>1. CASE StartRun
  BY <1>1 DEF StartRun, Planned, TypeOK
<1>2. CASE EndRun
  BY <1>2 DEF EndRun, Planned, TypeOK
<1>3. CASE RunFails
  BY <1>3 DEF RunFails, Fault, Planned, TypeOK
<1>4. CASE Refuse
  BY <1>4 DEF Refuse, Planned, TypeOK
<1>5. CASE Permit
  BY <1>5 DEF Permit, Planned, TypeOK
<1>6. CASE Skip
  BY <1>6 DEF Skip, Planned, TypeOK
<1>7. CASE Reserve
  BY <1>7 DEF Reserve, Planned, TypeOK
<1>8. CASE FallBack
  BY <1>8 DEF FallBack, Planned, TypeOK
<1>9. CASE CompleteAcquired
  <2>1. UNCHANGED <<chain, queued, run>>
    BY <1>9 DEF CompleteAcquired, Completes, NoFault
  <2> QED BY <1>9, <2>1, JobOver DEF Planned
<1>10. CASE CompleteExhausted
  <2>1. UNCHANGED <<chain, queued, run>>
    BY <1>10 DEF CompleteExhausted, Completes, NoFault
  <2> QED BY <1>10, <2>1, JobOver DEF Planned
<1>11. CASE CompleteEmpty
  <2>1. UNCHANGED <<chain, queued, run>>
    BY <1>11 DEF CompleteEmpty, Completes, NoFault
  <2> QED BY <1>11, <2>1, JobOver DEF Planned
<1>12. CASE CompleteFailed
  <2>1. UNCHANGED <<chain, queued, run>>
    BY <1>12 DEF CompleteFailed, Fault
  <2> QED BY <1>12, <2>1, JobOver DEF Planned
<1>13. CASE AskFanIn
  BY <1>13 DEF AskFanIn, Planned, TypeOK
<1>14. CASE AskLost
  BY <1>14 DEF AskLost, Fault, Planned, TypeOK
<1>15. CASE AskThrows
  <2>1. UNCHANGED <<chain, queued, run>>
    BY <1>15 DEF AskThrows, Fault
  <2> QED BY <1>15, <2>1, JobOver DEF Planned
<1>16. CASE Stall
  BY <1>16 DEF Stall, Fault, Planned, TypeOK
<1>17. CASE Freeze
  BY <1>17 DEF Freeze, Planned, TypeOK
<1>18. CASE Bind
  BY <1>18 DEF Bind, Planned, TypeOK
<1>19. CASE FanInFails
  BY <1>19 DEF FanInFails, Fault, NoFault, Planned, TypeOK
<1>20. CASE Finish
  BY <1>20 DEF Finish, Planned, TypeOK
<1>21. CASE Report
  BY <1>21 DEF Report, Planned, TypeOK
<1>22. CASE ReportFails
  BY <1>22 DEF ReportFails, Fault, Planned, TypeOK
<1>23. CASE Crash
  BY <1>23 DEF Crash, Fault, Planned, TypeOK
<1>24. ASSUME NEW b \in Batch, Plan(b)
     PROVE  Planned'
  <2>1. chain' \in [Batch -> Chains \cup {None}] /\ chain'[b] # None /\ (\A c \in Batch \ {b} : chain'[c] = chain[c])
    BY <1>24, Bits DEF Plan, TypeOK
  <2>2. UNCHANGED <<queued, job>> /\ run'.b = b
    BY <1>24 DEF Plan
  <2>3. job.pc # "idle" => job.b # b /\ job.b \in Batch
    BY <1>24 DEF Plan, Planned, TypeOK
  <2> QED BY <1>24, <2>1, <2>2, <2>3 DEF Plan, Planned
<1>25. ASSUME NEW b \in Batch, Defer(b)
     PROVE  Planned'
  BY <1>25 DEF Defer, Planned, TypeOK
<1>26. ASSUME NEW b \in Batch, ClaimFanIn(b)
     PROVE  Planned'
  BY <1>26 DEF ClaimFanIn, Planned, TypeOK
<1>27. ASSUME NEW s \in Slot, PublishSlot(s)
     PROVE  Planned'
  BY <1>27 DEF PublishSlot, Fault, NoFault, Planned, TypeOK
<1>28. ASSUME NEW b \in Batch, NEW s \in Slot, ClaimSlot(b, s)
     PROVE  Planned'
  BY <1>28 DEF ClaimSlot, Planned, TypeOK
<1>29. ASSUME NEW b \in Batch, NEW s \in Slot, IgnoreSlot(b, s)
     PROVE  Planned'
  BY <1>29 DEF IgnoreSlot, Planned, TypeOK
<1>30. ASSUME NEW o \in Outcomes, Acquire(o)
     PROVE  Planned'
  BY <1>30 DEF Acquire, Planned, TypeOK
<1>31. CASE UNCHANGED vars
  BY <1>31 DEF Planned
<1> QED
  BY <1>1, <1>2, <1>3, <1>4, <1>5, <1>6, <1>7, <1>8, <1>9, <1>10, <1>11,
     <1>12, <1>13, <1>14, <1>15, <1>16, <1>17, <1>18, <1>19, <1>20, <1>21,
     <1>22, <1>23, <1>24, <1>25, <1>26, <1>27, <1>28, <1>29, <1>30, <1>31
  DEF Next, Runs, Acquires, FansIn

(* The slot of a job is RUNNING and its reservation the candidate tried. *)
LEMMA OwnedKept ==
  ASSUME TypeOK, Planned, Owned, [Next]_vars
  PROVE  Owned'
<1> USE DEF vars, batches, slotWork, RunKept, SlotsKept, FanInKept, RunEnds,
       Leaves, InSlotJob, InFanIn,       FanInAt, FanInTo, FanInEnds, At, Goes, Ends, Asks, Mine, Writes, Idle
<1>1. CASE StartRun
  BY <1>1 DEF StartRun, Owned, Working, Terminal, TypeOK
<1>2. CASE EndRun
  BY <1>2 DEF EndRun, Owned, Working, Terminal, TypeOK
<1>3. CASE RunFails
  BY <1>3 DEF RunFails, Fault, Owned, Working, Terminal, TypeOK
<1>4. CASE Refuse
  <2> DEFINE r == [Mine EXCEPT !.status = "PENDING", !.reserved = None]
  <2>1. Working /\ Mine \in SlotRecord /\ Mine.facts = "none"
    <3>1. job.pc # "idle" /\ Working
      BY <1>4 DEF Refuse, Working
    <3>2. Mine \in SlotRecord /\ Mine.status = "RUNNING"
      BY <3>1, MineTyped DEF Owned
    <3> QED BY <3>1, <3>2 DEF Owned, Working, Terminal, TypeOK
  <2>2. slot' = [slot EXCEPT ![job.b][job.s] = r]
    BY <1>4 DEF Refuse
  <2>3. r.reserved = None /\ r.status = "PENDING" /\ r.facts = "none"
    BY <2>1 DEF SlotRecord, r
  <2> HIDE DEF r
  <2>4. Wrote(r)
    BY <2>1, <2>2 DEF TypeOK, Wrote, Working
  <2>5. /\ job'.pc \in {"idle", "trying"}
        /\ job'.pc = "trying" => /\ job.pc = "fetching" /\ r.status = "RUNNING"
                                /\ job'.b = job.b /\ job'.s = job.s /\ job'.got = job.got
    BY <1>4 DEF Refuse, TypeOK, JobRecord
  <2>6. \A b \in Batch, s \in Slot :
          /\ slot'[b][s].status \notin Terminal => slot'[b][s].facts = "none"
          /\ slot'[b][s].facts # "none" => slot'[b][s].key \in Key
    BY <2>3, <2>4 DEF Owned, Wrote
  <2>7. job'.pc = "trying" => slot'[job'.b][job'.s].status = "RUNNING" /\ job'.got = "none"
    BY <2>4, <2>5 DEF Owned, Working, Wrote, TypeOK
  <2> QED BY <2>5, <2>6, <2>7 DEF Owned, Working, Terminal
<1>5. CASE Permit
  BY <1>5 DEF Permit, Owned, Working, Terminal, TypeOK
<1>6. CASE Skip
  BY <1>6 DEF Skip, Owned, Working, Terminal, TypeOK
<1>7. CASE Reserve
  <2> DEFINE r == [Mine EXCEPT !.reserved = Head(job.rest)]
  <2>1. Working /\ Mine \in SlotRecord /\ Mine.facts = "none"
    <3>1. job.pc # "idle" /\ Working
      BY <1>7 DEF Reserve, Working
    <3>2. Mine \in SlotRecord /\ Mine.status = "RUNNING"
      BY <3>1, MineTyped DEF Owned
    <3> QED BY <3>1, <3>2 DEF Owned, Working, Terminal, TypeOK
  <2>2. slot' = [slot EXCEPT ![job.b][job.s] = r]
    BY <1>7 DEF Reserve
  <2>3. r.reserved = Head(job.rest) /\ r.facts = "none"
    BY <2>1 DEF SlotRecord, r
  <2> HIDE DEF r
  <2>4. Wrote(r)
    BY <2>1, <2>2 DEF TypeOK, Wrote, Working
  <2>5. job' = [job EXCEPT !.pc = "fetching"] /\ job \in JobRecord /\ job.rest # <<>> /\ job.pc = "trying"
    BY <1>7 DEF Reserve, TypeOK
  <2>6. r.status = "RUNNING"
    BY <2>1 DEF r, SlotRecord, Owned
  <2>7. \A b \in Batch, s \in Slot :
          /\ slot'[b][s].status \notin Terminal => slot'[b][s].facts = "none"
          /\ slot'[b][s].facts # "none" => slot'[b][s].key \in Key
    BY <2>3, <2>4 DEF Owned, Wrote
  <2>8. slot'[job.b][job.s] = r
    BY <2>1, <2>4 DEF Wrote, Working, TypeOK
  <2>9. /\ job'.pc = "fetching" /\ job'.b = job.b /\ job'.s = job.s
        /\ job'.rest = job.rest /\ job'.got = "none"
    BY <2>5 DEF Owned, Working, JobRecord
  <2> QED BY <2>3, <2>5, <2>6, <2>7, <2>8, <2>9 DEF Owned, Working, Terminal
<1>8. CASE FallBack
  <2> DEFINE r == [Mine EXCEPT !.reserved = None]
  <2>1. Working /\ Mine \in SlotRecord /\ Mine.facts = "none"
    <3>1. job.pc # "idle" /\ Working
      BY <1>8 DEF FallBack, Working
    <3>2. Mine \in SlotRecord /\ Mine.status = "RUNNING"
      BY <3>1, MineTyped DEF Owned
    <3> QED BY <3>1, <3>2 DEF Owned, Working, Terminal, TypeOK
  <2>2. slot' = [slot EXCEPT ![job.b][job.s] = r]
    BY <1>8 DEF FallBack
  <2>3. r.reserved = None /\ r.facts = "none"
    BY <2>1 DEF SlotRecord, r
  <2> HIDE DEF r
  <2>4. Wrote(r)
    BY <2>1, <2>2 DEF TypeOK, Wrote, Working
  <2>5. /\ job'.pc \in {"idle", "trying"}
        /\ job'.pc = "trying" => /\ job.pc = "fetching" /\ r.status = "RUNNING"
                                /\ job'.b = job.b /\ job'.s = job.s /\ job'.got = job.got
    BY <1>8, <2>1 DEF FallBack, Owned, r, SlotRecord, Working, TypeOK, JobRecord
  <2>6. \A b \in Batch, s \in Slot :
          /\ slot'[b][s].status \notin Terminal => slot'[b][s].facts = "none"
          /\ slot'[b][s].facts # "none" => slot'[b][s].key \in Key
    BY <2>3, <2>4 DEF Owned, Wrote
  <2>7. job'.pc = "trying" => slot'[job'.b][job'.s].status = "RUNNING" /\ job'.got = "none"
    BY <2>4, <2>5 DEF Owned, Working, Wrote, TypeOK
  <2> QED BY <2>5, <2>6, <2>7 DEF Owned, Working, Terminal
<1>9. CASE CompleteAcquired
  <2>1. job'.pc \in {"idle", "ready", "again"}
    BY <1>9, JobOver
  <2>2. PICK r : Final(r) /\ Wrote(r)
    BY <1>9, Ended
  <2> QED BY <2>1, <2>2 DEF Owned, Working, Final, Wrote
<1>10. CASE CompleteExhausted
  <2>1. job'.pc \in {"idle", "ready", "again"}
    BY <1>10, JobOver
  <2>2. PICK r : Final(r) /\ Wrote(r)
    BY <1>10, Ended
  <2> QED BY <2>1, <2>2 DEF Owned, Working, Final, Wrote
<1>11. CASE CompleteEmpty
  <2>1. job'.pc \in {"idle", "ready", "again"}
    BY <1>11, JobOver
  <2>2. PICK r : Final(r) /\ Wrote(r)
    BY <1>11, Ended
  <2> QED BY <2>1, <2>2 DEF Owned, Working, Final, Wrote
<1>12. CASE CompleteFailed
  <2>1. job'.pc \in {"idle", "ready", "again"}
    BY <1>12, JobOver
  <2>2. PICK r : Final(r) /\ Wrote(r)
    BY <1>12, Ended
  <2> QED BY <2>1, <2>2 DEF Owned, Working, Final, Wrote
<1>13. CASE AskFanIn
  BY <1>13 DEF AskFanIn, Owned, Working, Terminal, TypeOK
<1>14. CASE AskLost
  BY <1>14 DEF AskLost, Fault, Owned, Working, Terminal, TypeOK
<1>15. CASE AskThrows
  <2>1. job'.pc \in {"idle", "ready", "again"} /\ UNCHANGED slot
    BY <1>15, JobOver DEF AskThrows
  <2> QED BY <2>1 DEF Owned, Working
<1>16. CASE Stall
  BY <1>16 DEF Stall, Fault, Owned, Working, Terminal, TypeOK
<1>17. CASE Freeze
  BY <1>17 DEF Freeze, Owned, Working, Terminal, TypeOK
<1>18. CASE Bind
  BY <1>18 DEF Bind, Owned, Working, Terminal, TypeOK
<1>19. CASE FanInFails
  BY <1>19 DEF FanInFails, Fault, NoFault, Owned, Working, Terminal, TypeOK
<1>20. CASE Finish
  BY <1>20 DEF Finish, Owned, Working, Terminal, TypeOK
<1>21. CASE Report
  BY <1>21 DEF Report, Owned, Working, Terminal, TypeOK
<1>22. CASE ReportFails
  BY <1>22 DEF ReportFails, Fault, Owned, Working, Terminal, TypeOK
<1>23. CASE Crash
  BY <1>23 DEF Crash, Fault, Owned, Working, Terminal, TypeOK
<1>24. ASSUME NEW b \in Batch, Plan(b)
     PROVE  Owned'
  BY <1>24 DEF Plan, Owned, Working, Terminal, TypeOK
<1>25. ASSUME NEW b \in Batch, Defer(b)
     PROVE  Owned'
  BY <1>25 DEF Defer, Owned, Working, Terminal, TypeOK
<1>26. ASSUME NEW b \in Batch, ClaimFanIn(b)
     PROVE  Owned'
  BY <1>26 DEF ClaimFanIn, Owned, Working, Terminal, TypeOK
<1>27. ASSUME NEW s \in Slot, PublishSlot(s)
     PROVE  Owned'
  BY <1>27 DEF PublishSlot, Fault, NoFault, Owned, Working, Terminal, TypeOK
<1>28. ASSUME NEW b \in Batch, NEW s \in Slot, ClaimSlot(b, s)
     PROVE  Owned'
  BY <1>28 DEF ClaimSlot, Owned, Working, Terminal, TypeOK
<1>29. ASSUME NEW b \in Batch, NEW s \in Slot, IgnoreSlot(b, s)
     PROVE  Owned'
  BY <1>29 DEF IgnoreSlot, Owned, Working, Terminal, TypeOK
<1>30. ASSUME NEW o \in Outcomes, Acquire(o)
     PROVE  Owned'
  BY <1>30 DEF Acquire, Owned, Working, Terminal, TypeOK
<1>31. CASE UNCHANGED vars
  BY <1>31 DEF Owned, Working, Terminal
<1> QED
  BY <1>1, <1>2, <1>3, <1>4, <1>5, <1>6, <1>7, <1>8, <1>9, <1>10, <1>11,
     <1>12, <1>13, <1>14, <1>15, <1>16, <1>17, <1>18, <1>19, <1>20, <1>21,
     <1>22, <1>23, <1>24, <1>25, <1>26, <1>27, <1>28, <1>29, <1>30, <1>31
  DEF Next, Runs, Acquires, FansIn

(* A batch that is ready, claimed or finalized has no slot left to end. *)
LEMMA GatheredKept ==
  ASSUME TypeOK, Owned, Gathered, [Next]_vars
  PROVE  Gathered'
<1> USE DEF vars, batches, slotWork, RunKept, SlotsKept, FanInKept, RunEnds,
       Leaves, InSlotJob, InFanIn,       FanInAt, FanInTo, FanInEnds, At, Goes, Ends, Asks, Mine, Writes, Idle
<1>1. CASE StartRun
  BY <1>1 DEF StartRun, Gathered, Done, Owned, Working, Terminal, TypeOK
<1>2. CASE EndRun
  BY <1>2 DEF EndRun, Gathered, Done, Owned, Working, Terminal, TypeOK
<1>3. CASE RunFails
  BY <1>3 DEF RunFails, Fault, Gathered, Done, Owned, Working, Terminal, TypeOK
<1>4. CASE Refuse
  BY <1>4 DEF Refuse, Gathered, Done, Owned, Working, Terminal, TypeOK
<1>5. CASE Permit
  BY <1>5 DEF Permit, Gathered, Done, Owned, Working, Terminal, TypeOK
<1>6. CASE Skip
  BY <1>6 DEF Skip, Gathered, Done, Owned, Working, Terminal, TypeOK
<1>7. CASE Reserve
  BY <1>7 DEF Reserve, Gathered, Done, Owned, Working, Terminal, TypeOK
<1>8. CASE FallBack
  BY <1>8 DEF FallBack, Gathered, Done, Owned, Working, Terminal, TypeOK
<1>9. CASE CompleteAcquired
  <2>1. job'.pc \in {"idle", "ready", "again"}
    BY <1>9, JobOver
  <2>2. PICK r : Final(r) /\ Wrote(r)
    BY <1>9, Ended
  <2>4. Working /\ (\A b \in Batch : fin'[b] # fin[b] => b = job.b) /\ (fin'[job.b] # "PENDING" => Done(slot'[job.b]))
    BY <1>9, Ended
  <2>5. ~Done(slot[job.b])
    BY <2>4 DEF Owned, Working, Done, Terminal, TypeOK
  <2>6. UNCHANGED fanin
    BY <1>9 DEF CompleteAcquired, Completes, NoFault
  <2>7. ~FanInAt("idle") => fanin.b \in Batch /\ fin[fanin.b] # "PENDING"
    BY DEF Gathered, TypeOK, FanInRecord
  <2> QED BY <2>2, <2>4, <2>5, <2>6, <2>7 DEF Gathered, Done, Wrote
<1>10. CASE CompleteExhausted
  <2>1. job'.pc \in {"idle", "ready", "again"}
    BY <1>10, JobOver
  <2>2. PICK r : Final(r) /\ Wrote(r)
    BY <1>10, Ended
  <2>4. Working /\ (\A b \in Batch : fin'[b] # fin[b] => b = job.b) /\ (fin'[job.b] # "PENDING" => Done(slot'[job.b]))
    BY <1>10, Ended
  <2>5. ~Done(slot[job.b])
    BY <2>4 DEF Owned, Working, Done, Terminal, TypeOK
  <2>6. UNCHANGED fanin
    BY <1>10 DEF CompleteExhausted, Completes, NoFault
  <2>7. ~FanInAt("idle") => fanin.b \in Batch /\ fin[fanin.b] # "PENDING"
    BY DEF Gathered, TypeOK, FanInRecord
  <2> QED BY <2>2, <2>4, <2>5, <2>6, <2>7 DEF Gathered, Done, Wrote
<1>11. CASE CompleteEmpty
  <2>1. job'.pc \in {"idle", "ready", "again"}
    BY <1>11, JobOver
  <2>2. PICK r : Final(r) /\ Wrote(r)
    BY <1>11, Ended
  <2>4. Working /\ (\A b \in Batch : fin'[b] # fin[b] => b = job.b) /\ (fin'[job.b] # "PENDING" => Done(slot'[job.b]))
    BY <1>11, Ended
  <2>5. ~Done(slot[job.b])
    BY <2>4 DEF Owned, Working, Done, Terminal, TypeOK
  <2>6. UNCHANGED fanin
    BY <1>11 DEF CompleteEmpty, Completes, NoFault
  <2>7. ~FanInAt("idle") => fanin.b \in Batch /\ fin[fanin.b] # "PENDING"
    BY DEF Gathered, TypeOK, FanInRecord
  <2> QED BY <2>2, <2>4, <2>5, <2>6, <2>7 DEF Gathered, Done, Wrote
<1>12. CASE CompleteFailed
  <2>1. job'.pc \in {"idle", "ready", "again"}
    BY <1>12, JobOver
  <2>2. PICK r : Final(r) /\ Wrote(r)
    BY <1>12, Ended
  <2>4. Working /\ (\A b \in Batch : fin'[b] # fin[b] => b = job.b) /\ (fin'[job.b] # "PENDING" => Done(slot'[job.b]))
    BY <1>12, Ended
  <2>5. ~Done(slot[job.b])
    BY <2>4 DEF Owned, Working, Done, Terminal, TypeOK
  <2>6. UNCHANGED fanin
    BY <1>12 DEF CompleteFailed, Fault
  <2>7. ~FanInAt("idle") => fanin.b \in Batch /\ fin[fanin.b] # "PENDING"
    BY DEF Gathered, TypeOK, FanInRecord
  <2> QED BY <2>2, <2>4, <2>5, <2>6, <2>7 DEF Gathered, Done, Wrote
<1>13. CASE AskFanIn
  BY <1>13 DEF AskFanIn, Gathered, Done, Owned, Working, Terminal, TypeOK
<1>14. CASE AskLost
  BY <1>14 DEF AskLost, Fault, Gathered, Done, Owned, Working, Terminal, TypeOK
<1>15. CASE AskThrows
  BY <1>15 DEF AskThrows, Fault, Gathered, Done, Owned, Working, Terminal, TypeOK
<1>16. CASE Stall
  BY <1>16 DEF Stall, Fault, Gathered, Done, Owned, Working, Terminal, TypeOK
<1>17. CASE Freeze
  BY <1>17 DEF Freeze, Gathered, Done, Owned, Working, Terminal, TypeOK
<1>18. CASE Bind
  BY <1>18 DEF Bind, Gathered, Done, Owned, Working, Terminal, TypeOK
<1>19. CASE FanInFails
  BY <1>19 DEF FanInFails, Fault, NoFault, Gathered, Done, Owned, Working, Terminal, TypeOK
<1>20. CASE Finish
  BY <1>20 DEF Finish, Gathered, Done, Owned, Working, Terminal, TypeOK
<1>21. CASE Report
  BY <1>21 DEF Report, Gathered, Done, Owned, Working, Terminal, TypeOK
<1>22. CASE ReportFails
  BY <1>22 DEF ReportFails, Fault, Gathered, Done, Owned, Working, Terminal, TypeOK
<1>23. CASE Crash
  BY <1>23 DEF Crash, Fault, Gathered, Done, Owned, Working, Terminal, TypeOK
<1>24. ASSUME NEW b \in Batch, Plan(b)
     PROVE  Gathered'
  BY <1>24 DEF Plan, Gathered, Done, Owned, Working, Terminal, TypeOK
<1>25. ASSUME NEW b \in Batch, Defer(b)
     PROVE  Gathered'
  BY <1>25 DEF Defer, Gathered, Done, Owned, Working, Terminal, TypeOK
<1>26. ASSUME NEW b \in Batch, ClaimFanIn(b)
     PROVE  Gathered'
  <2>1. CASE Claimable(b)
    <3>1. fin' = [fin EXCEPT ![b] = "FINALIZING"] /\ fanin' = [pc |-> "freezing", b |-> b]
      BY <1>26, <2>1 DEF ClaimFanIn
    <3>2. Done(slot[b]) /\ UNCHANGED slot
      BY <1>26, <2>1 DEF ClaimFanIn, Claimable
    <3>3. fin'[b] = "FINALIZING" /\ (\A c \in Batch \ {b} : fin'[c] = fin[c])
      BY <3>1 DEF TypeOK
    <3> QED BY <3>1, <3>2, <3>3 DEF Gathered
  <2>2. CASE ~Claimable(b)
    BY <1>26, <2>2 DEF ClaimFanIn, Gathered, Done, TypeOK
  <2> QED BY <2>1, <2>2
<1>27. ASSUME NEW s \in Slot, PublishSlot(s)
     PROVE  Gathered'
  BY <1>27 DEF PublishSlot, Fault, NoFault, Gathered, Done, Owned, Working, Terminal, TypeOK
<1>28. ASSUME NEW b \in Batch, NEW s \in Slot, ClaimSlot(b, s)
     PROVE  Gathered'
  <2>1. /\ ~Done(slot[b]) /\ fin'[b] = "PENDING" /\ UNCHANGED fanin
        /\ \A c \in Batch \ {b} : fin'[c] = fin[c] /\ slot'[c] = slot[c]
    BY <1>28 DEF ClaimSlot, Done, Terminal, TypeOK
  <2>2. ~FanInAt("idle") => fanin.b # b /\ fanin.b \in Batch
    BY <2>1 DEF Gathered, TypeOK, FanInRecord
  <2> QED BY <2>1, <2>2 DEF Gathered
<1>29. ASSUME NEW b \in Batch, NEW s \in Slot, IgnoreSlot(b, s)
     PROVE  Gathered'
  BY <1>29 DEF IgnoreSlot, Gathered, Done, Owned, Working, Terminal, TypeOK
<1>30. ASSUME NEW o \in Outcomes, Acquire(o)
     PROVE  Gathered'
  BY <1>30 DEF Acquire, Gathered, Done, Owned, Working, Terminal, TypeOK
<1>31. CASE UNCHANGED vars
  BY <1>31 DEF Gathered, Done
<1> QED
  BY <1>1, <1>2, <1>3, <1>4, <1>5, <1>6, <1>7, <1>8, <1>9, <1>10, <1>11,
     <1>12, <1>13, <1>14, <1>15, <1>16, <1>17, <1>18, <1>19, <1>20, <1>21,
     <1>22, <1>23, <1>24, <1>25, <1>26, <1>27, <1>28, <1>29, <1>30, <1>31
  DEF Next, Runs, Acquires, FansIn

(* No two slots of a batch hold one candidate. *)
LEMMA ApartKept ==
  ASSUME TypeOK, Owned, Apart, [Next]_vars
  PROVE  Apart'
<1> USE DEF vars, batches, slotWork, RunKept, SlotsKept, FanInKept, RunEnds,
       Leaves, InSlotJob, InFanIn,       FanInAt, FanInTo, FanInEnds, At, Goes, Ends, Asks, Mine, Writes, Idle
<1>1. CASE StartRun
  BY <1>1 DEF StartRun, Apart, Takes, Owned, Working, Terminal, TypeOK
<1>2. CASE EndRun
  BY <1>2 DEF EndRun, Apart, Takes, Owned, Working, Terminal, TypeOK
<1>3. CASE RunFails
  BY <1>3 DEF RunFails, Fault, Apart, Takes, Owned, Working, Terminal, TypeOK
<1>4. CASE Refuse
  <2> DEFINE r == [Mine EXCEPT !.status = "PENDING", !.reserved = None]
  <2>1. Working /\ Mine \in SlotRecord /\ Mine.facts = "none"
    <3>1. job.pc # "idle" /\ Working
      BY <1>4 DEF Refuse, Working
    <3>2. Mine \in SlotRecord /\ Mine.status = "RUNNING"
      BY <3>1, MineTyped DEF Owned
    <3> QED BY <3>1, <3>2 DEF Owned, Working, Terminal, TypeOK
  <2>2. slot' = [slot EXCEPT ![job.b][job.s] = r]
    BY <1>4 DEF Refuse
  <2>3. r.reserved = None /\ r.status = "PENDING" /\ r.facts = "none"
    BY <2>1 DEF SlotRecord, r
  <2> HIDE DEF r
  <2>4. Wrote(r)
    BY <2>1, <2>2 DEF TypeOK, Wrote, Working
  <2>5. \A b \in Batch, s \in Slot, k \in Key : Takes(slot'[b][s], k) => Takes(slot[b][s], k)
    BY <2>3, <2>4, Bits DEF Takes, Wrote
  <2> QED BY <2>5 DEF Apart
<1>5. CASE Permit
  BY <1>5 DEF Permit, Apart, Takes, Owned, Working, Terminal, TypeOK
<1>6. CASE Skip
  BY <1>6 DEF Skip, Apart, Takes, Owned, Working, Terminal, TypeOK
<1>7. CASE Reserve
  <2> DEFINE r == [Mine EXCEPT !.reserved = Head(job.rest)]
  <2>1. Working /\ Mine \in SlotRecord /\ Mine.facts = "none"
    <3>1. job.pc # "idle" /\ Working
      BY <1>7 DEF Reserve, Working
    <3>2. Mine \in SlotRecord /\ Mine.status = "RUNNING"
      BY <3>1, MineTyped DEF Owned
    <3> QED BY <3>1, <3>2 DEF Owned, Working, Terminal, TypeOK
  <2>2. slot' = [slot EXCEPT ![job.b][job.s] = r]
    BY <1>7 DEF Reserve
  <2>3. r.reserved = Head(job.rest) /\ r.facts = "none"
    BY <2>1 DEF SlotRecord, r
  <2> HIDE DEF r
  <2>4. Wrote(r)
    BY <2>1, <2>2 DEF TypeOK, Wrote, Working
  <2>5. \A t \in Slot \ {job.s} : ~Takes(slot[job.b][t], Head(job.rest))
    BY <1>7 DEF Reserve, Occupied, Siblings, Takes
  <2>6. \A b \in Batch, s \in Slot, k \in Key : Takes(slot'[b][s], k) =>
          Takes(slot[b][s], k) \/ (b = job.b /\ s = job.s /\ k = Head(job.rest))
    BY <2>3, <2>4, Bits DEF Takes, Wrote
  <2>7. \A s \in Slot, k \in Key : Takes(slot'[job.b][s], k) /\ k = Head(job.rest) => s = job.s
    BY <2>4, <2>5, <2>1 DEF Wrote, Working, TypeOK
  <2> QED BY <2>6, <2>7 DEF Apart
<1>8. CASE FallBack
  <2> DEFINE r == [Mine EXCEPT !.reserved = None]
  <2>1. Working /\ Mine \in SlotRecord /\ Mine.facts = "none"
    <3>1. job.pc # "idle" /\ Working
      BY <1>8 DEF FallBack, Working
    <3>2. Mine \in SlotRecord /\ Mine.status = "RUNNING"
      BY <3>1, MineTyped DEF Owned
    <3> QED BY <3>1, <3>2 DEF Owned, Working, Terminal, TypeOK
  <2>2. slot' = [slot EXCEPT ![job.b][job.s] = r]
    BY <1>8 DEF FallBack
  <2>3. r.reserved = None /\ r.facts = "none"
    BY <2>1 DEF SlotRecord, r
  <2> HIDE DEF r
  <2>4. Wrote(r)
    BY <2>1, <2>2 DEF TypeOK, Wrote, Working
  <2>5. \A b \in Batch, s \in Slot, k \in Key : Takes(slot'[b][s], k) => Takes(slot[b][s], k)
    BY <2>3, <2>4, Bits DEF Takes, Wrote
  <2> QED BY <2>5 DEF Apart
<1>9. CASE CompleteAcquired
  <2>1. job'.pc \in {"idle", "ready", "again"}
    BY <1>9, JobOver
  <2>2. PICK r : Final(r) /\ Wrote(r)
    BY <1>9, Ended
  <2>3. \A b \in Batch, s \in Slot, k \in Key : Takes(slot'[b][s], k) => Takes(slot[b][s], k)
    BY <2>2, Bits DEF Takes, Final, Wrote
  <2> QED BY <2>3 DEF Apart
<1>10. CASE CompleteExhausted
  <2>1. job'.pc \in {"idle", "ready", "again"}
    BY <1>10, JobOver
  <2>2. PICK r : Final(r) /\ Wrote(r)
    BY <1>10, Ended
  <2>3. \A b \in Batch, s \in Slot, k \in Key : Takes(slot'[b][s], k) => Takes(slot[b][s], k)
    BY <2>2, Bits DEF Takes, Final, Wrote
  <2> QED BY <2>3 DEF Apart
<1>11. CASE CompleteEmpty
  <2>1. job'.pc \in {"idle", "ready", "again"}
    BY <1>11, JobOver
  <2>2. PICK r : Final(r) /\ Wrote(r)
    BY <1>11, Ended
  <2>3. \A b \in Batch, s \in Slot, k \in Key : Takes(slot'[b][s], k) => Takes(slot[b][s], k)
    BY <2>2, Bits DEF Takes, Final, Wrote
  <2> QED BY <2>3 DEF Apart
<1>12. CASE CompleteFailed
  <2>1. job'.pc \in {"idle", "ready", "again"}
    BY <1>12, JobOver
  <2>2. PICK r : Final(r) /\ Wrote(r)
    BY <1>12, Ended
  <2>3. \A b \in Batch, s \in Slot, k \in Key : Takes(slot'[b][s], k) => Takes(slot[b][s], k)
    BY <2>2, Bits DEF Takes, Final, Wrote
  <2> QED BY <2>3 DEF Apart
<1>13. CASE AskFanIn
  BY <1>13 DEF AskFanIn, Apart, Takes, Owned, Working, Terminal, TypeOK
<1>14. CASE AskLost
  BY <1>14 DEF AskLost, Fault, Apart, Takes, Owned, Working, Terminal, TypeOK
<1>15. CASE AskThrows
  BY <1>15 DEF AskThrows, Fault, Apart, Takes, Owned, Working, Terminal, TypeOK
<1>16. CASE Stall
  BY <1>16 DEF Stall, Fault, Apart, Takes, Owned, Working, Terminal, TypeOK
<1>17. CASE Freeze
  BY <1>17 DEF Freeze, Apart, Takes, Owned, Working, Terminal, TypeOK
<1>18. CASE Bind
  BY <1>18 DEF Bind, Apart, Takes, Owned, Working, Terminal, TypeOK
<1>19. CASE FanInFails
  BY <1>19 DEF FanInFails, Fault, NoFault, Apart, Takes, Owned, Working, Terminal, TypeOK
<1>20. CASE Finish
  BY <1>20 DEF Finish, Apart, Takes, Owned, Working, Terminal, TypeOK
<1>21. CASE Report
  BY <1>21 DEF Report, Apart, Takes, Owned, Working, Terminal, TypeOK
<1>22. CASE ReportFails
  BY <1>22 DEF ReportFails, Fault, Apart, Takes, Owned, Working, Terminal, TypeOK
<1>23. CASE Crash
  BY <1>23 DEF Crash, Fault, Apart, Takes, Owned, Working, Terminal, TypeOK
<1>24. ASSUME NEW b \in Batch, Plan(b)
     PROVE  Apart'
  BY <1>24 DEF Plan, Apart, Takes, Owned, Working, Terminal, TypeOK
<1>25. ASSUME NEW b \in Batch, Defer(b)
     PROVE  Apart'
  BY <1>25 DEF Defer, Apart, Takes, Owned, Working, Terminal, TypeOK
<1>26. ASSUME NEW b \in Batch, ClaimFanIn(b)
     PROVE  Apart'
  BY <1>26 DEF ClaimFanIn, Apart, Takes, Owned, Working, Terminal, TypeOK
<1>27. ASSUME NEW s \in Slot, PublishSlot(s)
     PROVE  Apart'
  BY <1>27 DEF PublishSlot, Fault, NoFault, Apart, Takes, Owned, Working, Terminal, TypeOK
<1>28. ASSUME NEW b \in Batch, NEW s \in Slot, ClaimSlot(b, s)
     PROVE  Apart'
  BY <1>28 DEF ClaimSlot, Apart, Takes, Owned, Working, Terminal, TypeOK
<1>29. ASSUME NEW b \in Batch, NEW s \in Slot, IgnoreSlot(b, s)
     PROVE  Apart'
  BY <1>29 DEF IgnoreSlot, Apart, Takes, Owned, Working, Terminal, TypeOK
<1>30. ASSUME NEW o \in Outcomes, Acquire(o)
     PROVE  Apart'
  BY <1>30 DEF Acquire, Apart, Takes, Owned, Working, Terminal, TypeOK
<1>31. CASE UNCHANGED vars
  BY <1>31 DEF Apart, Takes
<1> QED
  BY <1>1, <1>2, <1>3, <1>4, <1>5, <1>6, <1>7, <1>8, <1>9, <1>10, <1>11,
     <1>12, <1>13, <1>14, <1>15, <1>16, <1>17, <1>18, <1>19, <1>20, <1>21,
     <1>22, <1>23, <1>24, <1>25, <1>26, <1>27, <1>28, <1>29, <1>30, <1>31
  DEF Next, Runs, Acquires, FansIn

(* A completed canary keeps a finalized batch. *)
LEMMA CompletedKept ==
  ASSUME TypeOK, Owned, Gathered, CompletedIsFinal, [Next]_vars
  PROVE  CompletedIsFinal'
<1> USE DEF vars, batches, slotWork, RunKept, SlotsKept, FanInKept, RunEnds,
       Leaves, InSlotJob, InFanIn,       FanInAt, FanInTo, FanInEnds, At, Goes, Ends, Asks, Mine, Writes, Idle
<1>1. CASE StartRun
  BY <1>1 DEF StartRun, CompletedIsFinal, Gathered, Owned, Working, Done, Terminal, TypeOK
<1>2. CASE EndRun
  BY <1>2 DEF EndRun, CompletedIsFinal, Gathered, Owned, Working, Done, Terminal, TypeOK
<1>3. CASE RunFails
  BY <1>3 DEF RunFails, Fault, CompletedIsFinal, Gathered, Owned, Working, Done, Terminal, TypeOK
<1>4. CASE Refuse
  BY <1>4 DEF Refuse, CompletedIsFinal, Gathered, Owned, Working, Done, Terminal, TypeOK
<1>5. CASE Permit
  BY <1>5 DEF Permit, CompletedIsFinal, Gathered, Owned, Working, Done, Terminal, TypeOK
<1>6. CASE Skip
  BY <1>6 DEF Skip, CompletedIsFinal, Gathered, Owned, Working, Done, Terminal, TypeOK
<1>7. CASE Reserve
  BY <1>7 DEF Reserve, CompletedIsFinal, Gathered, Owned, Working, Done, Terminal, TypeOK
<1>8. CASE FallBack
  BY <1>8 DEF FallBack, CompletedIsFinal, Gathered, Owned, Working, Done, Terminal, TypeOK
<1>9. CASE CompleteAcquired
  <2>1. Working /\ (\A b \in Batch : fin'[b] # fin[b] => b = job.b)
    BY <1>9, Ended
  <2>2. job.b \in Batch /\ fin[job.b] = "PENDING"
    BY <2>1 DEF Gathered, Owned, Working, Done, Terminal, TypeOK
  <2>3. UNCHANGED canary
    BY <1>9 DEF CompleteAcquired, Completes, NoFault
  <2> QED BY <2>1, <2>2, <2>3 DEF CompletedIsFinal
<1>10. CASE CompleteExhausted
  <2>1. Working /\ (\A b \in Batch : fin'[b] # fin[b] => b = job.b)
    BY <1>10, Ended
  <2>2. job.b \in Batch /\ fin[job.b] = "PENDING"
    BY <2>1 DEF Gathered, Owned, Working, Done, Terminal, TypeOK
  <2>3. UNCHANGED canary
    BY <1>10 DEF CompleteExhausted, Completes, NoFault
  <2> QED BY <2>1, <2>2, <2>3 DEF CompletedIsFinal
<1>11. CASE CompleteEmpty
  <2>1. Working /\ (\A b \in Batch : fin'[b] # fin[b] => b = job.b)
    BY <1>11, Ended
  <2>2. job.b \in Batch /\ fin[job.b] = "PENDING"
    BY <2>1 DEF Gathered, Owned, Working, Done, Terminal, TypeOK
  <2>3. UNCHANGED canary
    BY <1>11 DEF CompleteEmpty, Completes, NoFault
  <2> QED BY <2>1, <2>2, <2>3 DEF CompletedIsFinal
<1>12. CASE CompleteFailed
  <2>1. Working /\ (\A b \in Batch : fin'[b] # fin[b] => b = job.b)
    BY <1>12, Ended
  <2>2. job.b \in Batch /\ fin[job.b] = "PENDING"
    BY <2>1 DEF Gathered, Owned, Working, Done, Terminal, TypeOK
  <2>3. UNCHANGED canary
    BY <1>12 DEF CompleteFailed, Fault
  <2> QED BY <2>1, <2>2, <2>3 DEF CompletedIsFinal
<1>13. CASE AskFanIn
  BY <1>13 DEF AskFanIn, CompletedIsFinal, Gathered, Owned, Working, Done, Terminal, TypeOK
<1>14. CASE AskLost
  BY <1>14 DEF AskLost, Fault, CompletedIsFinal, Gathered, Owned, Working, Done, Terminal, TypeOK
<1>15. CASE AskThrows
  BY <1>15 DEF AskThrows, Fault, CompletedIsFinal, Gathered, Owned, Working, Done, Terminal, TypeOK
<1>16. CASE Stall
  BY <1>16 DEF Stall, Fault, CompletedIsFinal, Gathered, Owned, Working, Done, Terminal, TypeOK
<1>17. CASE Freeze
  BY <1>17 DEF Freeze, CompletedIsFinal, Gathered, Owned, Working, Done, Terminal, TypeOK
<1>18. CASE Bind
  BY <1>18 DEF Bind, CompletedIsFinal, Gathered, Owned, Working, Done, Terminal, TypeOK
<1>19. CASE FanInFails
  BY <1>19 DEF FanInFails, Fault, NoFault, CompletedIsFinal, Gathered, Owned, Working, Done, Terminal, TypeOK
<1>20. CASE Finish
  BY <1>20 DEF Finish, CompletedIsFinal, Gathered, Owned, Working, Done, Terminal, TypeOK
<1>21. CASE Report
  BY <1>21 DEF Report, CompletedIsFinal, Gathered, Owned, Working, Done, Terminal, TypeOK
<1>22. CASE ReportFails
  BY <1>22 DEF ReportFails, Fault, CompletedIsFinal, Gathered, Owned, Working, Done, Terminal, TypeOK
<1>23. CASE Crash
  BY <1>23 DEF Crash, Fault, CompletedIsFinal, Gathered, Owned, Working, Done, Terminal, TypeOK
<1>24. ASSUME NEW b \in Batch, Plan(b)
     PROVE  CompletedIsFinal'
  BY <1>24 DEF Plan, CompletedIsFinal, Gathered, Owned, Working, Done, Terminal, TypeOK
<1>25. ASSUME NEW b \in Batch, Defer(b)
     PROVE  CompletedIsFinal'
  BY <1>25 DEF Defer, CompletedIsFinal, Gathered, Owned, Working, Done, Terminal, TypeOK
<1>26. ASSUME NEW b \in Batch, ClaimFanIn(b)
     PROVE  CompletedIsFinal'
  <2>1. \A c \in Batch : fin[c] = "FINALIZED" => fin'[c] = "FINALIZED"
    BY <1>26 DEF ClaimFanIn, Claimable, TypeOK
  <2> QED BY <1>26, <2>1 DEF ClaimFanIn, CompletedIsFinal
<1>27. ASSUME NEW s \in Slot, PublishSlot(s)
     PROVE  CompletedIsFinal'
  BY <1>27 DEF PublishSlot, Fault, NoFault, CompletedIsFinal, Gathered, Owned, Working, Done, Terminal, TypeOK
<1>28. ASSUME NEW b \in Batch, NEW s \in Slot, ClaimSlot(b, s)
     PROVE  CompletedIsFinal'
  BY <1>28 DEF ClaimSlot, CompletedIsFinal, Gathered, Owned, Working, Done, Terminal, TypeOK
<1>29. ASSUME NEW b \in Batch, NEW s \in Slot, IgnoreSlot(b, s)
     PROVE  CompletedIsFinal'
  BY <1>29 DEF IgnoreSlot, CompletedIsFinal, Gathered, Owned, Working, Done, Terminal, TypeOK
<1>30. ASSUME NEW o \in Outcomes, Acquire(o)
     PROVE  CompletedIsFinal'
  BY <1>30 DEF Acquire, CompletedIsFinal, Gathered, Owned, Working, Done, Terminal, TypeOK
<1>31. CASE UNCHANGED vars
  BY <1>31 DEF CompletedIsFinal
<1> QED
  BY <1>1, <1>2, <1>3, <1>4, <1>5, <1>6, <1>7, <1>8, <1>9, <1>10, <1>11,
     <1>12, <1>13, <1>14, <1>15, <1>16, <1>17, <1>18, <1>19, <1>20, <1>21,
     <1>22, <1>23, <1>24, <1>25, <1>26, <1>27, <1>28, <1>29, <1>30, <1>31
  DEF Next, Runs, Acquires, FansIn

----------------------------------------------------------------------------
(* The theorems. *)

LEMMA InitOK == Init => IInv
<1> SUFFICES ASSUME Init PROVE IInv
  OBVIOUS
<1>1. TypeOK
  <2>1. Fresh \in SlotRecord
    BY DEF Fresh, SlotRecord
  <2> QED BY <2>1, IdleTyped DEF Init, TypeOK, Idle, FanInRecord
<1>2. Planned /\ Owned /\ Gathered /\ Apart /\ CompletedIsFinal
  BY Bits DEF Init, Planned, Owned, Gathered, Apart, CompletedIsFinal, Working, Idle, Fresh,
              Terminal, Takes, FanInAt
<1> QED BY <1>1, <1>2 DEF IInv

LEMMA IInvKept == IInv /\ [Next]_vars => IInv'
BY TypeKept, PlannedKept, OwnedKept, GatheredKept, ApartKept, CompletedKept DEF IInv

LEMMA Inductive == Spec => []IInv
BY InitOK, IInvKept, PTL DEF Spec

(* The variables keep their types. *)
THEOREM TypeCorrect == Spec => []TypeOK
BY Inductive, PTL DEF IInv

(* No fight is evidence for two slots. *)
THEOREM Distinct == Spec => []DistinctEvidence
<1>1. IInv => DistinctEvidence
  <2> SUFFICES ASSUME IInv, NEW b \in Batch, NEW s \in Slot, NEW t \in Slot, s # t,
                      slot[b][s].facts # "none", slot[b][t].facts # "none",
                      slot[b][s].key = slot[b][t].key
               PROVE  FALSE
    BY DEF DistinctEvidence
  <2>1. slot[b][s].key \in Key
    BY DEF IInv, Owned
  <2> QED BY <2>1, Bits DEF IInv, Apart, Takes
<1> QED BY <1>1, Inductive, PTL

(* While the fan-in is at work on a batch, no job of its slots is. *)
THEOREM Alone == Spec => []OneWriter
<1>1. IInv => OneWriter
  BY DEF IInv, OneWriter, Gathered, Owned, Working, Done, Terminal, Mine, FanInAt, TypeOK, FanInRecord
<1> QED BY <1>1, Inductive, PTL

(* A canary shown as completed has a batch that is finalized. *)
THEOREM Completed == Spec => []CompletedIsFinal
BY Inductive, PTL DEF IInv

(* What a step may not undo, and that no step does. *)
Settles(b) ==
  /\ \A s \in Slot : slot[b][s].status \in Terminal => slot'[b][s] = slot[b][s]
  /\ manifest[b] # None => manifest'[b] = manifest[b]
  /\ fin[b] = "FINALIZED" => fin'[b] = "FINALIZED"

(* No step undoes what has ended. *)
LEMMA SettlesKept ==
  ASSUME TypeOK, Owned, Gathered, [Next]_vars
  PROVE  \A b \in Batch : Settles(b)
<1> USE DEF vars, batches, slotWork, RunKept, SlotsKept, FanInKept, RunEnds,
       Leaves, InSlotJob, InFanIn,       FanInAt, FanInTo, FanInEnds, At, Goes, Ends, Asks, Mine, Writes, Idle
<1>1. CASE StartRun
  BY <1>1 DEF StartRun, Settles, Gathered, Owned, Working, Done, Terminal, TypeOK
<1>2. CASE EndRun
  BY <1>2 DEF EndRun, Settles, Gathered, Owned, Working, Done, Terminal, TypeOK
<1>3. CASE RunFails
  BY <1>3 DEF RunFails, Fault, Settles, Gathered, Owned, Working, Done, Terminal, TypeOK
<1>4. CASE Refuse
  <2>1. Working /\ UNCHANGED <<fin, manifest>> /\ (\E r : Writes(r))
    BY <1>4 DEF Refuse, Working
  <2>2. Mine.status \notin Terminal
    BY <2>1 DEF Owned, Terminal
  <2>3. \A b \in Batch, s \in Slot : slot[b][s].status \in Terminal => slot'[b][s] = slot[b][s]
    BY <2>1, <2>2 DEF TypeOK, Working
  <2> QED BY <2>1, <2>3 DEF Settles
<1>5. CASE Permit
  BY <1>5 DEF Permit, Settles, Gathered, Owned, Working, Done, Terminal, TypeOK
<1>6. CASE Skip
  BY <1>6 DEF Skip, Settles, Gathered, Owned, Working, Done, Terminal, TypeOK
<1>7. CASE Reserve
  <2>1. Working /\ UNCHANGED <<fin, manifest>> /\ (\E r : Writes(r))
    BY <1>7 DEF Reserve, Working
  <2>2. Mine.status \notin Terminal
    BY <2>1 DEF Owned, Terminal
  <2>3. \A b \in Batch, s \in Slot : slot[b][s].status \in Terminal => slot'[b][s] = slot[b][s]
    BY <2>1, <2>2 DEF TypeOK, Working
  <2> QED BY <2>1, <2>3 DEF Settles
<1>8. CASE FallBack
  <2>1. Working /\ UNCHANGED <<fin, manifest>> /\ (\E r : Writes(r))
    BY <1>8 DEF FallBack, Working
  <2>2. Mine.status \notin Terminal
    BY <2>1 DEF Owned, Terminal
  <2>3. \A b \in Batch, s \in Slot : slot[b][s].status \in Terminal => slot'[b][s] = slot[b][s]
    BY <2>1, <2>2 DEF TypeOK, Working
  <2> QED BY <2>1, <2>3 DEF Settles
<1>9. CASE CompleteAcquired
  <2>1. Working /\ (\A b \in Batch : fin'[b] # fin[b] => b = job.b) /\ (\E r : Final(r) /\ Wrote(r))
    BY <1>9, Ended
  <2>2. Mine.status \notin Terminal /\ ~Done(slot[job.b])
    BY <2>1 DEF Owned, Working, Done, Terminal, TypeOK
  <2>3. fin[job.b] = "PENDING"
    BY <2>1, <2>2 DEF Gathered, Working, TypeOK
  <2>4. UNCHANGED manifest
    BY <1>9 DEF CompleteAcquired, Completes, NoFault
  <2>5. \A b \in Batch, s \in Slot : slot[b][s].status \in Terminal => slot'[b][s] = slot[b][s]
    BY <2>1, <2>2 DEF Wrote, Working
  <2> QED BY <2>1, <2>3, <2>4, <2>5 DEF Settles
<1>10. CASE CompleteExhausted
  <2>1. Working /\ (\A b \in Batch : fin'[b] # fin[b] => b = job.b) /\ (\E r : Final(r) /\ Wrote(r))
    BY <1>10, Ended
  <2>2. Mine.status \notin Terminal /\ ~Done(slot[job.b])
    BY <2>1 DEF Owned, Working, Done, Terminal, TypeOK
  <2>3. fin[job.b] = "PENDING"
    BY <2>1, <2>2 DEF Gathered, Working, TypeOK
  <2>4. UNCHANGED manifest
    BY <1>10 DEF CompleteExhausted, Completes, NoFault
  <2>5. \A b \in Batch, s \in Slot : slot[b][s].status \in Terminal => slot'[b][s] = slot[b][s]
    BY <2>1, <2>2 DEF Wrote, Working
  <2> QED BY <2>1, <2>3, <2>4, <2>5 DEF Settles
<1>11. CASE CompleteEmpty
  <2>1. Working /\ (\A b \in Batch : fin'[b] # fin[b] => b = job.b) /\ (\E r : Final(r) /\ Wrote(r))
    BY <1>11, Ended
  <2>2. Mine.status \notin Terminal /\ ~Done(slot[job.b])
    BY <2>1 DEF Owned, Working, Done, Terminal, TypeOK
  <2>3. fin[job.b] = "PENDING"
    BY <2>1, <2>2 DEF Gathered, Working, TypeOK
  <2>4. UNCHANGED manifest
    BY <1>11 DEF CompleteEmpty, Completes, NoFault
  <2>5. \A b \in Batch, s \in Slot : slot[b][s].status \in Terminal => slot'[b][s] = slot[b][s]
    BY <2>1, <2>2 DEF Wrote, Working
  <2> QED BY <2>1, <2>3, <2>4, <2>5 DEF Settles
<1>12. CASE CompleteFailed
  <2>1. Working /\ (\A b \in Batch : fin'[b] # fin[b] => b = job.b) /\ (\E r : Final(r) /\ Wrote(r))
    BY <1>12, Ended
  <2>2. Mine.status \notin Terminal /\ ~Done(slot[job.b])
    BY <2>1 DEF Owned, Working, Done, Terminal, TypeOK
  <2>3. fin[job.b] = "PENDING"
    BY <2>1, <2>2 DEF Gathered, Working, TypeOK
  <2>4. UNCHANGED manifest
    BY <1>12 DEF CompleteFailed, Fault
  <2>5. \A b \in Batch, s \in Slot : slot[b][s].status \in Terminal => slot'[b][s] = slot[b][s]
    BY <2>1, <2>2 DEF Wrote, Working
  <2> QED BY <2>1, <2>3, <2>4, <2>5 DEF Settles
<1>13. CASE AskFanIn
  BY <1>13 DEF AskFanIn, Settles, Gathered, Owned, Working, Done, Terminal, TypeOK
<1>14. CASE AskLost
  BY <1>14 DEF AskLost, Fault, Settles, Gathered, Owned, Working, Done, Terminal, TypeOK
<1>15. CASE AskThrows
  BY <1>15 DEF AskThrows, Fault, Settles, Gathered, Owned, Working, Done, Terminal, TypeOK
<1>16. CASE Stall
  BY <1>16 DEF Stall, Fault, Settles, Gathered, Owned, Working, Done, Terminal, TypeOK
<1>17. CASE Freeze
  BY <1>17 DEF Freeze, Settles, Gathered, Owned, Working, Done, Terminal, TypeOK
<1>18. CASE Bind
  BY <1>18 DEF Bind, Settles, Gathered, Owned, Working, Done, Terminal, TypeOK
<1>19. CASE FanInFails
  BY <1>19 DEF FanInFails, Fault, NoFault, Settles, Gathered, Owned, Working, Done, Terminal, TypeOK
<1>20. CASE Finish
  BY <1>20 DEF Finish, Settles, Gathered, Owned, Working, Done, Terminal, TypeOK
<1>21. CASE Report
  BY <1>21 DEF Report, Settles, Gathered, Owned, Working, Done, Terminal, TypeOK
<1>22. CASE ReportFails
  BY <1>22 DEF ReportFails, Fault, Settles, Gathered, Owned, Working, Done, Terminal, TypeOK
<1>23. CASE Crash
  BY <1>23 DEF Crash, Fault, Settles, Gathered, Owned, Working, Done, Terminal, TypeOK
<1>24. ASSUME NEW b \in Batch, Plan(b)
     PROVE  \A c \in Batch : Settles(c)
  BY <1>24 DEF Plan, Settles, Gathered, Owned, Working, Done, Terminal, TypeOK
<1>25. ASSUME NEW b \in Batch, Defer(b)
     PROVE  \A c \in Batch : Settles(c)
  BY <1>25 DEF Defer, Settles, Gathered, Owned, Working, Done, Terminal, TypeOK
<1>26. ASSUME NEW b \in Batch, ClaimFanIn(b)
     PROVE  \A c \in Batch : Settles(c)
  <2>1. \A c \in Batch : fin[c] = "FINALIZED" => fin'[c] = "FINALIZED"
    BY <1>26 DEF ClaimFanIn, Claimable, TypeOK
  <2> QED BY <1>26, <2>1 DEF ClaimFanIn, Settles
<1>27. ASSUME NEW s \in Slot, PublishSlot(s)
     PROVE  \A c \in Batch : Settles(c)
  BY <1>27 DEF PublishSlot, Fault, NoFault, Settles, Gathered, Owned, Working, Done, Terminal, TypeOK
<1>28. ASSUME NEW b \in Batch, NEW s \in Slot, ClaimSlot(b, s)
     PROVE  \A c \in Batch : Settles(c)
  <2>1. slot' = [slot EXCEPT ![b][s].status = "RUNNING"] /\ slot[b][s].status \notin Terminal /\ UNCHANGED manifest
    BY <1>28 DEF ClaimSlot, Terminal
  <2>2. ~Done(slot[b])
    BY <2>1 DEF Done
  <2>3. \A c \in Batch, t \in Slot : slot[c][t].status \in Terminal => slot'[c][t] = slot[c][t]
    BY <2>1 DEF TypeOK
  <2>4. \A c \in Batch : fin[c] = "FINALIZED" => fin'[c] = fin[c]
    BY <1>28, <2>2 DEF ClaimSlot, Gathered, TypeOK
  <2> QED BY <2>1, <2>3, <2>4 DEF Settles
<1>29. ASSUME NEW b \in Batch, NEW s \in Slot, IgnoreSlot(b, s)
     PROVE  \A c \in Batch : Settles(c)
  BY <1>29 DEF IgnoreSlot, Settles, Gathered, Owned, Working, Done, Terminal, TypeOK
<1>30. ASSUME NEW o \in Outcomes, Acquire(o)
     PROVE  \A c \in Batch : Settles(c)
  BY <1>30 DEF Acquire, Settles, Gathered, Owned, Working, Done, Terminal, TypeOK
<1>31. CASE UNCHANGED vars
  BY <1>31 DEF Settles
<1> QED
  BY <1>1, <1>2, <1>3, <1>4, <1>5, <1>6, <1>7, <1>8, <1>9, <1>10, <1>11,
     <1>12, <1>13, <1>14, <1>15, <1>16, <1>17, <1>18, <1>19, <1>20, <1>21,
     <1>22, <1>23, <1>24, <1>25, <1>26, <1>27, <1>28, <1>29, <1>30, <1>31
  DEF Next, Runs, Acquires, FansIn

(* Redeliveries undo nothing. *)
THEOREM Settled == Spec => SettledStays
<1>1. IInv /\ [Next]_vars => \A b \in Batch : Settles(b)
  BY SettlesKept DEF IInv
<1>2. IInv /\ [Next]_vars =>
        [\A b \in Batch :
           /\ \A s \in Slot : slot[b][s].status \in Terminal => slot'[b][s] = slot[b][s]
           /\ manifest[b] # None => manifest'[b] = manifest[b]
           /\ fin[b] = "FINALIZED" => fin'[b] = "FINALIZED"]_vars
  BY <1>1 DEF Settles
<1> QED BY <1>2, Inductive, PTL DEF Spec, SettledStays

----------------------------------------------------------------------------
(* The manifest: the fan-in's choice from the chain is a count over sets.  *)

(* A candidate of the batch's plan. *)
Offers(b, k) == chain[b] # None /\ \E i \in DOMAIN chain[b] : chain[b][i] = k

(* What jobs try and slots hold comes from the plan. *)
Sourced ==
  /\ job.pc \in {"trying", "fetching", "acquired"} =>
       \A i \in DOMAIN job.rest : Offers(job.b, job.rest[i])
  /\ \A b \in Batch, s \in Slot :
       /\ slot[b][s].reserved # None => Offers(b, slot[b][s].reserved)
       /\ slot[b][s].facts # "none" => Offers(b, slot[b][s].key)

(* A manifest is of a batch that is done, and holds what is usable in it. *)
Agreed ==
  \A b \in Batch : manifest[b] # None =>
    Done(slot[b]) /\ {manifest[b][s] : s \in Slot} \ {None} = Usable(b)

LEMMA Least ==
  ASSUME NEW S \in SUBSET Nat, S # {}
  PROVE  \E m \in S : \A n \in S : m <= n
<1>1. PICK m \in S : \A n \in S : <<n, m>> \notin OpToRel(<, Nat)
  BY NatLessThanWellFounded, WFMin
<1>2. ASSUME NEW n \in S PROVE m <= n
  <2>1. <<n, m>> \in Nat \X Nat /\ ~(n < m)
    BY <1>1 DEF OpToRel
  <2> QED BY <2>1
<1> QED BY <1>2

(* The usable candidates that the chain offers no later than k. *)
Upto(b, k) == {x \in Usable(b) : \E i \in DOMAIN chain[b] : chain[b][i] = x
                 /\ \A j \in DOMAIN chain[b] : chain[b][j] = k => i <= j}

LEMMA FirstOccurs ==
  ASSUME NEW c \in Seq(Key), NEW k, \E i \in DOMAIN c : c[i] = k
  PROVE  \E i \in DOMAIN c : c[i] = k /\ \A j \in DOMAIN c : c[j] = k => i <= j
<1> DEFINE S == {i \in DOMAIN c : c[i] = k}
<1>1. S \in SUBSET Nat /\ S # {}
  BY DEF S
<1>2. PICK m \in S : \A n \in S : m <= n
  BY <1>1, Least
<1> QED BY <1>2

(* Of two usable candidates, one is offered first. *)
LEMMA UptoNested ==
  ASSUME TypeOK, Sourced, NEW b \in Batch, NEW k \in Usable(b), NEW l \in Usable(b)
  PROVE  /\ k \in Upto(b, k)
         /\ Upto(b, k) \subseteq Upto(b, l) \/ Upto(b, l) \subseteq Upto(b, k)
         /\ Upto(b, k) = Upto(b, l) => k = l
<1>1. ASSUME NEW x \in Usable(b) PROVE Offers(b, x)
  BY DEF Usable, Sourced
<1>2. chain[b] \in Seq(Key) /\ DOMAIN chain[b] \subseteq Nat
  BY <1>1, ChainTyped DEF Offers
<1>3. PICK i \in DOMAIN chain[b] : chain[b][i] = k /\ \A j \in DOMAIN chain[b] : chain[b][j] = k => i <= j
  BY <1>1, <1>2, FirstOccurs DEF Offers
<1>4. PICK h \in DOMAIN chain[b] : chain[b][h] = l /\ \A j \in DOMAIN chain[b] : chain[b][j] = l => h <= j
  BY <1>1, <1>2, FirstOccurs DEF Offers
<1>5. k \in Upto(b, k) /\ l \in Upto(b, l)
  BY <1>3, <1>4 DEF Upto
<1>6. i <= h => Upto(b, k) \subseteq Upto(b, l)
  <2> SUFFICES ASSUME i <= h, NEW x \in Upto(b, k) PROVE x \in Upto(b, l)
    OBVIOUS
  <2>1. PICK g \in DOMAIN chain[b] : chain[b][g] = x /\ \A j \in DOMAIN chain[b] : chain[b][j] = k => g <= j
    BY DEF Upto
  <2>2. g <= h
    BY <1>2, <1>3, <2>1
  <2> QED BY <1>2, <1>4, <2>1, <2>2 DEF Upto
<1>7. h <= i => Upto(b, l) \subseteq Upto(b, k)
  <2> SUFFICES ASSUME h <= i, NEW x \in Upto(b, l) PROVE x \in Upto(b, k)
    OBVIOUS
  <2>1. PICK g \in DOMAIN chain[b] : chain[b][g] = x /\ \A j \in DOMAIN chain[b] : chain[b][j] = l => g <= j
    BY DEF Upto
  <2>2. g <= i
    BY <1>2, <1>4, <2>1
  <2> QED BY <1>2, <1>3, <2>1, <2>2 DEF Upto
<1>8. Upto(b, k) = Upto(b, l) => k = l
  <2> SUFFICES ASSUME k \in Upto(b, l), l \in Upto(b, k) PROVE k = l
    BY <1>5
  <2>1. PICK g \in DOMAIN chain[b] : chain[b][g] = k /\ \A j \in DOMAIN chain[b] : chain[b][j] = l => g <= j
    BY DEF Upto
  <2>2. PICK f \in DOMAIN chain[b] : chain[b][f] = l /\ \A j \in DOMAIN chain[b] : chain[b][j] = k => f <= j
    BY DEF Upto
  <2>3. g = f
    BY <1>2, <2>1, <2>2
  <2> QED BY <2>1, <2>2, <2>3
<1> QED BY <1>2, <1>5, <1>6, <1>7, <1>8

(* No more candidates are usable than there are slots. *)
LEMMA UsableFits ==
  ASSUME TypeOK, NEW b \in Batch
  PROVE  IsFiniteSet(Usable(b)) /\ Cardinality(Usable(b)) <= N
<1> DEFINE T == {t \in Slot : slot[b][t].facts = "facts"}
           f == [t \in T |-> slot[b][t].key]
<1>1. IsFiniteSet(Slot) /\ Cardinality(Slot) = N /\ N \in Nat
  BY FS_Interval, SlotsAssumption DEF Slot
<1>2. IsFiniteSet(T) /\ Cardinality(T) <= N /\ Cardinality(T) \in Nat
  BY <1>1, FS_Subset, FS_CardinalityType
<1>3. f \in Surjection(T, Usable(b))
  BY DEF Usable, Surjection
<1>4. IsFiniteSet(Usable(b)) /\ Cardinality(Usable(b)) <= Cardinality(T)
  BY <1>2, <1>3, FS_Surjection
<1>5. Cardinality(Usable(b)) \in Nat
  BY <1>4, FS_CardinalityType
<1> QED BY <1>1, <1>2, <1>4, <1>5

(* Usable candidates have slots of their own. *)
LEMMA RankApart ==
  ASSUME TypeOK, Sourced, NEW b \in Batch, NEW k \in Usable(b)
  PROVE  /\ Rank(b, k) \in Slot
         /\ \A l \in Usable(b) : Rank(b, k) = Rank(b, l) => k = l
<1>1. ASSUME NEW x PROVE Rank(b, x) = Cardinality(Upto(b, x))
  BY DEF Rank, Upto
<1>2. ASSUME NEW x \in Usable(b)
      PROVE  /\ IsFiniteSet(Upto(b, x)) /\ Cardinality(Upto(b, x)) \in Nat
             /\ Cardinality(Upto(b, x)) <= Cardinality(Usable(b))
  <2>1. Upto(b, x) \in SUBSET Usable(b)
    BY DEF Upto
  <2> QED BY <2>1, UsableFits, FS_Subset, FS_CardinalityType
<1>3. Cardinality(Upto(b, k)) # 0
  BY <1>2, UptoNested, FS_EmptySet
<1>4. Cardinality(Usable(b)) \in Nat /\ Cardinality(Usable(b)) <= N /\ N \in Nat
  BY UsableFits, FS_CardinalityType, SlotsAssumption
<1>5. Rank(b, k) \in Slot
  BY <1>1, <1>2, <1>3, <1>4 DEF Slot
<1>6. ASSUME NEW l \in Usable(b), Rank(b, k) = Rank(b, l) PROVE k = l
  <2>1. Cardinality(Upto(b, k)) = Cardinality(Upto(b, l))
    BY <1>1, <1>6
  <2>2. CASE Upto(b, k) \subseteq Upto(b, l)
    <3>1. Upto(b, k) = Upto(b, l)
      BY <1>2, <2>1, <2>2, FS_Subset
    <3> QED BY <3>1, UptoNested
  <2>3. CASE Upto(b, l) \subseteq Upto(b, k)
    <3>1. Upto(b, k) = Upto(b, l)
      BY <1>2, <2>1, <2>3, FS_Subset
    <3> QED BY <3>1, UptoNested
  <2> QED BY <2>2, <2>3, UptoNested
<1> QED BY <1>5, <1>6

(* The fan-in selects every fight that was acquired with facts. *)
LEMMA SelectsUsable ==
  ASSUME TypeOK, Owned, Sourced, NEW b \in Batch
  PROVE  {Selected(b)[s] : s \in Slot} \ {None} = Usable(b)
<1>1. None \notin Usable(b)
  BY Bits DEF Usable, Owned
<1>2. ASSUME NEW s \in Slot, Selected(b)[s] # None PROVE Selected(b)[s] \in Usable(b)
  BY <1>2 DEF Selected
<1>3. ASSUME NEW k \in Usable(b) PROVE \E s \in Slot : Selected(b)[s] = k
  <2> DEFINE s == Rank(b, k)
  <2>1. s \in Slot /\ \A l \in Usable(b) : Rank(b, l) = s => l = k
    BY RankApart
  <2>2. Selected(b)[s] = CHOOSE l \in Usable(b) : Rank(b, l) = s
    BY <2>1 DEF Selected
  <2>3. (CHOOSE l \in Usable(b) : Rank(b, l) = s) = k
    BY <2>1
  <2> QED BY <2>1, <2>2, <2>3
<1> QED BY <1>1, <1>2, <1>3

(* A plan is written once. *)
LEMMA ChainStays ==
  ASSUME TypeOK, [Next]_vars
  PROVE  \A b \in Batch : chain[b] # None => chain'[b] = chain[b]
<1>1. ASSUME NEW b \in Batch, Plan(b) \/ Defer(b)
      PROVE  \A c \in Batch : chain[c] # None => chain'[c] = chain[c]
  BY <1>1 DEF Plan, Defer, TypeOK
<1>2. CASE UNCHANGED chain
  BY <1>2
<1>3. (\E b \in Batch : Plan(b) \/ Defer(b)) \/ UNCHANGED chain
  BY DEF Next, Runs, Acquires, FansIn, vars, batches, StartRun, PublishSlot, EndRun, RunFails,
         ClaimSlot, IgnoreSlot, Refuse, Permit, Skip, Reserve, Acquire, FallBack, Completes,
         CompleteAcquired, CompleteExhausted, CompleteEmpty, CompleteFailed, AskFanIn, AskLost,
         AskThrows, Stall, ClaimFanIn, Freeze, Bind, FanInFails, Finish, Report, ReportFails,
         Crash, InSlotJob, InFanIn
<1> QED BY <1>1, <1>2, <1>3

LEMMA OfferStays ==
  ASSUME TypeOK, [Next]_vars, NEW b \in Batch, NEW k, Offers(b, k)
  PROVE  Offers(b, k)'
BY ChainStays DEF Offers

(* The job tries candidates of the plan; and the slots name such. *)
Tries == job.pc \in {"trying", "fetching", "acquired"} =>
           \A i \in DOMAIN job.rest : Offers(job.b, job.rest[i])
Names(b, r) == /\ r.reserved # None => Offers(b, r.reserved)
               /\ r.facts # "none" => Offers(b, r.key)
AllNamed == \A b \in Batch, s \in Slot : Names(b, slot[b][s])

LEMMA SourcedIs == Sourced <=> Tries /\ AllNamed
BY DEF Sourced, Tries, AllNamed, Names

LEMMA NamesStay ==
  ASSUME TypeOK, [Next]_vars, NEW b \in Batch, NEW s \in Slot,
         Names(b, slot'[b][s])
  PROVE  Names(b, slot[b][s])'
<1>1. \A k : Offers(b, k) => Offers(b, k)'
  BY OfferStays
<1> QED BY <1>1 DEF Names

(* What a step writes into a slot is a candidate of the plan. *)
LEMMA NamedAfter ==
  ASSUME TypeOK, Planned, Owned, Tries, AllNamed, [Next]_vars, NEW b \in Batch, NEW s \in Slot
  PROVE  Names(b, slot'[b][s])
<1>0. Names(b, slot[b][s])
  BY DEF AllNamed
<1>1. CASE Refuse
  <2>1. Wrote([Mine EXCEPT !.status = "PENDING", !.reserved = None])
    BY <1>1, SlotAfter DEF Refuse, At
  <2>2. Mine \in SlotRecord /\ Mine.facts = "none"
    BY <1>1, MineTyped DEF Refuse, At, Owned, Working, Terminal, Mine, TypeOK
  <2>3. Names(job.b, [Mine EXCEPT !.status = "PENDING", !.reserved = None])
    BY <2>2 DEF Names, SlotRecord
  <2> QED BY <1>0, <2>1, <2>3 DEF Wrote
<1>2. CASE Reserve
  <2>1. Wrote([Mine EXCEPT !.reserved = Head(job.rest)])
    BY <1>2, SlotAfter DEF Reserve, At
  <2>2. Mine \in SlotRecord /\ Mine.facts = "none"
    BY <1>2, MineTyped DEF Reserve, At, Owned, Working, Terminal, Mine, TypeOK
  <2>3. Offers(job.b, Head(job.rest))
    BY <1>2, JobFields DEF Reserve, At, Tries
  <2> QED BY <1>0, <2>1, <2>2, <2>3 DEF Names, Wrote, SlotRecord
<1>3. CASE FallBack
  <2>1. Wrote([Mine EXCEPT !.reserved = None])
    BY <1>3, SlotAfter DEF FallBack, At
  <2>2. Mine \in SlotRecord /\ Mine.facts = "none"
    BY <1>3, MineTyped DEF FallBack, At, Owned, Working, Terminal, Mine, TypeOK
  <2> QED BY <1>0, <2>1, <2>2 DEF Names, Wrote, SlotRecord
<1>4. CASE CompleteAcquired \/ CompleteExhausted \/ CompleteEmpty \/ CompleteFailed
  <2>1. PICK r : Final(r) /\ Wrote(r)
    BY <1>4, Ended
  <2>2. job.b \in Batch /\ job.s \in Slot
    BY <1>4, Ended DEF Working, TypeOK
  <2>3. r.facts # "none" => Offers(job.b, r.key)
    BY <2>1, <2>2, Bits DEF Final, AllNamed, Names, Mine
  <2>4. Names(job.b, r)
    BY <2>1, <2>3 DEF Names, Final
  <2>5. slot'[b][s] = IF b = job.b /\ s = job.s THEN r ELSE slot[b][s]
    BY <2>1 DEF Wrote
  <2> QED BY <1>0, <2>4, <2>5
<1>5. ASSUME NEW c \in Batch, NEW t \in Slot, ClaimSlot(c, t)
      PROVE  Names(b, slot'[b][s])
  <2>1. slot[b][s] \in SlotRecord
    BY DEF TypeOK
  <2>2. /\ slot'[b][s].reserved = slot[b][s].reserved
        /\ slot'[b][s].facts = slot[b][s].facts
        /\ slot'[b][s].key = slot[b][s].key
    BY <1>5, <2>1 DEF ClaimSlot, TypeOK, SlotRecord
  <2> QED BY <1>0, <2>2 DEF Names
<1>6. CASE UNCHANGED slot
  BY <1>0, <1>6
<1>7. \/ Refuse \/ Reserve \/ FallBack
      \/ CompleteAcquired \/ CompleteExhausted \/ CompleteEmpty \/ CompleteFailed
      \/ \E c \in Batch, t \in Slot : ClaimSlot(c, t)
      \/ UNCHANGED slot
  BY DEF Next, Runs, Acquires, FansIn, vars, batches, StartRun, Plan, Defer, PublishSlot, EndRun,
         RunFails, IgnoreSlot, Permit, Skip, Acquire, AskFanIn, AskLost, AskThrows, Stall,
         ClaimFanIn, Freeze, Bind, FanInFails, Finish, Report, ReportFails, Crash, InFanIn
<1> QED BY <1>1, <1>2, <1>3, <1>4, <1>5, <1>6, <1>7

(* What a job goes on to try is a candidate of the plan. *)
LEMMA TriesKept ==
  ASSUME TypeOK, Planned, Owned, Tries, [Next]_vars
  PROVE  Tries'
<1>0. \A b \in Batch : \A k : Offers(b, k) => Offers(b, k)'
  BY OfferStays
<1>a. job.pc # "idle" => job.b \in Batch
  BY DEF TypeOK
<1>1. CASE Permit
  <2>1. job'.pc = "trying" /\ job'.b = job.b /\ job'.rest = chain[job.b] /\ job.b \in Batch
    BY <1>1 DEF Permit, At, TypeOK, JobRecord
  <2>2. \A i \in DOMAIN chain[job.b] : Offers(job.b, chain[job.b][i])
    BY <1>1 DEF Permit, At, Planned, Offers
  <2> QED BY <1>0, <2>1, <2>2 DEF Tries
<1>2. CASE Skip \/ FallBack
  <2>1. job.rest \in Seq(Key) /\ job.rest # <<>> /\ job.pc \in {"trying", "fetching"}
    BY <1>2, JobFields DEF Skip, FallBack, At, Owned
  <2>2. job'.b = job.b /\ job'.rest = Tail(job.rest)
    BY <1>2 DEF Skip, FallBack, TypeOK, JobRecord
  <2>3. \A i \in DOMAIN Tail(job.rest) : i + 1 \in DOMAIN job.rest /\ Tail(job.rest)[i] = job.rest[i + 1]
    BY <2>1
  <2>4. \A i \in DOMAIN Tail(job.rest) : Offers(job.b, Tail(job.rest)[i])
    BY <2>1, <2>3 DEF Tries
  <2> QED BY <1>0, <1>a, <2>1, <2>2, <2>4 DEF Tries
<1>3. CASE Reserve \/ \E o \in Outcomes : Acquire(o)
  <2>1. job.pc \in {"trying", "fetching"} /\ job'.b = job.b /\ job'.rest = job.rest
    BY <1>3 DEF Reserve, Acquire, At, Goes, TypeOK, JobRecord
  <2> QED BY <1>0, <1>a, <2>1 DEF Tries
<1>4. CASE CompleteAcquired \/ CompleteExhausted \/ CompleteEmpty \/ CompleteFailed \/ AskThrows
  BY <1>4, JobOver DEF Tries
<1>5. CASE Ends
  BY <1>5 DEF Ends, Idle, Tries
<1>6. ASSUME NEW b \in Batch, NEW s \in Slot, ClaimSlot(b, s)
      PROVE  Tries'
  BY <1>6 DEF ClaimSlot, Idle, Tries
<1>7. CASE UNCHANGED job
  BY <1>0, <1>a, <1>7 DEF Tries
<1>8. \/ Permit \/ Skip \/ FallBack \/ Reserve \/ (\E o \in Outcomes : Acquire(o))
      \/ CompleteAcquired \/ CompleteExhausted \/ CompleteEmpty \/ CompleteFailed \/ AskThrows
      \/ Ends \/ (\E b \in Batch, s \in Slot : ClaimSlot(b, s)) \/ UNCHANGED job
  BY DEF Next, Runs, Acquires, FansIn, vars, slotWork, StartRun, Plan, Defer, PublishSlot, EndRun,
         RunFails, IgnoreSlot, Refuse, AskFanIn, AskLost, Stall, SlotsKept,
         ClaimFanIn, Freeze, Bind, FanInFails, Finish, Report, ReportFails, Crash, InFanIn
<1> QED BY <1>1, <1>2, <1>3, <1>4, <1>5, <1>6, <1>7, <1>8

LEMMA SourcedKept ==
  ASSUME TypeOK, Planned, Owned, Sourced, [Next]_vars
  PROVE  Sourced'
<1>1. Tries /\ AllNamed
  BY SourcedIs
<1>2. \A b \in Batch, s \in Slot : Names(b, slot[b][s])'
  BY <1>1, NamedAfter, NamesStay
<1>3. Tries' /\ AllNamed'
  BY <1>1, <1>2, TriesKept DEF AllNamed
<1> QED BY <1>3 DEF Sourced, Tries, AllNamed, Names

LEMMA OnlyFreeze ==
  ASSUME [Next]_vars
  PROVE  Freeze \/ UNCHANGED manifest
BY DEF Next, Runs, Acquires, FansIn, vars, batches, StartRun, Plan, Defer, PublishSlot,
       EndRun, RunFails, ClaimSlot, IgnoreSlot, Refuse, Permit, Skip, Reserve, Acquire,
       FallBack, Completes, CompleteAcquired, CompleteExhausted, CompleteEmpty,
       CompleteFailed, AskFanIn, AskLost, AskThrows, Stall, ClaimFanIn, Bind, FanInFails,
       Finish, Report, ReportFails, Crash, InSlotJob

(* A manifest is frozen when its batch is done, and nothing in it changes. *)
LEMMA AgreedKept ==
  ASSUME TypeOK, Owned, Gathered, Sourced, Agreed, [Next]_vars
  PROVE  Agreed'
<1> SUFFICES ASSUME NEW b \in Batch, manifest'[b] # None
             PROVE  /\ Done(slot'[b])
                    /\ {manifest'[b][s] : s \in Slot} \ {None} = Usable(b)'
  BY DEF Agreed
<1>0. Settles(b)
  BY SettlesKept
<1>1. ASSUME Done(slot[b])
      PROVE  Done(slot'[b]) /\ Usable(b)' = Usable(b)
  <2>1. \A s \in Slot : slot'[b][s] = slot[b][s]
    BY <1>0, <1>1 DEF Settles, Done
  <2> QED BY <1>1, <2>1 DEF Done, Usable
<1>2. CASE manifest[b] # None
  BY <1>0, <1>1, <1>2 DEF Agreed, Settles
<1>3. CASE manifest[b] = None
  <2>1. Freeze /\ fanin.b = b
    BY <1>3, OnlyFreeze DEF Freeze, TypeOK
  <2>2. Done(slot[b])
    BY <2>1 DEF Freeze, FanInAt, Gathered
  <2>3. manifest'[b] = Selected(b)
    BY <1>3, <2>1 DEF Freeze, TypeOK
  <2> QED BY <1>1, <2>2, <2>3, SelectsUsable
<1> QED BY <1>2, <1>3

(* The manifest of a batch holds the very fights its slots acquired. *)
THEOREM ManifestsAgree == Spec => []ManifestAgrees
<1>1. Init => Sourced /\ Agreed
  BY Bits DEF Init, Sourced, Agreed, Idle, Fresh
<1>2. IInv /\ Sourced /\ Agreed /\ [Next]_vars => Sourced' /\ Agreed'
  BY SourcedKept, AgreedKept DEF IInv
<1>3. Agreed => ManifestAgrees
  BY DEF Agreed, ManifestAgrees
<1> QED BY <1>1, <1>2, <1>3, Inductive, PTL DEF Spec

----------------------------------------------------------------------------
(* Refinement.  A step ends one slot, freezes one manifest, finalizes one  *)
(* batch, or is a stutter of EvidenceAssignment.                           *)

(* A fan-in that has frozen its manifest finds it there. *)
Attached == fanin.pc \in {"binding", "finishing"} => manifest[fanin.b] # None

LEMMA SelectedIsOne ==
  ASSUME TypeOK, NEW b \in Batch
  PROVE  Selected(b) # None
<1>1. Usable(b) \subseteq Key \cup {None}
  BY DEF Usable, TypeOK, SlotRecord
<1>2. Selected(b) \in [Slot -> Key \cup {None}]
  <2> SUFFICES ASSUME NEW s \in Slot, \E k \in Usable(b) : Rank(b, k) = s
               PROVE  (CHOOSE k \in Usable(b) : Rank(b, k) = s) \in Key \cup {None}
    BY DEF Selected
  <2> QED BY <1>1
<1> QED BY <1>2, SlotsAssumption

LEMMA AttachedKept ==
  ASSUME TypeOK, Owned, Gathered, Attached, [Next]_vars
  PROVE  Attached'
<1>1. CASE Freeze
  <2>1. fanin'.b = fanin.b /\ fanin.b \in Batch
    BY <1>1 DEF Freeze, FanInAt, FanInTo, TypeOK, FanInRecord
  <2>2. manifest'[fanin.b] # None
    BY <1>1, <2>1, SelectedIsOne DEF Freeze, TypeOK
  <2> QED BY <2>1, <2>2 DEF Attached
<1>2. ASSUME fanin'.pc \in {"binding", "finishing"}, ~Freeze
      PROVE  fanin.pc \in {"binding", "finishing"} /\ fanin'.b = fanin.b
  <2>1. CASE Bind
    BY <2>1 DEF Bind, FanInAt, FanInTo, TypeOK, FanInRecord
  <2>2. ~Finish
    BY <1>2 DEF Finish, FanInTo, TypeOK, FanInRecord
  <2>3. ~FanInFails /\ ~Report /\ ~ReportFails /\ ~Crash
    BY <1>2 DEF FanInFails, Report, ReportFails, Crash, FanInEnds
  <2>4. ASSUME NEW b \in Batch, ClaimFanIn(b) PROVE UNCHANGED fanin
    BY <1>2, <2>4 DEF ClaimFanIn
  <2>5. Bind \/ UNCHANGED fanin
    BY <1>2, <2>2, <2>3, <2>4
       DEF Next, Runs, Acquires, FansIn, vars, batches, StartRun, Plan, Defer, PublishSlot,
           EndRun, RunFails, ClaimSlot, IgnoreSlot, Refuse, Permit, Skip, Reserve, Acquire,
           FallBack, Completes, CompleteAcquired, CompleteExhausted, CompleteEmpty,
           CompleteFailed, AskFanIn, AskLost, AskThrows, Stall, InSlotJob, FanInKept
  <2> QED BY <1>2, <2>1, <2>5
<1>3. CASE ~Freeze
  <2> SUFFICES ASSUME fanin'.pc \in {"binding", "finishing"} PROVE manifest'[fanin'.b] # None
    BY DEF Attached
  <2>1. fanin.pc \in {"binding", "finishing"} /\ fanin'.b = fanin.b
    BY <1>2, <1>3
  <2> QED BY <1>3, <2>1, OnlyFreeze DEF Attached
<1> QED BY <1>1, <1>3

Completion == CompleteAcquired \/ CompleteExhausted \/ CompleteEmpty \/ CompleteFailed

SlotView == <<OverSlots, Holds, WithFacts>>

(* But for the end of a slot, no step changes what the abstract slots are. *)
LEMMA OnlyCompletion ==
  ASSUME TypeOK, Owned, [Next]_vars
  PROVE  Completion \/ UNCHANGED SlotView
<1> DEFINE Alike(r, q) == /\ r.status \in Terminal <=> q.status \in Terminal
                          /\ r.facts = q.facts /\ r.key = q.key
           Same == \A b \in Batch, s \in Slot : Alike(slot'[b][s], slot[b][s])
<1>1. Same => UNCHANGED SlotView
  BY DEF SlotView, OverSlots, Holds, WithFacts
<1> HIDE DEF Same
<1>2. ASSUME job.pc # "idle", NEW r, Writes(r), Alike(r, Mine)
      PROVE  Same
  <2>1. Wrote(r)
    BY <1>2, SlotAfter
  <2>2. ASSUME NEW b \in Batch, NEW s \in Slot PROVE Alike(slot'[b][s], slot[b][s])
    BY <1>2, <2>1 DEF Wrote, Mine
  <2> QED BY <2>2 DEF Same
<1>3. CASE Refuse
  <2>1. Mine \in SlotRecord /\ Mine.status = "RUNNING"
    BY <1>3, MineTyped DEF Refuse, At, Owned, Working
  <2>2. Alike([Mine EXCEPT !.status = "PENDING", !.reserved = None], Mine)
    BY <2>1 DEF SlotRecord, Terminal
  <2> QED BY <1>1, <1>2, <1>3, <2>2 DEF Refuse, At
<1>4. CASE Reserve
  <2>1. Mine \in SlotRecord
    BY <1>4, MineTyped DEF Reserve, At
  <2>2. Alike([Mine EXCEPT !.reserved = Head(job.rest)], Mine)
    BY <2>1 DEF SlotRecord
  <2> QED BY <1>1, <1>2, <1>4, <2>2 DEF Reserve, At
<1>5. CASE FallBack
  <2>1. Mine \in SlotRecord
    BY <1>5, MineTyped DEF FallBack, At
  <2>2. Alike([Mine EXCEPT !.reserved = None], Mine)
    BY <2>1 DEF SlotRecord
  <2> QED BY <1>1, <1>2, <1>5, <2>2 DEF FallBack, At
<1>6. ASSUME NEW c \in Batch, NEW t \in Slot, ClaimSlot(c, t)
      PROVE  Same
  <2>1. slot[c][t] \in SlotRecord /\ slot[c][t].status = "PENDING"
    BY <1>6 DEF ClaimSlot, TypeOK
  <2>2. Alike([slot[c][t] EXCEPT !.status = "RUNNING"], slot[c][t])
    BY <2>1 DEF SlotRecord, Terminal
  <2>3. \A b \in Batch, s \in Slot :
          slot'[b][s] = IF b = c /\ s = t THEN [slot[c][t] EXCEPT !.status = "RUNNING"]
                        ELSE slot[b][s]
    BY <1>6 DEF ClaimSlot, TypeOK
  <2> HIDE DEF Alike
  <2>4. \A b \in Batch, s \in Slot : Alike(slot[b][s], slot[b][s])
    BY DEF Alike
  <2> QED BY <2>2, <2>3, <2>4 DEF Same
<1>7. CASE UNCHANGED slot
  BY <1>7 DEF SlotView, OverSlots, Holds, WithFacts
<1>8. \/ Refuse \/ Reserve \/ FallBack \/ Completion
      \/ (\E c \in Batch, t \in Slot : ClaimSlot(c, t))
      \/ UNCHANGED slot
  BY DEF Completion, Next, Runs, Acquires, FansIn, vars, batches, StartRun, Plan, Defer,
         PublishSlot, EndRun, RunFails, IgnoreSlot, Permit, Skip, Acquire, AskFanIn, AskLost,
         AskThrows, Stall, ClaimFanIn, Freeze, Bind, FanInFails, Finish, Report, ReportFails,
         Crash, InFanIn
<1> QED BY <1>1, <1>3, <1>4, <1>5, <1>6, <1>7, <1>8

(* Nothing is finalized but by the fan-in. *)
LEMMA OnlyFinish ==
  ASSUME TypeOK, Owned, Gathered, [Next]_vars
  PROVE  Finish \/ UNCHANGED Finalized
<1>0. \A b \in Batch : fin[b] = "FINALIZED" => fin'[b] = "FINALIZED"
  BY SettlesKept DEF Settles
<1>1. CASE \A b \in Batch : fin'[b] = "FINALIZED" => fin[b] = "FINALIZED"
  BY <1>0, <1>1 DEF Finalized
<1>2. CASE UNCHANGED fin
  BY <1>2 DEF Finalized
<1>3. CASE Completion
  <2>1. fin' = [fin EXCEPT ![job.b] = "READY_TO_FINALIZE"] \/ fin' = [fin EXCEPT ![job.b] = "PENDING"]
    BY <1>3 DEF Completion, CompleteAcquired, CompleteExhausted, CompleteEmpty, Completes, CompleteFailed
  <2> QED BY <1>1, <2>1 DEF TypeOK
<1>4. CASE FanInFails
  BY <1>1, <1>4 DEF FanInFails, TypeOK
<1>5. ASSUME NEW b \in Batch, ClaimFanIn(b) \/ \E s \in Slot : ClaimSlot(b, s)
      PROVE  Finish \/ UNCHANGED Finalized
  <2>1. CASE ClaimFanIn(b)
    <3>1. UNCHANGED fin \/ fin' = [fin EXCEPT ![b] = "FINALIZING"]
      BY <2>1 DEF ClaimFanIn
    <3> QED BY <1>1, <1>2, <3>1 DEF TypeOK
  <2>2. CASE \E s \in Slot : ClaimSlot(b, s)
    <3>1. fin' = [fin EXCEPT ![b] = "PENDING"]
      BY <2>2 DEF ClaimSlot
    <3> QED BY <1>1, <3>1 DEF TypeOK
  <2> QED BY <1>5, <2>1, <2>2
<1>6. \/ Finish \/ Completion \/ FanInFails \/ UNCHANGED fin
      \/ \E b \in Batch : ClaimFanIn(b) \/ \E s \in Slot : ClaimSlot(b, s)
  BY DEF Completion, Next, Runs, Acquires, FansIn, vars, batches, StartRun, Plan, Defer,
         PublishSlot, EndRun, RunFails, IgnoreSlot, Refuse, Permit, Skip, Reserve, Acquire,
         FallBack, AskFanIn, AskLost, AskThrows, Stall, Freeze, Bind, Report, ReportFails, Crash
<1> QED BY <1>2, <1>3, <1>4, <1>5, <1>6

(* A slot that ends does so once, and with a fight no other slot holds. *)
LEMMA CompletionStep ==
  ASSUME TypeOK, Owned, Gathered, Apart, [Next]_vars, Completion
  PROVE  Assignment!AssignmentNext
<1>1. Working /\ job.b \in Batch /\ job.s \in Slot
  BY Ended DEF Completion, Working, TypeOK
<1>2. PICK r : Final(r) /\ Wrote(r)
  BY Ended DEF Completion
<1>3. /\ UNCHANGED manifest /\ ~Finish
      /\ UNCHANGED <<Frozen, Chosen, Finalized>>
  <2>1. UNCHANGED manifest
    BY DEF Completion, CompleteAcquired, CompleteExhausted, CompleteEmpty, Completes, CompleteFailed,
           InSlotJob
  <2>2. ~Finish
    <3>1. UNCHANGED fanin
      BY DEF Completion, CompleteAcquired, CompleteExhausted, CompleteEmpty, Completes,
             CompleteFailed, FanInKept
    <3> QED BY <3>1 DEF Finish, FanInAt, FanInTo, TypeOK, FanInRecord
  <2> QED BY <2>1, <2>2, OnlyFinish DEF Frozen, Chosen
<1>4. Mine.status = "RUNNING" /\ Mine.facts = "none"
  BY <1>1 DEF Owned, Mine, Terminal
<1>5. job.s \notin OverSlots[job.b]
  BY <1>1, <1>4 DEF OverSlots, Mine, Terminal
<1>6. OverSlots' = [OverSlots EXCEPT ![job.b] = @ \cup {job.s}]
  <2>1. \A b \in Batch : OverSlots'[b] = IF b = job.b THEN OverSlots[b] \cup {job.s}
                                                      ELSE OverSlots[b]
    BY <1>1, <1>2 DEF OverSlots, Wrote, Final
  <2>2. OverSlots \in [Batch -> SUBSET Slot] /\ OverSlots' \in [Batch -> SUBSET Slot]
    BY DEF OverSlots
  <2> QED BY <1>1, <2>1, <2>2
<1>7. CASE r.facts = "none"
  <2>1. UNCHANGED <<Holds, WithFacts>>
    BY <1>1, <1>2, <1>4, <1>7 DEF Holds, WithFacts, Wrote, Mine
  <2> QED BY <1>1, <1>3, <1>5, <1>6, <2>1 DEF Assignment!AssignmentNext, Assignment!GoWithout
<1>8. CASE r.facts # "none"
  <2>1. r.key \in Key /\ r.key = Mine.reserved
    BY <1>2, <1>8 DEF Final
  <2>2. \A t \in Slot : Holds[job.b][t] # r.key
    <3> SUFFICES ASSUME NEW t \in Slot, Holds[job.b][t] = r.key PROVE FALSE
      OBVIOUS
    <3>1. slot[job.b][t].facts # "none" /\ slot[job.b][t].key = r.key
      BY <1>1, <2>1, Bits DEF Holds
    <3>2. t = job.s
      BY <1>1, <2>1, <3>1, Bits DEF Apart, Takes, Mine
    <3> QED BY <1>4, <3>1, <3>2 DEF Mine
  <2>3. Holds' = [Holds EXCEPT ![job.b][job.s] = r.key]
    <3>1. \A b \in Batch : \A t \in Slot :
            Holds'[b][t] = IF b = job.b /\ t = job.s THEN r.key ELSE Holds[b][t]
      BY <1>1, <1>2, <1>8 DEF Holds, Wrote
    <3>2. Holds = [b \in Batch |-> [t \in Slot |-> Holds[b][t]]]
      BY DEF Holds
    <3>3. Holds' = [b \in Batch |-> [t \in Slot |-> Holds'[b][t]]]
      BY DEF Holds
    <3>4. Holds' = [b \in Batch |-> [t \in Slot |->
                      IF b = job.b /\ t = job.s THEN r.key ELSE Holds[b][t]]]
      BY <3>1, <3>3
    <3>5. [Holds EXCEPT ![job.b][job.s] = r.key]
            = [b \in Batch |-> [t \in Slot |->
                 IF b = job.b /\ t = job.s THEN r.key ELSE Holds[b][t]]]
      BY <1>1, <3>2
    <3> QED BY <3>4, <3>5
  <2>4. WithFacts' \in {WithFacts, [WithFacts EXCEPT ![job.b] = @ \cup {job.s}]}
    <3>1. \A b \in Batch :
            WithFacts'[b] = IF b = job.b /\ r.facts = "facts" THEN WithFacts[b] \cup {job.s}
                                                              ELSE WithFacts[b]
      BY <1>1, <1>2, <1>4 DEF WithFacts, Wrote, Mine
    <3>2. CASE r.facts = "facts"
      BY <1>1, <3>1, <3>2 DEF WithFacts
    <3>3. CASE r.facts # "facts"
      BY <3>1, <3>3 DEF WithFacts
    <3> QED BY <3>2, <3>3
  <2> QED BY <1>1, <1>3, <1>5, <1>6, <2>1, <2>2, <2>3, <2>4
          DEF Assignment!AssignmentNext, Assignment!Take
<1> QED BY <1>7, <1>8

(* The manifest is chosen when all slots have ended, from all of them. *)
LEMMA FreezeStep ==
  ASSUME TypeOK, Owned, Gathered, Sourced, Freeze, manifest[fanin.b] = None
  PROVE  Assignment!AssignmentNext
<1> DEFINE b == fanin.b
<1>1. b \in Batch /\ Done(slot[b]) /\ UNCHANGED <<slot, fin>>
  BY DEF Freeze, FanInAt, TypeOK, Gathered, InFanIn
<1>2. manifest' = [manifest EXCEPT ![b] = Selected(b)] /\ Selected(b) # None
  BY <1>1, SelectedIsOne DEF Freeze, TypeOK
<1>3. b \notin Frozen /\ OverSlots[b] = Slot
  BY <1>1 DEF Frozen, OverSlots, Done
<1>4. Frozen' = Frozen \cup {b}
  BY <1>1, <1>2 DEF Frozen, TypeOK
<1>5. {Holds[b][s] : s \in WithFacts[b]} = Usable(b)
  <2>1. WithFacts[b] = {t \in Slot : slot[b][t].facts = "facts"}
    BY <1>1 DEF WithFacts
  <2>2. \A s \in WithFacts[b] : Holds[b][s] = slot[b][s].key
    BY <1>1, <2>1 DEF Holds
  <2> QED BY <2>1, <2>2 DEF Usable
<1>6. Chosen' = [Chosen EXCEPT ![b] = {Holds[b][s] : s \in WithFacts[b]}]
  <2>1. \A c \in Batch : Chosen'[c] = IF c = b THEN Usable(b) ELSE Chosen[c]
    <3>1. ASSUME NEW c \in Batch, c # b PROVE Chosen'[c] = Chosen[c]
      BY <1>2, <3>1 DEF Chosen, TypeOK
    <3>2. manifest'[b] = Selected(b)
      BY <1>1, <1>2 DEF TypeOK
    <3>3. Chosen'[b] = {Selected(b)[s] : s \in Slot} \ {None}
      BY <1>1, <1>2, <3>2 DEF Chosen
    <3> QED BY <1>1, <3>1, <3>3, SelectsUsable
  <2> QED BY <1>1, <1>5, <2>1 DEF Chosen
<1>7. UNCHANGED <<OverSlots, Holds, WithFacts, Finalized>>
  BY <1>1 DEF OverSlots, Holds, WithFacts, Finalized
<1> QED BY <1>1, <1>3, <1>4, <1>6, <1>7 DEF Assignment!AssignmentNext, Assignment!Choose

LEMMA FinishStep ==
  ASSUME TypeOK, Attached, Finish
  PROVE  Assignment!AssignmentNext
<1>1. fanin.b \in Batch /\ fanin.b \in Frozen
  BY DEF Finish, FanInAt, TypeOK, Attached, Frozen
<1>2. Finalized' = Finalized \cup {fanin.b}
  BY <1>1 DEF Finish, Finalized, TypeOK
<1>3. UNCHANGED <<OverSlots, Holds, WithFacts, Frozen, Chosen>>
  BY DEF Finish, InFanIn, OverSlots, Holds, WithFacts, Frozen, Chosen
<1> QED BY <1>1, <1>2, <1>3 DEF Assignment!AssignmentNext, Assignment!Conclude

LEMMA AssignmentStep ==
  ASSUME IInv, Sourced, Attached, [Next]_vars
  PROVE  \/ Assignment!AssignmentNext
         \/ UNCHANGED <<OverSlots, Holds, WithFacts, Frozen, Chosen, Finalized>>
<1> USE DEF IInv
<1>1. CASE Completion
  BY <1>1, CompletionStep
<1>2. CASE Freeze
  <2>1. CASE manifest[fanin.b] = None
    BY <1>2, <2>1, FreezeStep
  <2>2. CASE manifest[fanin.b] # None
    <3>1. manifest' = manifest /\ UNCHANGED <<slot, fin>>
      BY <1>2, <2>2 DEF Freeze, InFanIn, TypeOK
    <3> QED BY <3>1 DEF OverSlots, Holds, WithFacts, Frozen, Chosen, Finalized
  <2> QED BY <2>1, <2>2
<1>3. CASE Finish
  BY <1>3, FinishStep
<1>4. CASE ~Completion /\ ~Freeze /\ ~Finish
  <2>1. UNCHANGED SlotView /\ UNCHANGED manifest /\ UNCHANGED Finalized
    BY <1>4, OnlyCompletion, OnlyFreeze, OnlyFinish
  <2> QED BY <2>1 DEF SlotView, Frozen, Chosen
<1> QED BY <1>1, <1>2, <1>3, <1>4

(* The jobs of a canary, under every fault and redelivery, implement the   *)
(* assignment of fights to slots that EvidenceAssignment describes.        *)
THEOREM SlotsImplementAssignment == Spec => AssignmentRefined
<1>1. Init => Assignment!AssignmentInit
  BY DEF Init, Fresh, Assignment!AssignmentInit, OverSlots, Holds, WithFacts, Frozen, Chosen,
         Finalized, Terminal
<1>2. Init => Sourced /\ Attached
  BY Bits DEF Init, Sourced, Attached, Idle, Fresh
<1>3. IInv /\ Sourced /\ Attached /\ [Next]_vars => Sourced' /\ Attached'
  BY SourcedKept, AttachedKept DEF IInv
<1>4. IInv /\ Sourced /\ Attached /\ [Next]_vars
        => [Assignment!AssignmentNext]_<<OverSlots, Holds, WithFacts, Frozen, Chosen, Finalized>>
  BY AssignmentStep
<1> QED
  BY <1>1, <1>2, <1>3, <1>4, Inductive, PTL
     DEF Spec, AssignmentRefined, Assignment!AssignmentSpec, Assignment!assignmentVars
=============================================================================
