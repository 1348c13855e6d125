------------------------ MODULE BulkProcessingProofs ------------------------
(***************************************************************************)
(* Proofs about BulkProcessing, for every selection, batch size, budget    *)
(* and number of requests and failures.                                    *)
(*                                                                         *)
(* The invariant says what the tick in progress may rely on: the status    *)
(* under which each of its steps runs, that the checkpoint in memory and   *)
(* the one in the row differ by no more than the batch, and that no item   *)
(* becomes pending once the selection is saved.                            *)
(***************************************************************************)
EXTENDS BulkProcessing, FiniteSetTheorems, TLAPS

Lot == BatchSize * Cost

InBatch   == pc \in {"batch", "recording"}
Selecting == pc \in {"marking", "selecting"}
InMemory  == ~(pc = "idle" \/ Selecting)

Sequenced ==
  /\ ~selected => /\ \A i \in Item : item[i] = "none"
                  /\ consumed = 0 /\ spent = 0
  /\ pc = "idle" \/ (Selecting <=> ~selected)
  /\ selected => status \notin {"PENDING", "SELECTING"}
  /\ pc = "reread" => status = "RUNNING" \/ (status = "PAUSED" /\ pause)
  /\ InBatch => status = "RUNNING"

Settled ==
  /\ status \in Terminal => Pending = {}
  /\ pc \in {"cancelled", "completed"} => Pending = {}

Budgeted ==
  /\ consumed <= Budget
  /\ InMemory /\ ~InBatch => calls = consumed
  /\ InBatch => /\ calls + Estimate(todo) <= Budget
                /\ calls + Estimate(todo) <= consumed + Lot

(* What the refresh of item i, published and not yet recorded, costs. *)
Unrecorded(i) == IF pc = "recording" /\ First(i, todo) /\ i \in Full THEN Cost ELSE 0

Ledger ==
  /\ ~InMemory => spent <= consumed + faults * Lot
  /\ InMemory /\ pc # "recording" => spent <= calls + faults * Lot
  /\ \A i \in Item : pc = "recording" /\ First(i, todo)
                       => spent <= calls + Unrecorded(i) + faults * Lot
  /\ pc = "recording" => \E i \in Item : First(i, todo)

Left == IF pc = "batch" THEN Cardinality(todo)
        ELSE IF pc = "recording" THEN Cardinality(todo) - 1 ELSE 0

Bounded == late + Left <= BatchSize /\ (~cancel => late = 0)

IInv == TypeOK /\ Sequenced /\ Settled /\ Budgeted /\ Ledger /\ Bounded

----------------------------------------------------------------------------
(* What a batch is reckoned at. *)

LEMMA ItemsFinite == \A S \in SUBSET Item : IsFiniteSet(S) /\ Cardinality(S) \in Nat
<1>1. IsFiniteSet(Item)
  BY FS_Interval, BulkAssumption DEF Item
<1> QED BY <1>1, FS_Subset, FS_CardinalityType

LEMMA LotBounds ==
  /\ Lot \in Nat /\ Cost <= Lot
  /\ \A f \in Nat : f * Lot \in Nat /\ (f + 1) * Lot = f * Lot + Lot
BY BulkAssumption DEF Lot

LEMMA EstimateRemove ==
  ASSUME NEW S \in SUBSET Item, NEW i \in S
  PROVE  /\ Estimate(S) \in Nat /\ Estimate(S \ {i}) \in Nat
         /\ Estimate(S) = Estimate(S \ {i}) + (IF i \in Full THEN Cost ELSE 0)
<1> DEFINE F == S \cap Full
           G == (S \ {i}) \cap Full
<1>1. F \in SUBSET Item /\ G \in SUBSET Item /\ Cardinality(F) \in Nat /\ Cardinality(G) \in Nat
  BY ItemsFinite DEF Item
<1>e. Estimate(S) = Cost * Cardinality(F) /\ Estimate(S \ {i}) = Cost * Cardinality(G)
  BY DEF Estimate
<1>2. CASE i \in Full
  <2>1. G = F \ {i} /\ i \in F /\ IsFiniteSet(F)
    BY <1>2, <1>1, ItemsFinite
  <2>2. Cardinality(G) = Cardinality(F) - 1
    BY <2>1, FS_RemoveElement
  <2> QED BY <1>1, <1>2, <1>e, <2>2, BulkAssumption
<1>3. CASE i \notin Full
  <2>1. G = F
    BY <1>3
  <2>2. Estimate(S) \in Nat
    BY <1>1, <1>e, BulkAssumption
  <2>3. Estimate(S \ {i}) = Estimate(S)
    BY <1>e, <2>1
  <2> QED BY <1>3, <2>2, <2>3
<1> QED BY <1>2, <1>3

LEMMA EstimateBound ==
  ASSUME NEW S \in SUBSET Item, Cardinality(S) <= BatchSize
  PROVE  Estimate(S) \in Nat /\ Estimate(S) <= Lot
<1>1. IsFiniteSet(S) /\ Cardinality(S) \in Nat /\ Cardinality(S \cap Full) \in Nat
  BY ItemsFinite
<1>2. Cardinality(S \cap Full) <= Cardinality(S)
  BY <1>1, FS_Subset
<1> QED BY <1>1, <1>2, BulkAssumption DEF Estimate, Lot

LEMMA EstimateNat == \A S \in SUBSET Item : Estimate(S) \in Nat
BY ItemsFinite, BulkAssumption DEF Estimate

LEMMA UnrecordedBound ==
  ASSUME TypeOK, NEW i \in Item, First(i, todo)
  PROVE  Unrecorded(i) \in Nat /\ Unrecorded(i) <= Estimate(todo)
<1>1. i \in todo /\ todo \in SUBSET Item
  BY DEF First, TypeOK
<1>2. /\ Estimate(todo) \in Nat /\ Estimate(todo \ {i}) \in Nat
      /\ Estimate(todo) = Estimate(todo \ {i}) + (IF i \in Full THEN Cost ELSE 0)
  BY <1>1, EstimateRemove
<1> QED BY <1>2, BulkAssumption DEF Unrecorded

LEMMA EstimateEmpty == Estimate({}) = 0
BY FS_EmptySet, BulkAssumption DEF Estimate

----------------------------------------------------------------------------
(* Every step keeps the types. *)
LEMMA TypeKept ==
  ASSUME TypeOK, [Next]_vars
  PROVE  TypeOK'
<1> USE BulkAssumption DEF vars, row, tick, api, ledger, Outside, Quiet, BatchKept, Goes, Aside
<1>1. CASE StartTick
  BY <1>1 DEF StartTick, Ignores, TypeOK, Pausable, Terminal, Pending
<1>2. CASE MarkSelecting
  BY <1>2 DEF MarkSelecting, TypeOK, Pausable, Terminal, Pending
<1>3. CASE SaveSelection
  BY <1>3 DEF SaveSelection, Selected, TypeOK, Pausable, Terminal, Pending
<1>4. CASE Reread
  <2>1. /\ todo' \subseteq Item /\ orphans' \subseteq Item
        /\ progress' \in BOOLEAN /\ fresh' \in BOOLEAN
    BY <1>4 DEF Reread, Takes, Pending, TypeOK
  <2>2. pc' \in {"cancelling", "pausing", "completing", "batch"}
    BY <1>4 DEF Reread, Takes
  <2> QED BY <1>4, <2>1, <2>2 DEF Reread, TypeOK
<1>5. CASE SavePaused
  BY <1>5 DEF SavePaused, TypeOK, Pausable, Terminal, Pending
<1>6. CASE SkipPending
  BY <1>6 DEF SkipPending, First, TypeOK, Pausable, Terminal, Pending
<1>7. CASE SaveClosing
  BY <1>7 DEF SaveClosing, TypeOK, Pausable, Terminal, Pending
<1>8. CASE MarkTerminal
  BY <1>8 DEF MarkTerminal, TypeOK, Pausable, Terminal, Pending
<1>9. CASE SaveBatch
  BY <1>9 DEF SaveBatch, TypeOK, Pausable, Terminal, Pending
<1>10. CASE Rest
  BY <1>10 DEF Rest, TypeOK, Pausable, Terminal, Pending
<1>11. CASE Requeue
  BY <1>11 DEF Requeue, Fault, NoFault, TypeOK, Pausable, Terminal, Pending
<1>12. CASE Break
  BY <1>12 DEF Break, Fault, TypeOK, Pausable, Terminal, Pending
<1>13. CASE ChildEnds
  BY <1>13 DEF ChildEnds, TypeOK, Pausable, Terminal, Pending
<1>14. CASE Delete
  BY <1>14 DEF Delete, TypeOK, Pausable, Terminal, Pending
<1>15. ASSUME NEW i \in Item, SkipDeleted(i)
     PROVE  TypeOK'
  BY <1>15 DEF SkipDeleted, Tries, Done, First, TypeOK, Pausable, Terminal, Pending
<1>16. ASSUME NEW i \in Item, LeavePending(i)
     PROVE  TypeOK'
  BY <1>16 DEF LeavePending, Tries, Done, First, Fault, NoFault, TypeOK, Pausable, Terminal, Pending
<1>17. ASSUME NEW i \in Item, Dispatch(i)
     PROVE  TypeOK'
  <2>1. fresh' \in BOOLEAN
    BY <1>17 DEF Dispatch
  <2>2. child' \subseteq Item /\ spent' \in Nat /\ late' \in Nat /\ pc' = "recording"
    BY <1>17 DEF Dispatch, Publishes, TypeOK
  <2> QED BY <1>17, <2>1, <2>2 DEF Dispatch, TypeOK
<1>18. ASSUME NEW i \in Item, DispatchLost(i)
     PROVE  TypeOK'
  BY <1>18 DEF DispatchLost, Tries, First, Fault, TypeOK, Pausable, Terminal, Pending
<1>19. ASSUME NEW i \in Item, Record(i)
     PROVE  TypeOK'
  BY <1>19 DEF Record, Done, First, TypeOK, Pausable, Terminal, Pending
<1>20. ASSUME NEW i \in Item, RecordFails(i)
     PROVE  TypeOK'
  BY <1>20 DEF RecordFails, Done, First, Fault, TypeOK, Pausable, Terminal, Pending
<1>21. ASSUME NEW a \in Admin, WritePause(a)
     PROVE  TypeOK'
  BY <1>21 DEF WritePause, Asks, TypeOK, Pausable, Terminal, Pending
<1>22. ASSUME NEW a \in Admin, WriteResume(a)
     PROVE  TypeOK'
  BY <1>22 DEF WriteResume, Asks, TypeOK, Pausable, Terminal, Pending
<1>23. ASSUME NEW a \in Admin, WriteCancel(a)
     PROVE  TypeOK'
  BY <1>23 DEF WriteCancel, Asks, TypeOK, Pausable, Terminal, Pending
<1>24. ASSUME NEW a \in Admin, Publish(a)
     PROVE  TypeOK'
  BY <1>24 DEF Publish, Asks, Fault, NoFault, TypeOK, Pausable, Terminal, Pending
<1>25. ASSUME NEW a \in Admin, NEW what \in DOMAIN Allowed, Ask(a, what)
     PROVE  TypeOK'
  BY <1>25 DEF Ask, Asks, Allowed, TypeOK, Pausable, Terminal, Pending
<1>26. CASE UNCHANGED vars
  BY <1>26 DEF TypeOK, Pending
<1> QED
  BY <1>1, <1>2, <1>3, <1>4, <1>5, <1>6, <1>7, <1>8, <1>9, <1>10, <1>11,
     <1>12, <1>13, <1>14, <1>15, <1>16, <1>17, <1>18, <1>19, <1>20, <1>21,
     <1>22, <1>23, <1>24, <1>25, <1>26
  DEF Next, Worker, Proceed

----------------------------------------------------------------------------
(* Where the tick is agrees with the row, however requests interleave. *)
LEMMA SequencedKept ==
  ASSUME TypeOK, Sequenced, [Next]_vars
  PROVE  Sequenced'
<1> USE DEF vars, row, tick, api, ledger, Outside, Quiet, BatchKept, Goes, Aside
<1>1. CASE StartTick
  BY <1>1 DEF StartTick, Ignores, Sequenced, InBatch, Selecting, TypeOK, Terminal, Pausable
<1>2. CASE MarkSelecting
  BY <1>2 DEF MarkSelecting, Sequenced, InBatch, Selecting, TypeOK, Terminal, Pausable
<1>3. CASE SaveSelection
  BY <1>3 DEF SaveSelection, Selected, Sequenced, InBatch, Selecting, TypeOK, Terminal, Pausable
<1>4. CASE Reread
  BY <1>4 DEF Reread, Batch, Takes, Sequenced, InBatch, Selecting, TypeOK, Terminal, Pausable
<1>5. CASE SavePaused
  BY <1>5 DEF SavePaused, Sequenced, InBatch, Selecting, TypeOK, Terminal, Pausable
<1>6. CASE SkipPending
  BY <1>6 DEF SkipPending, First, Sequenced, InBatch, Selecting, TypeOK, Terminal, Pausable
<1>7. CASE SaveClosing
  BY <1>7 DEF SaveClosing, Sequenced, InBatch, Selecting, TypeOK, Terminal, Pausable
<1>8. CASE MarkTerminal
  BY <1>8 DEF MarkTerminal, Sequenced, InBatch, Selecting, TypeOK, Terminal, Pausable
<1>9. CASE SaveBatch
  BY <1>9 DEF SaveBatch, Sequenced, InBatch, Selecting, TypeOK, Terminal, Pausable
<1>10. CASE Rest
  BY <1>10 DEF Rest, Sequenced, InBatch, Selecting, TypeOK, Terminal, Pausable
<1>11. CASE Requeue
  BY <1>11 DEF Requeue, Fault, NoFault, Sequenced, InBatch, Selecting, TypeOK, Terminal, Pausable
<1>12. CASE Break
  BY <1>12 DEF Break, Fault, Sequenced, InBatch, Selecting, TypeOK, Terminal, Pausable
<1>13. CASE ChildEnds
  BY <1>13 DEF ChildEnds, Sequenced, InBatch, Selecting, TypeOK, Terminal, Pausable
<1>14. CASE Delete
  BY <1>14 DEF Delete, Sequenced, InBatch, Selecting, TypeOK, Terminal, Pausable
<1>15. ASSUME NEW i \in Item, SkipDeleted(i)
     PROVE  Sequenced'
  BY <1>15 DEF SkipDeleted, Tries, Done, First, Sequenced, InBatch, Selecting, TypeOK, Terminal, Pausable
<1>16. ASSUME NEW i \in Item, LeavePending(i)
     PROVE  Sequenced'
  BY <1>16 DEF LeavePending, Tries, Done, First, Fault, NoFault, Sequenced, InBatch, Selecting, TypeOK, Terminal, Pausable
<1>17. ASSUME NEW i \in Item, Dispatch(i)
     PROVE  Sequenced'
  BY <1>17 DEF Dispatch, Tries, Publishes, First, Sequenced, InBatch, Selecting, TypeOK, Terminal, Pausable
<1>18. ASSUME NEW i \in Item, DispatchLost(i)
     PROVE  Sequenced'
  BY <1>18 DEF DispatchLost, Tries, First, Fault, Sequenced, InBatch, Selecting, TypeOK, Terminal, Pausable
<1>19. ASSUME NEW i \in Item, Record(i)
     PROVE  Sequenced'
  BY <1>19 DEF Record, Done, First, Sequenced, InBatch, Selecting, TypeOK, Terminal, Pausable
<1>20. ASSUME NEW i \in Item, RecordFails(i)
     PROVE  Sequenced'
  BY <1>20 DEF RecordFails, Done, First, Fault, Sequenced, InBatch, Selecting, TypeOK, Terminal, Pausable
<1>21. ASSUME NEW a \in Admin, WritePause(a)
     PROVE  Sequenced'
  BY <1>21 DEF WritePause, Asks, Sequenced, InBatch, Selecting, TypeOK, Terminal, Pausable
<1>22. ASSUME NEW a \in Admin, WriteResume(a)
     PROVE  Sequenced'
  BY <1>22 DEF WriteResume, Asks, Sequenced, InBatch, Selecting, TypeOK, Terminal, Pausable
<1>23. ASSUME NEW a \in Admin, WriteCancel(a)
     PROVE  Sequenced'
  BY <1>23 DEF WriteCancel, Asks, Sequenced, InBatch, Selecting, TypeOK, Terminal, Pausable
<1>24. ASSUME NEW a \in Admin, Publish(a)
     PROVE  Sequenced'
  BY <1>24 DEF Publish, Asks, Fault, NoFault, Sequenced, InBatch, Selecting, TypeOK, Terminal, Pausable
<1>25. ASSUME NEW a \in Admin, NEW what \in DOMAIN Allowed, Ask(a, what)
     PROVE  Sequenced'
  BY <1>25 DEF Ask, Asks, Allowed, Sequenced, InBatch, Selecting, TypeOK, Terminal, Pausable
<1>26. CASE UNCHANGED vars
  BY <1>26 DEF Sequenced, InBatch, Selecting, TypeOK, Terminal, Pausable
<1> QED
  BY <1>1, <1>2, <1>3, <1>4, <1>5, <1>6, <1>7, <1>8, <1>9, <1>10, <1>11,
     <1>12, <1>13, <1>14, <1>15, <1>16, <1>17, <1>18, <1>19, <1>20, <1>21,
     <1>22, <1>23, <1>24, <1>25, <1>26
  DEF Next, Worker, Proceed

(* Nothing becomes pending once the operation is closed or closing. *)
LEMMA SettledKept ==
  ASSUME TypeOK, Sequenced, Settled, [Next]_vars
  PROVE  Settled'
<1> USE DEF vars, row, tick, api, ledger, Outside, Quiet, BatchKept, Goes, Aside
<1>1. CASE StartTick
  BY <1>1 DEF StartTick, Ignores, Settled, Pending, Item, TypeOK, Terminal
<1>2. CASE MarkSelecting
  BY <1>2 DEF MarkSelecting, Settled, Pending, Item, TypeOK, Terminal
<1>3. CASE SaveSelection
  BY <1>3 DEF SaveSelection, Selected, Settled, Pending, Item, TypeOK, Terminal, Sequenced, Selecting
<1>4. CASE Reread
  BY <1>4 DEF Reread, Batch, Takes, Settled, Pending, Item, TypeOK, Terminal
<1>5. CASE SavePaused
  BY <1>5 DEF SavePaused, Settled, Pending, Item, TypeOK, Terminal
<1>6. CASE SkipPending
  BY <1>6 DEF SkipPending, First, Settled, Pending, Item, TypeOK, Terminal
<1>7. CASE SaveClosing
  BY <1>7 DEF SaveClosing, Settled, Pending, Item, TypeOK, Terminal
<1>8. CASE MarkTerminal
  BY <1>8 DEF MarkTerminal, Settled, Pending, Item, TypeOK, Terminal
<1>9. CASE SaveBatch
  BY <1>9 DEF SaveBatch, Settled, Pending, Item, TypeOK, Terminal
<1>10. CASE Rest
  BY <1>10 DEF Rest, Settled, Pending, Item, TypeOK, Terminal
<1>11. CASE Requeue
  BY <1>11 DEF Requeue, Fault, NoFault, Settled, Pending, Item, TypeOK, Terminal
<1>12. CASE Break
  BY <1>12 DEF Break, Fault, Settled, Pending, Item, TypeOK, Terminal
<1>13. CASE ChildEnds
  BY <1>13 DEF ChildEnds, Settled, Pending, Item, TypeOK, Terminal
<1>14. CASE Delete
  BY <1>14 DEF Delete, Settled, Pending, Item, TypeOK, Terminal
<1>15. ASSUME NEW i \in Item, SkipDeleted(i)
     PROVE  Settled'
  BY <1>15 DEF SkipDeleted, Tries, Done, First, Settled, Pending, Item, TypeOK, Terminal
<1>16. ASSUME NEW i \in Item, LeavePending(i)
     PROVE  Settled'
  BY <1>16 DEF LeavePending, Tries, Done, First, Fault, NoFault, Settled, Pending, Item, TypeOK, Terminal
<1>17. ASSUME NEW i \in Item, Dispatch(i)
     PROVE  Settled'
  BY <1>17 DEF Dispatch, Tries, Publishes, First, Settled, Pending, Item, TypeOK, Terminal
<1>18. ASSUME NEW i \in Item, DispatchLost(i)
     PROVE  Settled'
  BY <1>18 DEF DispatchLost, Tries, First, Fault, Settled, Pending, Item, TypeOK, Terminal
<1>19. ASSUME NEW i \in Item, Record(i)
     PROVE  Settled'
  BY <1>19 DEF Record, Done, First, Settled, Pending, Item, TypeOK, Terminal
<1>20. ASSUME NEW i \in Item, RecordFails(i)
     PROVE  Settled'
  BY <1>20 DEF RecordFails, Done, First, Fault, Settled, Pending, Item, TypeOK, Terminal
<1>21. ASSUME NEW a \in Admin, WritePause(a)
     PROVE  Settled'
  BY <1>21 DEF WritePause, Asks, Settled, Pending, Item, TypeOK, Terminal
<1>22. ASSUME NEW a \in Admin, WriteResume(a)
     PROVE  Settled'
  BY <1>22 DEF WriteResume, Asks, Settled, Pending, Item, TypeOK, Terminal
<1>23. ASSUME NEW a \in Admin, WriteCancel(a)
     PROVE  Settled'
  BY <1>23 DEF WriteCancel, Asks, Settled, Pending, Item, TypeOK, Terminal
<1>24. ASSUME NEW a \in Admin, Publish(a)
     PROVE  Settled'
  BY <1>24 DEF Publish, Asks, Fault, NoFault, Settled, Pending, Item, TypeOK, Terminal
<1>25. ASSUME NEW a \in Admin, NEW what \in DOMAIN Allowed, Ask(a, what)
     PROVE  Settled'
  BY <1>25 DEF Ask, Asks, Allowed, Settled, Pending, Item, TypeOK, Terminal
<1>26. CASE UNCHANGED vars
  BY <1>26 DEF Settled, Pending, Item, TypeOK, Terminal
<1> QED
  BY <1>1, <1>2, <1>3, <1>4, <1>5, <1>6, <1>7, <1>8, <1>9, <1>10, <1>11,
     <1>12, <1>13, <1>14, <1>15, <1>16, <1>17, <1>18, <1>19, <1>20, <1>21,
     <1>22, <1>23, <1>24, <1>25, <1>26
  DEF Next, Worker, Proceed

----------------------------------------------------------------------------
(* What is in memory and what a batch may add stay within the budget. *)
LEMMA BudgetedKept ==
  ASSUME TypeOK, Sequenced, Budgeted, [Next]_vars
  PROVE  Budgeted'
<1> USE DEF vars, row, tick, api, ledger, Outside, Quiet, BatchKept, Goes, Aside
<1>1. CASE StartTick
  BY <1>1, BulkAssumption DEF StartTick, Ignores, Budgeted, InMemory, InBatch, Selecting, TypeOK
<1>2. CASE MarkSelecting
  BY <1>2, BulkAssumption DEF MarkSelecting, Budgeted, InMemory, InBatch, Selecting, TypeOK
<1>3. CASE SaveSelection
  BY <1>3, BulkAssumption DEF SaveSelection, Selected, Budgeted, InMemory, InBatch, Selecting, TypeOK
<1>4. CASE Reread
  <2>a. PICK batch \in SUBSET Pending : /\ Batch(batch)
          /\ \/ pc' \in {"cancelling", "pausing", "completing"}
             \/ ~Stops(batch) /\ Takes(batch)
    BY <1>4, Zenon DEF Reread
  <2>1. batch \in SUBSET Item /\ Cardinality(batch) <= BatchSize
    BY <2>a DEF Batch, Pending
  <2>2. Estimate(batch) \in Nat /\ Estimate(batch) <= Lot
    BY <2>1, EstimateBound
  <2>3. CASE ~Stops(batch) /\ Takes(batch)
    <3>1. calls + Estimate(batch) <= Budget
      BY <1>4, <2>2, <2>3, BulkAssumption DEF Stops, Reread, Budgeted, InMemory, InBatch, Selecting, TypeOK
    <3>2. todo' = batch /\ pc' = "batch" /\ calls = consumed /\ UNCHANGED <<calls, consumed>>
      BY <1>4, <2>3 DEF Takes, Reread, Budgeted, InMemory, InBatch, Selecting, TypeOK
    <3>3. Estimate(todo)' = Estimate(batch)
      BY <3>2 DEF Estimate
    <3> QED BY <2>2, <3>1, <3>2, <3>3, LotBounds DEF Budgeted, InMemory, InBatch, TypeOK
  <2>4. CASE pc' \in {"cancelling", "pausing", "completing"}
    BY <1>4, <2>4 DEF Reread, Budgeted, InMemory, InBatch, Selecting, TypeOK
  <2> QED BY <2>a, <2>3, <2>4
<1>5. CASE SavePaused
  BY <1>5, BulkAssumption DEF SavePaused, Budgeted, InMemory, InBatch, Selecting, TypeOK
<1>6. CASE SkipPending
  BY <1>6, BulkAssumption DEF SkipPending, First, Budgeted, InMemory, InBatch, Selecting, TypeOK
<1>7. CASE SaveClosing
  BY <1>7, BulkAssumption DEF SaveClosing, Budgeted, InMemory, InBatch, Selecting, TypeOK
<1>8. CASE MarkTerminal
  BY <1>8, BulkAssumption DEF MarkTerminal, Budgeted, InMemory, InBatch, Selecting, TypeOK
<1>9. CASE SaveBatch
  BY <1>9, EstimateEmpty DEF SaveBatch, Budgeted, InMemory, InBatch, Selecting, TypeOK
<1>10. CASE Rest
  BY <1>10, BulkAssumption DEF Rest, Budgeted, InMemory, InBatch, Selecting, TypeOK
<1>11. CASE Requeue
  BY <1>11, BulkAssumption DEF Requeue, Fault, NoFault, Budgeted, InMemory, InBatch, Selecting, TypeOK
<1>12. CASE Break
  BY <1>12, BulkAssumption DEF Break, Fault, Budgeted, InMemory, InBatch, Selecting, TypeOK
<1>13. CASE ChildEnds
  BY <1>13, BulkAssumption DEF ChildEnds, Budgeted, InMemory, InBatch, Selecting, TypeOK
<1>14. CASE Delete
  BY <1>14, BulkAssumption DEF Delete, Budgeted, InMemory, InBatch, Selecting, TypeOK
<1>15. ASSUME NEW i \in Item, SkipDeleted(i)
     PROVE  Budgeted'
  <2>1. i \in todo /\ todo \in SUBSET Item
    BY <1>15 DEF SkipDeleted, Tries, Done, First, First, TypeOK
  <2>2. /\ Estimate(todo) \in Nat /\ Estimate(todo \ {i}) \in Nat
        /\ Estimate(todo) = Estimate(todo \ {i}) + (IF i \in Full THEN Cost ELSE 0)
    BY <2>1, EstimateRemove
  <2> QED BY <1>15, <2>2, LotBounds, BulkAssumption DEF SkipDeleted, Tries, Done, First, Budgeted, InMemory, InBatch, Selecting, TypeOK
<1>16. ASSUME NEW i \in Item, LeavePending(i)
     PROVE  Budgeted'
  <2>1. i \in todo /\ todo \in SUBSET Item
    BY <1>16 DEF LeavePending, Tries, Done, First, Fault, NoFault, First, TypeOK
  <2>2. /\ Estimate(todo) \in Nat /\ Estimate(todo \ {i}) \in Nat
        /\ Estimate(todo) = Estimate(todo \ {i}) + (IF i \in Full THEN Cost ELSE 0)
    BY <2>1, EstimateRemove
  <2> QED BY <1>16, <2>2, LotBounds, BulkAssumption DEF LeavePending, Tries, Done, First, Fault, NoFault, Budgeted, InMemory, InBatch, Selecting, TypeOK
<1>17. ASSUME NEW i \in Item, Dispatch(i)
     PROVE  Budgeted'
  <2>1. i \in todo /\ todo \in SUBSET Item
    BY <1>17 DEF Dispatch, Tries, Publishes, First, First, TypeOK
  <2>2. /\ Estimate(todo) \in Nat /\ Estimate(todo \ {i}) \in Nat
        /\ Estimate(todo) = Estimate(todo \ {i}) + (IF i \in Full THEN Cost ELSE 0)
    BY <2>1, EstimateRemove
  <2> QED BY <1>17, <2>2, LotBounds, BulkAssumption DEF Dispatch, Tries, Publishes, First, Budgeted, InMemory, InBatch, Selecting, TypeOK
<1>18. ASSUME NEW i \in Item, DispatchLost(i)
     PROVE  Budgeted'
  <2>1. i \in todo /\ todo \in SUBSET Item
    BY <1>18 DEF DispatchLost, Tries, First, Fault, First, TypeOK
  <2>2. /\ Estimate(todo) \in Nat /\ Estimate(todo \ {i}) \in Nat
        /\ Estimate(todo) = Estimate(todo \ {i}) + (IF i \in Full THEN Cost ELSE 0)
    BY <2>1, EstimateRemove
  <2> QED BY <1>18, <2>2, LotBounds, BulkAssumption DEF DispatchLost, Tries, First, Fault, Budgeted, InMemory, InBatch, Selecting, TypeOK
<1>19. ASSUME NEW i \in Item, Record(i)
     PROVE  Budgeted'
  <2>1. i \in todo /\ todo \in SUBSET Item
    BY <1>19 DEF Record, Done, First, First, TypeOK
  <2>2. /\ Estimate(todo) \in Nat /\ Estimate(todo \ {i}) \in Nat
        /\ Estimate(todo) = Estimate(todo \ {i}) + (IF i \in Full THEN Cost ELSE 0)
    BY <2>1, EstimateRemove
  <2> QED BY <1>19, <2>2, LotBounds, BulkAssumption DEF Record, Done, First, Budgeted, InMemory, InBatch, Selecting, TypeOK
<1>20. ASSUME NEW i \in Item, RecordFails(i)
     PROVE  Budgeted'
  <2>1. i \in todo /\ todo \in SUBSET Item
    BY <1>20 DEF RecordFails, Done, First, Fault, First, TypeOK
  <2>2. /\ Estimate(todo) \in Nat /\ Estimate(todo \ {i}) \in Nat
        /\ Estimate(todo) = Estimate(todo \ {i}) + (IF i \in Full THEN Cost ELSE 0)
    BY <2>1, EstimateRemove
  <2> QED BY <1>20, <2>2, LotBounds, BulkAssumption DEF RecordFails, Done, First, Fault, Budgeted, InMemory, InBatch, Selecting, TypeOK
<1>21. ASSUME NEW a \in Admin, WritePause(a)
     PROVE  Budgeted'
  BY <1>21, BulkAssumption DEF WritePause, Asks, Budgeted, InMemory, InBatch, Selecting, TypeOK
<1>22. ASSUME NEW a \in Admin, WriteResume(a)
     PROVE  Budgeted'
  BY <1>22, BulkAssumption DEF WriteResume, Asks, Budgeted, InMemory, InBatch, Selecting, TypeOK
<1>23. ASSUME NEW a \in Admin, WriteCancel(a)
     PROVE  Budgeted'
  BY <1>23, BulkAssumption DEF WriteCancel, Asks, Budgeted, InMemory, InBatch, Selecting, TypeOK
<1>24. ASSUME NEW a \in Admin, Publish(a)
     PROVE  Budgeted'
  BY <1>24, BulkAssumption DEF Publish, Asks, Fault, NoFault, Budgeted, InMemory, InBatch, Selecting, TypeOK
<1>25. ASSUME NEW a \in Admin, NEW what \in DOMAIN Allowed, Ask(a, what)
     PROVE  Budgeted'
  BY <1>25, BulkAssumption DEF Ask, Asks, Allowed, Budgeted, InMemory, InBatch, Selecting, TypeOK
<1>26. CASE UNCHANGED vars
  BY <1>26 DEF Budgeted, InMemory, InBatch, Selecting, TypeOK
<1> QED
  BY <1>1, <1>2, <1>3, <1>4, <1>5, <1>6, <1>7, <1>8, <1>9, <1>10, <1>11,
     <1>12, <1>13, <1>14, <1>15, <1>16, <1>17, <1>18, <1>19, <1>20, <1>21,
     <1>22, <1>23, <1>24, <1>25, <1>26
  DEF Next, Worker, Proceed

(* What was published is reckoned, but for what failures lose. *)
LEMMA LedgerKept ==
  ASSUME TypeOK, Sequenced, Budgeted, Ledger, [Next]_vars
  PROVE  Ledger'
<1> USE DEF vars, row, tick, api, ledger, Outside, Quiet, BatchKept, Goes, Aside
<1>1. CASE StartTick
  <2>1. faults * Lot \in Nat
    BY LotBounds DEF TypeOK
  <2> QED BY <1>1, <2>1 DEF StartTick, Ignores, Ledger, Unrecorded, InMemory, InBatch, Selecting, TypeOK, Sequenced
<1>2. CASE MarkSelecting
  <2>1. faults * Lot \in Nat
    BY LotBounds DEF TypeOK
  <2> QED BY <1>2, <2>1 DEF MarkSelecting, Ledger, Unrecorded, InMemory, InBatch, Selecting, TypeOK, Sequenced
<1>3. CASE SaveSelection
  <2>1. faults * Lot \in Nat
    BY LotBounds DEF TypeOK
  <2> QED BY <1>3, <2>1 DEF SaveSelection, Selected, Ledger, Unrecorded, InMemory, InBatch, Selecting, TypeOK, Sequenced
<1>4. CASE Reread
  BY <1>4 DEF Reread, Batch, Takes, Ledger, Unrecorded, InMemory, InBatch, Selecting, TypeOK, Budgeted
<1>5. CASE SavePaused
  BY <1>5 DEF SavePaused, Ledger, Unrecorded, InMemory, InBatch, Selecting, TypeOK, Budgeted
<1>6. CASE SkipPending
  BY <1>6 DEF SkipPending, First, Ledger, Unrecorded, InMemory, InBatch, Selecting, TypeOK
<1>7. CASE SaveClosing
  BY <1>7 DEF SaveClosing, Ledger, Unrecorded, InMemory, InBatch, Selecting, TypeOK, Budgeted
<1>8. CASE MarkTerminal
  BY <1>8 DEF MarkTerminal, Ledger, Unrecorded, InMemory, InBatch, Selecting, TypeOK, Budgeted
<1>9. CASE SaveBatch
  BY <1>9 DEF SaveBatch, Ledger, Unrecorded, InMemory, InBatch, Selecting, TypeOK, Budgeted
<1>10. CASE Rest
  BY <1>10 DEF Rest, Ledger, Unrecorded, InMemory, InBatch, Selecting, TypeOK, Budgeted
<1>11. CASE Requeue
  <2>1. faults * Lot \in Nat /\ (faults + 1) * Lot = faults * Lot + Lot /\ Lot \in Nat
    BY LotBounds DEF TypeOK
  <2> QED BY <1>11, <2>1 DEF Requeue, Fault, NoFault, Ledger, Unrecorded, InMemory, InBatch, Selecting, TypeOK, Budgeted
<1>12. CASE Break
  <2>1. faults * Lot \in Nat /\ (faults + 1) * Lot = faults * Lot + Lot /\ Lot \in Nat
    BY LotBounds DEF TypeOK
  <2>2. CASE InBatch
    <3>1. todo \in SUBSET Item /\ Estimate(todo) \in Nat
      BY EstimateNat DEF TypeOK
    <3>2. spent <= calls + Estimate(todo) + faults * Lot
      <4>1. CASE pc = "batch"
        BY <4>1, <3>1, <2>1 DEF Ledger, InMemory, Selecting, TypeOK
      <4>2. CASE pc = "recording"
        <5>1. PICK i \in Item : First(i, todo)
          BY <4>2 DEF Ledger
        <5>2. Unrecorded(i) \in Nat /\ Unrecorded(i) <= Estimate(todo)
          BY <5>1, UnrecordedBound
        <5> QED BY <4>2, <5>1, <5>2, <3>1, <2>1 DEF Ledger, TypeOK
      <4> QED BY <2>2, <4>1, <4>2 DEF InBatch
    <3> QED BY <1>12, <2>1, <2>2, <3>1, <3>2, BulkAssumption DEF Break, Fault, Budgeted, Ledger, Unrecorded, InMemory, InBatch, Selecting, TypeOK
  <2>3. CASE ~InBatch
    BY <1>12, <2>1, <2>3 DEF Break, Fault, Budgeted, Ledger, Unrecorded, InMemory, InBatch, Selecting, TypeOK
  <2> QED BY <2>2, <2>3
<1>13. CASE ChildEnds
  BY <1>13 DEF ChildEnds, Ledger, Unrecorded, InMemory, InBatch, Selecting, TypeOK
<1>14. CASE Delete
  BY <1>14 DEF Delete, Ledger, Unrecorded, InMemory, InBatch, Selecting, TypeOK
<1>15. ASSUME NEW i \in Item, SkipDeleted(i)
     PROVE  Ledger'
  <2>1. i \in todo /\ todo \in SUBSET Item /\ (\A j \in Item : First(j, todo) => j = i)
    BY <1>15 DEF SkipDeleted, Tries, Done, First, First, TypeOK, Item
  <2>2. faults * Lot \in Nat /\ (faults + 1) * Lot = faults * Lot + Lot /\ Lot \in Nat /\ Cost <= Lot
    BY LotBounds DEF TypeOK
  <2> QED BY <1>15, <2>1, <2>2, BulkAssumption DEF SkipDeleted, Tries, Done, First, Ledger, Unrecorded, InMemory, InBatch, Selecting, TypeOK
<1>16. ASSUME NEW i \in Item, LeavePending(i)
     PROVE  Ledger'
  <2>1. i \in todo /\ todo \in SUBSET Item /\ (\A j \in Item : First(j, todo) => j = i)
    BY <1>16 DEF LeavePending, Tries, Done, First, Fault, NoFault, First, TypeOK, Item
  <2>2. faults * Lot \in Nat /\ (faults + 1) * Lot = faults * Lot + Lot /\ Lot \in Nat /\ Cost <= Lot
    BY LotBounds DEF TypeOK
  <2> QED BY <1>16, <2>1, <2>2, BulkAssumption DEF LeavePending, Tries, Done, First, Fault, NoFault, Ledger, Unrecorded, InMemory, InBatch, Selecting, TypeOK
<1>17. ASSUME NEW i \in Item, Dispatch(i)
     PROVE  Ledger'
  <2>1. i \in todo /\ todo \in SUBSET Item /\ (\A j \in Item : First(j, todo) => j = i)
    BY <1>17 DEF Dispatch, Tries, Publishes, First, First, TypeOK, Item
  <2>2. faults * Lot \in Nat /\ (faults + 1) * Lot = faults * Lot + Lot /\ Lot \in Nat /\ Cost <= Lot
    BY LotBounds DEF TypeOK
  <2> QED BY <1>17, <2>1, <2>2, BulkAssumption DEF Dispatch, Tries, Publishes, First, Ledger, Unrecorded, InMemory, InBatch, Selecting, TypeOK
<1>18. ASSUME NEW i \in Item, DispatchLost(i)
     PROVE  Ledger'
  <2>1. i \in todo /\ todo \in SUBSET Item /\ (\A j \in Item : First(j, todo) => j = i)
    BY <1>18 DEF DispatchLost, Tries, First, Fault, First, TypeOK, Item
  <2>2. faults * Lot \in Nat /\ (faults + 1) * Lot = faults * Lot + Lot /\ Lot \in Nat /\ Cost <= Lot
    BY LotBounds DEF TypeOK
  <2> QED BY <1>18, <2>1, <2>2, BulkAssumption DEF DispatchLost, Tries, First, Fault, Ledger, Unrecorded, InMemory, InBatch, Selecting, TypeOK
<1>19. ASSUME NEW i \in Item, Record(i)
     PROVE  Ledger'
  <2>1. i \in todo /\ todo \in SUBSET Item /\ (\A j \in Item : First(j, todo) => j = i)
    BY <1>19 DEF Record, Done, First, First, TypeOK, Item
  <2>2. faults * Lot \in Nat /\ (faults + 1) * Lot = faults * Lot + Lot /\ Lot \in Nat /\ Cost <= Lot
    BY LotBounds DEF TypeOK
  <2> QED BY <1>19, <2>1, <2>2, BulkAssumption DEF Record, Done, First, Ledger, Unrecorded, InMemory, InBatch, Selecting, TypeOK
<1>20. ASSUME NEW i \in Item, RecordFails(i)
     PROVE  Ledger'
  <2>1. i \in todo /\ todo \in SUBSET Item /\ (\A j \in Item : First(j, todo) => j = i)
    BY <1>20 DEF RecordFails, Done, First, Fault, First, TypeOK, Item
  <2>2. faults * Lot \in Nat /\ (faults + 1) * Lot = faults * Lot + Lot /\ Lot \in Nat /\ Cost <= Lot
    BY LotBounds DEF TypeOK
  <2> QED BY <1>20, <2>1, <2>2, BulkAssumption DEF RecordFails, Done, First, Fault, Ledger, Unrecorded, InMemory, InBatch, Selecting, TypeOK
<1>21. ASSUME NEW a \in Admin, WritePause(a)
     PROVE  Ledger'
  BY <1>21 DEF WritePause, Asks, Ledger, Unrecorded, InMemory, InBatch, Selecting, TypeOK
<1>22. ASSUME NEW a \in Admin, WriteResume(a)
     PROVE  Ledger'
  BY <1>22 DEF WriteResume, Asks, Ledger, Unrecorded, InMemory, InBatch, Selecting, TypeOK
<1>23. ASSUME NEW a \in Admin, WriteCancel(a)
     PROVE  Ledger'
  BY <1>23 DEF WriteCancel, Asks, Ledger, Unrecorded, InMemory, InBatch, Selecting, TypeOK
<1>24. ASSUME NEW a \in Admin, Publish(a)
     PROVE  Ledger'
  <2>1. faults * Lot \in Nat /\ (faults + 1) * Lot = faults * Lot + Lot /\ Lot \in Nat
    BY LotBounds DEF TypeOK
  <2>2. faults' * Lot \in Nat /\ faults' * Lot >= faults * Lot
    BY <1>24, <2>1 DEF Publish, Fault, NoFault
  <2>3. UNCHANGED <<pc, todo, calls, consumed, spent>>
    BY <1>24 DEF Publish
  <2>4. \A i \in Item : Unrecorded(i) \in Nat /\ Unrecorded(i)' = Unrecorded(i)
    BY <2>3, BulkAssumption DEF Unrecorded, First
  <2> QED BY <2>1, <2>2, <2>3, <2>4 DEF Ledger, InMemory, Selecting, First, TypeOK
<1>25. ASSUME NEW a \in Admin, NEW what \in DOMAIN Allowed, Ask(a, what)
     PROVE  Ledger'
  BY <1>25 DEF Ask, Asks, Allowed, Ledger, Unrecorded, InMemory, InBatch, Selecting, TypeOK
<1>26. CASE UNCHANGED vars
  BY <1>26 DEF Ledger, Unrecorded, InMemory, InBatch, Selecting, TypeOK
<1> QED
  BY <1>1, <1>2, <1>3, <1>4, <1>5, <1>6, <1>7, <1>8, <1>9, <1>10, <1>11,
     <1>12, <1>13, <1>14, <1>15, <1>16, <1>17, <1>18, <1>19, <1>20, <1>21,
     <1>22, <1>23, <1>24, <1>25, <1>26
  DEF Next, Worker, Proceed

(* A cancelled operation has no batch but the one in progress. *)
LEMMA BoundedKept ==
  ASSUME TypeOK, Ledger, Bounded, [Next]_vars
  PROVE  Bounded'
<1> USE DEF vars, row, tick, api, ledger, Outside, Quiet, BatchKept, Goes, Aside
<1>1. CASE StartTick
  BY <1>1, BulkAssumption DEF StartTick, Ignores, Bounded, Left, TypeOK
<1>2. CASE MarkSelecting
  BY <1>2, BulkAssumption DEF MarkSelecting, Bounded, Left, TypeOK
<1>3. CASE SaveSelection
  BY <1>3, BulkAssumption DEF SaveSelection, Selected, Bounded, Left, TypeOK
<1>4. CASE Reread
  <2>a. PICK batch \in SUBSET Pending : /\ Batch(batch)
          /\ \/ pc' \in {"cancelling", "pausing", "completing"}
             \/ ~cancel /\ Takes(batch)
    BY <1>4, Zenon DEF Reread
  <2>1. Cardinality(batch) \in Nat /\ Cardinality(batch) <= BatchSize
    BY <2>a, ItemsFinite DEF Batch, Pending
  <2> QED BY <1>4, <2>a, <2>1, BulkAssumption DEF Takes, Reread, Bounded, Left, TypeOK
<1>5. CASE SavePaused
  BY <1>5, BulkAssumption DEF SavePaused, Bounded, Left, TypeOK
<1>6. CASE SkipPending
  BY <1>6, BulkAssumption DEF SkipPending, First, Bounded, Left, TypeOK
<1>7. CASE SaveClosing
  BY <1>7, BulkAssumption DEF SaveClosing, Bounded, Left, TypeOK
<1>8. CASE MarkTerminal
  BY <1>8, BulkAssumption DEF MarkTerminal, Bounded, Left, TypeOK
<1>9. CASE SaveBatch
  <2>1. Cardinality(todo) \in Nat /\ (pc = "recording" => Cardinality(todo) >= 1)
    <3>1. IsFiniteSet(todo) /\ Cardinality(todo) \in Nat
      BY ItemsFinite DEF TypeOK
    <3>2. pc = "recording" => todo # {}
      BY DEF Ledger, First
    <3> QED BY <3>1, <3>2, FS_EmptySet
  <2> QED BY <1>9, <2>1, BulkAssumption DEF SaveBatch, Bounded, Left, TypeOK
<1>10. CASE Rest
  BY <1>10, BulkAssumption DEF Rest, Bounded, Left, TypeOK
<1>11. CASE Requeue
  BY <1>11, BulkAssumption DEF Requeue, Fault, NoFault, Bounded, Left, TypeOK
<1>12. CASE Break
  <2>1. Cardinality(todo) \in Nat /\ (pc = "recording" => Cardinality(todo) >= 1)
    <3>1. IsFiniteSet(todo) /\ Cardinality(todo) \in Nat
      BY ItemsFinite DEF TypeOK
    <3>2. pc = "recording" => todo # {}
      BY DEF Ledger, First
    <3> QED BY <3>1, <3>2, FS_EmptySet
  <2> QED BY <1>12, <2>1, BulkAssumption DEF Break, Fault, Bounded, Left, TypeOK
<1>13. CASE ChildEnds
  BY <1>13, BulkAssumption DEF ChildEnds, Bounded, Left, TypeOK
<1>14. CASE Delete
  BY <1>14, BulkAssumption DEF Delete, Bounded, Left, TypeOK
<1>15. ASSUME NEW i \in Item, SkipDeleted(i)
     PROVE  Bounded'
  <2>1. IsFiniteSet(todo) /\ i \in todo /\ Cardinality(todo) \in Nat
    BY <1>15, ItemsFinite DEF SkipDeleted, Tries, Done, First, First, TypeOK
  <2>2. Cardinality(todo \ {i}) = Cardinality(todo) - 1
    BY <2>1, FS_RemoveElement
  <2> QED BY <1>15, <2>1, <2>2, BulkAssumption DEF SkipDeleted, Tries, Done, First, Bounded, Left, TypeOK
<1>16. ASSUME NEW i \in Item, LeavePending(i)
     PROVE  Bounded'
  <2>1. IsFiniteSet(todo) /\ i \in todo /\ Cardinality(todo) \in Nat
    BY <1>16, ItemsFinite DEF LeavePending, Tries, Done, First, Fault, NoFault, First, TypeOK
  <2>2. Cardinality(todo \ {i}) = Cardinality(todo) - 1
    BY <2>1, FS_RemoveElement
  <2> QED BY <1>16, <2>1, <2>2, BulkAssumption DEF LeavePending, Tries, Done, First, Fault, NoFault, Bounded, Left, TypeOK
<1>17. ASSUME NEW i \in Item, Dispatch(i)
     PROVE  Bounded'
  <2>1. IsFiniteSet(todo) /\ i \in todo /\ Cardinality(todo) \in Nat
    BY <1>17, ItemsFinite DEF Dispatch, Tries, Publishes, First, First, TypeOK
  <2>2. Cardinality(todo \ {i}) = Cardinality(todo) - 1
    BY <2>1, FS_RemoveElement
  <2> QED BY <1>17, <2>1, <2>2, BulkAssumption DEF Dispatch, Tries, Publishes, First, Bounded, Left, TypeOK
<1>18. ASSUME NEW i \in Item, DispatchLost(i)
     PROVE  Bounded'
  <2>1. IsFiniteSet(todo) /\ i \in todo /\ Cardinality(todo) \in Nat
    BY <1>18, ItemsFinite DEF DispatchLost, Tries, First, Fault, First, TypeOK
  <2>2. Cardinality(todo \ {i}) = Cardinality(todo) - 1
    BY <2>1, FS_RemoveElement
  <2> QED BY <1>18, <2>1, <2>2, BulkAssumption DEF DispatchLost, Tries, First, Fault, Bounded, Left, TypeOK
<1>19. ASSUME NEW i \in Item, Record(i)
     PROVE  Bounded'
  <2>1. IsFiniteSet(todo) /\ i \in todo /\ Cardinality(todo) \in Nat
    BY <1>19, ItemsFinite DEF Record, Done, First, First, TypeOK
  <2>2. Cardinality(todo \ {i}) = Cardinality(todo) - 1
    BY <2>1, FS_RemoveElement
  <2> QED BY <1>19, <2>1, <2>2, BulkAssumption DEF Record, Done, First, Bounded, Left, TypeOK
<1>20. ASSUME NEW i \in Item, RecordFails(i)
     PROVE  Bounded'
  <2>1. IsFiniteSet(todo) /\ i \in todo /\ Cardinality(todo) \in Nat
    BY <1>20, ItemsFinite DEF RecordFails, Done, First, Fault, First, TypeOK
  <2>2. Cardinality(todo \ {i}) = Cardinality(todo) - 1
    BY <2>1, FS_RemoveElement
  <2> QED BY <1>20, <2>1, <2>2, BulkAssumption DEF RecordFails, Done, First, Fault, Bounded, Left, TypeOK
<1>21. ASSUME NEW a \in Admin, WritePause(a)
     PROVE  Bounded'
  BY <1>21, BulkAssumption DEF WritePause, Asks, Bounded, Left, TypeOK
<1>22. ASSUME NEW a \in Admin, WriteResume(a)
     PROVE  Bounded'
  BY <1>22, BulkAssumption DEF WriteResume, Asks, Bounded, Left, TypeOK
<1>23. ASSUME NEW a \in Admin, WriteCancel(a)
     PROVE  Bounded'
  BY <1>23, BulkAssumption DEF WriteCancel, Asks, Bounded, Left, TypeOK
<1>24. ASSUME NEW a \in Admin, Publish(a)
     PROVE  Bounded'
  BY <1>24, BulkAssumption DEF Publish, Asks, Fault, NoFault, Bounded, Left, TypeOK
<1>25. ASSUME NEW a \in Admin, NEW what \in DOMAIN Allowed, Ask(a, what)
     PROVE  Bounded'
  BY <1>25, BulkAssumption DEF Ask, Asks, Allowed, Bounded, Left, TypeOK
<1>26. CASE UNCHANGED vars
  BY <1>26 DEF Bounded, Left, TypeOK
<1> QED
  BY <1>1, <1>2, <1>3, <1>4, <1>5, <1>6, <1>7, <1>8, <1>9, <1>10, <1>11,
     <1>12, <1>13, <1>14, <1>15, <1>16, <1>17, <1>18, <1>19, <1>20, <1>21,
     <1>22, <1>23, <1>24, <1>25, <1>26
  DEF Next, Worker, Proceed

----------------------------------------------------------------------------
(* The theorems. *)

LEMMA InitOK == Init => IInv
<1> SUFFICES ASSUME Init PROVE IInv
  OBVIOUS
<1>1. TypeOK
  BY BulkAssumption DEF Init, TypeOK, Pausable
<1>2. Sequenced /\ Settled
  BY DEF Init, Sequenced, Settled, Selecting, InBatch, Pending, Terminal
<1>3. Budgeted /\ Ledger /\ Bounded
  BY LotBounds, BulkAssumption
     DEF Init, Budgeted, Ledger, Bounded, InMemory, InBatch, Selecting, Left
<1> QED BY <1>1, <1>2, <1>3 DEF IInv

LEMMA IInvKept == IInv /\ [Next]_vars => IInv'
BY TypeKept, SequencedKept, SettledKept, BudgetedKept, LedgerKept, BoundedKept DEF IInv

LEMMA Inductive == Spec => []IInv
BY InitOK, IInvKept, PTL DEF Spec

(* The variables keep their types. *)
THEOREM TypeCorrect == Spec => []TypeOK
BY Inductive, PTL DEF IInv

(* A closed operation leaves no item pending. *)
THEOREM Closed == Spec => []ClosedMeansSettled
<1>1. IInv => ClosedMeansSettled
  BY DEF IInv, Settled, ClosedMeansSettled
<1> QED BY <1>1, Inductive, PTL

(* The budget is exceeded by at most one batch of refreshes per failure. *)
THEOREM Spending == Spec => []SpendBounded
<1>1. IInv => SpendBounded
  <2> SUFFICES ASSUME IInv PROVE SpendBounded
    OBVIOUS
  <2> USE DEF IInv
  <2>1. /\ faults * Lot \in Nat /\ faults * BatchSize * Cost = faults * Lot
        /\ todo \in SUBSET Item /\ Estimate(todo) \in Nat
    BY LotBounds, EstimateNat, BulkAssumption DEF TypeOK, Lot
  <2>2. CASE pc = "recording"
    <3>1. PICK i \in Item : First(i, todo)
      BY <2>2 DEF Ledger
    <3>2. Unrecorded(i) \in Nat /\ Unrecorded(i) <= Estimate(todo)
      BY <3>1, UnrecordedBound
    <3> QED BY <2>1, <2>2, <3>1, <3>2, BulkAssumption
           DEF Ledger, Budgeted, InBatch, TypeOK, SpendBounded
  <2>3. CASE pc # "recording"
    BY <2>1, <2>3, BulkAssumption
    DEF Ledger, Budgeted, InBatch, InMemory, Selecting, TypeOK, SpendBounded
  <2> QED BY <2>2, <2>3
<1> QED BY <1>1, Inductive, PTL

(* A cancellation lets through at most the batch in progress. *)
THEOREM Cancelling == Spec => []LateBounded
<1>1. IInv => LateBounded
  <2> SUFFICES ASSUME IInv PROVE LateBounded
    OBVIOUS
  <2>1. Cardinality(todo) \in Nat /\ (pc = "recording" => Cardinality(todo) >= 1)
    <3>1. IsFiniteSet(todo) /\ Cardinality(todo) \in Nat
      BY ItemsFinite DEF IInv, TypeOK
    <3>2. pc = "recording" => todo # {}
      BY DEF IInv, Ledger, First
    <3> QED BY <3>1, <3>2, FS_EmptySet
  <2> QED BY <2>1, BulkAssumption DEF IInv, Bounded, Left, TypeOK, LateBounded
<1> QED BY <1>1, Inductive, PTL

(* Children are published only while the row says RUNNING. *)
THEOREM Dispatching == Spec => DispatchesWhileRunning
<1>1. ASSUME Sequenced, [Next]_vars, child' \ child # {} PROVE status = "RUNNING"
  <2>1. PICK i \in Item : Dispatch(i)
    BY <1>1 DEF Next, Worker, Proceed, vars, tick, Quiet, Aside, Asks, Break, ChildEnds, Delete, Ask,
      StartTick, MarkSelecting, SaveSelection, Reread, SavePaused, SkipPending, SaveClosing,
      MarkTerminal, SaveBatch, Rest, Requeue, SkipDeleted, LeavePending, DispatchLost, Record,
      RecordFails, WritePause, WriteResume, WriteCancel, Publish
  <2> QED BY <1>1, <2>1 DEF Sequenced, InBatch, Dispatch, Tries
<1>2. IInv /\ [Next]_vars => [child' \ child # {} => status = "RUNNING"]_vars
  BY <1>1 DEF IInv
<1> QED BY <1>2, Inductive, PTL DEF Spec, DispatchesWhileRunning
=============================================================================
