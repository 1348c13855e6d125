------------------------- MODULE JobLifecycleProofs -------------------------
(***************************************************************************)
(* Theorems about JobLifecycle, for any number of producers, messages,     *)
(* workers and controllers.                                                *)
(***************************************************************************)
EXTENDS JobLifecycle, TLAPS

Status == {"none", "QUEUED", "ACTIVE"} \cup Terminal
Marks  == {"keep"} \cup Terminal
Points == {"idle", "delivered", "reviving", "found", "started", "preflight",
           "working", "publishing", "published", "rejected", "writing", "leaving"}

RowType  == row \in [status : Status, cancel : {"no", "admin", "superseded"},
                     queueId : Message \cup {None}]
QueueType == queue \in [Message -> [at : {"unused", "waiting", "active", "gone"},
                                    lock : Worker \cup {None}, again : BOOLEAN]]
ProdType == prod \in [Producer -> [at : {"new", "resolved", "won", "failed", "added",
                                         "done"},
                                   m : Message \cup {None}]]
WorkType == /\ pc \in [Worker -> Points] /\ mark \in [Worker -> Marks]
            /\ held \subseteq Worker /\ doomed \subseteq Worker
OpType   == op \in [Controller -> [at : {"new", "inspecting", "closing", "forcing", "marking",
                                         "failing", "done"},
                                   kind : {"cancel", "kill", "supersede"}]]

LEMMA TypeParts ==
  TypeOK <=> RowType /\ QueueType /\ ProdType /\ WorkType /\ OpType /\ winner \in BOOLEAN
BY DEF TypeOK, RowType, QueueType, ProdType, WorkType, OpType, Status, Marks, Points

----------------------------------------------------------------------------
(* What the repository methods decide and write. *)
RowRecord == [status : Status, cancel : {"no", "admin", "superseded"},
              queueId : Message \cup {None}]

LEMMA MarksType ==
  MarkFailed \in Marks /\ MarkSuperseded \in Marks /\ MarkCancelled \in Marks
BY DEF MarkFailed, MarkSuperseded, MarkCancelled, Marks, Terminal, InFlight

LEMMA WrittenType ==
  ASSUME RowType, NEW s \in Marks
  PROVE  Written(s) \in RowRecord
BY DEF RowType, Written, RowRecord, Marks, Status, Terminal

LEMMA WritesType ==
  ASSUME RowType
  PROVE  /\ row \in RowRecord /\ Reset \in RowRecord
         /\ Asked("admin") \in RowRecord /\ Asked("superseded") \in RowRecord
         /\ Found \subseteq RowRecord
         /\ EnqueueFailed \in RowRecord
         /\ [row EXCEPT !.status = "ACTIVE"] \in RowRecord
         /\ [row EXCEPT !.status = "COMPLETED"] \in RowRecord
         /\ \A i \in Message \cup {None} : [row EXCEPT !.queueId = i] \in RowRecord
<1>1. Found \subseteq RowRecord
  <2>1. Written("FAILED") \in RowRecord /\ Written(Closed) \in RowRecord
    BY WrittenType DEF Closed, Marks, Terminal
  <2> QED BY <2>1 DEF Found, RowType, RowRecord
<1> QED BY <1>1 DEF RowType, RowRecord, Reset, Asked, EnqueueFailed, Status, Terminal

LEMMA RowStep ==
  ASSUME TypeOK, [Next]_vars
  PROVE  RowType'
<1>0. RowType /\ mark \in [Worker -> Marks] /\ ProdType
  BY TypeParts DEF WorkType
<1>1. row' \in RowRecord
  <2>1. ASSUME NEW p \in Producer, Produce(p) PROVE row' \in RowRecord
    <3>1. prod[p].m \in Message \cup {None}
      BY <1>0 DEF ProdType
    <3>2. Written(MarkFailed) \in RowRecord
      BY <1>0, MarksType, WrittenType
    <3> QED BY <1>0, <2>1, <3>1, <3>2, WritesType
            DEF Produce, SeasonChange, Resolve, Claim, Add, AddFails, MarkEnqueueFailed,
                SetQueueJobId, ProducerDies
  <2>2. ASSUME NEW w \in Worker, Work(w) \/ Crash(w) \/ \E m \in Message : Deliver(w, m)
        PROVE  row' \in RowRecord
    <3>1. Written(mark[w]) \in RowRecord
      BY <1>0, WrittenType
    <3> QED BY <1>0, <2>2, <3>1, WritesType
            DEF Work, LookUp, Revive, MarkActive, PassGuards, Admit, StopAtCheckpoint, LoseToWinner,
                Refuse, LosePermit, Throw, CallFails, Stops, PassPublicationGuard, Publish,
                Reject, Complete, Write, Leave, Crash,
                Deliver
  <2>3. ASSUME NEW o \in Controller, Control(o) PROVE row' \in RowRecord
    <3>1. Written("CANCELLED") \in RowRecord /\ Written(MarkSuperseded) \in RowRecord
      BY <1>0, MarksType, WrittenType DEF Marks, Terminal
    <3> QED BY <1>0, <2>3, <3>1, WritesType
            DEF Control, Request, Supersede, NotRemoved, Close, ForceCancel, WriteCancelled,
                MarkLoser, Remove,
                BecameActive, Reason
  <2>4. CASE WinnerEnds \/ UNCHANGED vars \/ \E m \in Message : Redeliver(m)
    BY <1>0, <2>4, WritesType DEF WinnerEnds, vars, Redeliver
  <2> QED BY <2>1, <2>2, <2>3, <2>4 DEF Next
<1> QED BY <1>1 DEF RowRecord, RowType

MessageRecord == [at : {"unused", "waiting", "active", "gone"},
                  lock : Worker \cup {None}, again : BOOLEAN]

LEMMA MessageTypes ==
  ASSUME QueueType, NEW m \in Message, NEW w \in Worker
  PROVE  /\ queue[m] \in MessageRecord
         /\ [queue[m] EXCEPT !.at = "waiting"] \in MessageRecord
         /\ [queue[m] EXCEPT !.at = "gone"] \in MessageRecord
         /\ [queue[m] EXCEPT !.at = "active", !.lock = w] \in MessageRecord
         /\ [queue[m] EXCEPT !.at = "gone", !.lock = None] \in MessageRecord
         /\ [queue[m] EXCEPT !.lock = None] \in MessageRecord
         /\ [at |-> IF queue[m].again THEN "gone" ELSE "waiting", lock |-> None,
             again |-> TRUE] \in MessageRecord
BY DEF QueueType, MessageRecord

(* Only these steps touch the queue. *)
QueueSteps ==
  \/ \E m \in Message : Publishes(m) \/ Redeliver(m)
  \/ \E w \in Worker : Leave(w) \/ Crash(w) \/ \E m \in Message : Deliver(w, m)
  \/ \E o \in Controller, m \in Message : Remove(o, m)

LEMMA QueueUntouched ==
  ASSUME [Next]_vars, ~QueueSteps
  PROVE  UNCHANGED queue
<1>1. ASSUME NEW p \in Producer, Produce(p) PROVE UNCHANGED queue
  BY <1>1 DEF Produce, SeasonChange, Resolve, Claim, Add, AddFails, MarkEnqueueFailed,
              SetQueueJobId,
              ProducerDies, QueueSteps
<1>2. ASSUME NEW w \in Worker, Work(w) PROVE UNCHANGED queue
  BY <1>2
     DEF Work, LookUp, Revive, MarkActive, PassGuards, Admit, StopAtCheckpoint, LoseToWinner,
         Refuse, LosePermit, Throw, CallFails, Stops, PassPublicationGuard, Publish, Reject,
         Complete, Write, QueueSteps
<1>3. ASSUME NEW o \in Controller, Control(o) PROVE UNCHANGED queue
  BY <1>3 DEF Control, Request, Supersede, NotRemoved, Close, ForceCancel, WriteCancelled,
              MarkLoser,
              BecameActive, QueueSteps
<1>4. CASE WinnerEnds \/ UNCHANGED vars
  BY <1>4 DEF WinnerEnds, vars
<1> QED BY <1>1, <1>2, <1>3, <1>4 DEF Next, QueueSteps

LEMMA QueueStep ==
  ASSUME TypeOK, [Next]_vars
  PROVE  QueueType'
<1>0. QueueType
  BY TypeParts
<1>1. ASSUME NEW m \in Message, Publishes(m) \/ \E o \in Controller : Remove(o, m)
      PROVE  QueueType'
  <2>1. \/ queue' = [queue EXCEPT ![m] = [queue[m] EXCEPT !.at = "waiting"]]
        \/ queue' = [queue EXCEPT ![m] = [queue[m] EXCEPT !.at = "gone"]]
    BY <1>1 DEF Publishes, Remove
  <2> QED BY <1>0, <2>1 DEF QueueType
<1>2. ASSUME NEW m \in Message, Redeliver(m) PROVE QueueType'
  BY <1>0, <1>2 DEF Redeliver, QueueType
<1>3. ASSUME NEW w \in Worker, NEW m \in Message, Deliver(w, m) PROVE QueueType'
  <2>1. queue' = [queue EXCEPT ![m] = [queue[m] EXCEPT !.at = "active", !.lock = w]]
    BY <1>0, <1>3 DEF Deliver, QueueType
  <2> QED BY <1>0, <2>1 DEF QueueType
<1>4. ASSUME NEW w \in Worker, Leave(w) \/ Crash(w) PROVE QueueType'
  <2>1. queue' \in [Message -> MessageRecord]
    BY <1>0, <1>4, MessageTypes DEF Leave, Crash
  <2> QED BY <2>1 DEF MessageRecord, QueueType
<1>5. CASE UNCHANGED queue
  BY <1>0, <1>5 DEF QueueType
<1> QED BY <1>1, <1>2, <1>3, <1>4, <1>5, QueueUntouched DEF QueueSteps

LEMMA ProdStep ==
  ASSUME TypeOK, [Next]_vars
  PROVE  ProdType'
<1>0. ProdType
  BY TypeParts
<1>1. ASSUME NEW p \in Producer, Produce(p) PROVE ProdType'
  BY <1>0, <1>1 DEF Produce, SeasonChange, Resolve, Claim, Add, AddFails, MarkEnqueueFailed,
                    SetQueueJobId,
                    ProducerDies, Goes, ProdType
<1>2. ASSUME NEW w \in Worker, Work(w) \/ Crash(w) \/ \E m \in Message : Deliver(w, m)
      PROVE  UNCHANGED prod
  BY <1>2
     DEF Work, LookUp, Revive, MarkActive, PassGuards, Admit, StopAtCheckpoint, LoseToWinner,
         Refuse, LosePermit, Throw, CallFails, Stops, PassPublicationGuard, Publish, Reject,
         Complete, Write, Leave, Crash, Deliver
<1>3. ASSUME NEW o \in Controller, Control(o) PROVE UNCHANGED prod
  BY <1>3 DEF Control, Request, Supersede, NotRemoved, Close, ForceCancel, WriteCancelled,
              MarkLoser, Remove,
              BecameActive
<1>4. CASE WinnerEnds \/ UNCHANGED vars \/ \E m \in Message : Redeliver(m)
  BY <1>0, <1>4 DEF WinnerEnds, vars, Redeliver, ProdType
<1> QED BY <1>0, <1>1, <1>2, <1>3, <1>4 DEF Next, ProdType

LEMMA WorkStep ==
  ASSUME TypeOK, [Next]_vars
  PROVE  WorkType'
<1>0. WorkType
  BY TypeParts
<1> USE <1>0 DEF WorkType, Points
<1>1. ASSUME NEW w \in Worker, Work(w) PROVE WorkType'
  <2>1. CASE LookUp(w)
    BY <2>1 DEF LookUp, Moves
  <2>2. CASE Revive(w) \/ MarkActive(w) \/ PassGuards(w) \/ Admit(w) \/ Publish(w) \/ Reject(w)
               \/ PassPublicationGuard(w) \/ Leave(w)
    BY <2>2 DEF Revive, MarkActive, PassGuards, Admit, PassPublicationGuard, Publish, Reject,
                Leave, Moves
  <2>3. CASE StopAtCheckpoint(w) \/ LoseToWinner(w) \/ Refuse(w) \/ LosePermit(w)
    BY <2>3, MarksType
       DEF StopAtCheckpoint, LoseToWinner, Refuse, LosePermit, Stops, Moves, Lets
  <2>4. CASE Throw(w)
    BY <2>4, MarksType DEF Throw, Stops, Moves, Lets
  <2>5. CASE Complete(w) \/ Write(w) \/ CallFails(w)
    BY <2>5 DEF Complete, Write, CallFails, Moves, Lets, Marks
  <2> QED BY <1>1, <2>1, <2>2, <2>3, <2>4, <2>5 DEF Work
<1>2. ASSUME NEW w \in Worker, Crash(w) \/ \E m \in Message : Deliver(w, m) PROVE WorkType'
  BY <1>2 DEF Crash, Deliver, Moves, Lets, Marks
<1>3. ASSUME NEW o \in Controller, Control(o) PROVE WorkType'
  BY <1>3 DEF Control, Request, Supersede, NotRemoved, Close, ForceCancel, WriteCancelled,
              MarkLoser, Remove,
              BecameActive, Dooms, Executing, workVars
<1>4. ASSUME NEW p \in Producer, Produce(p) PROVE WorkType'
  BY <1>4 DEF Produce, SeasonChange, Resolve, Claim, Add, AddFails, MarkEnqueueFailed,
              SetQueueJobId, ProducerDies,
              workVars
<1>5. CASE WinnerEnds \/ UNCHANGED vars \/ \E m \in Message : Redeliver(m)
  BY <1>5 DEF WinnerEnds, vars, Redeliver, workVars
<1> QED BY <1>1, <1>2, <1>3, <1>4, <1>5 DEF Next

LEMMA OpStep ==
  ASSUME TypeOK, [Next]_vars
  PROVE  OpType' /\ winner' \in BOOLEAN
<1>0. OpType /\ winner \in BOOLEAN
  BY TypeParts
<1>1. ASSUME NEW o \in Controller, Control(o) PROVE OpType' /\ winner' \in BOOLEAN
  <2>1. CASE \E k \in Kinds : Request(o, k)
    BY <1>0, <2>1 DEF Request, OpType
  <2>2. CASE Supersede(o)
    BY <1>0, <2>2 DEF Supersede, OpType
  <2>3. CASE NotRemoved(o) \/ Close(o) \/ ForceCancel(o) \/ WriteCancelled(o) \/ MarkLoser(o)
               \/ \E m \in Message : Remove(o, m) \/ BecameActive(o, m)
    BY <1>0, <2>3 DEF NotRemoved, Close, ForceCancel, WriteCancelled, MarkLoser, Remove,
                      BecameActive, Turns,
                      OpType
  <2> QED BY <1>1, <2>1, <2>2, <2>3 DEF Control
<1>2. ASSUME NEW w \in Worker, Work(w) \/ Crash(w) \/ \E m \in Message : Deliver(w, m)
      PROVE  UNCHANGED <<op, winner>>
  BY <1>2
     DEF Work, LookUp, Revive, MarkActive, PassGuards, Admit, StopAtCheckpoint, LoseToWinner,
         Refuse, LosePermit, Throw, CallFails, Stops, PassPublicationGuard, Publish, Reject,
         Complete, Write, Leave, Crash, Deliver
<1>3. ASSUME NEW p \in Producer, Produce(p) PROVE UNCHANGED <<op, winner>>
  BY <1>3 DEF Produce, SeasonChange, Resolve, Claim, Add, AddFails, MarkEnqueueFailed,
              SetQueueJobId, ProducerDies
<1>4. CASE WinnerEnds \/ UNCHANGED vars \/ \E m \in Message : Redeliver(m)
  BY <1>0, <1>4 DEF WinnerEnds, vars, Redeliver, OpType
<1> QED BY <1>0, <1>1, <1>2, <1>3, <1>4 DEF Next, OpType

LEMMA TypeInit == Init => TypeOK
BY DEF Init, TypeOK

(* Whatever the faults, rows, messages and processes keep their types: in  *)
(* particular a row only ever names a message as its queue job.            *)
THEOREM LifecycleTypeCorrect == Spec => []TypeOK
<1>1. TypeOK /\ [Next]_vars => TypeOK'
  <2> SUFFICES ASSUME TypeOK, [Next]_vars PROVE TypeOK'
    OBVIOUS
  <2>1. RowType' /\ QueueType' /\ ProdType' /\ WorkType' /\ OpType' /\ winner' \in BOOLEAN
    BY RowStep, QueueStep, ProdStep, WorkStep, OpStep
  <2> QED BY <2>1 DEF TypeOK, RowType, QueueType, ProdType, WorkType, OpType, Status, Marks, Points
<1> QED BY <1>1, TypeInit, PTL DEF Spec

----------------------------------------------------------------------------
(* One execution at a time, as long as no operator has acted and nothing   *)
(* fails but the queue's answers.                                          *)
Quiet == Faults \subseteq {"queueError"}
Calm  == \A o \in Controller : op[o].at = "new"

(* A claim is on a QUEUED row, a live message belongs to a row in flight,  *)
(* a delivered message to a worker that is busy with it, and there is at   *)
(* most one claim or live message.                                         *)
Claimed == \A p \in Producer : Owes(p) => row.status = "QUEUED"
Flying  == \A m \in Message : Live(m) => InFlight(row.status)
Locked  == \A m \in Message : queue[m].at = "active" =>
              queue[m].lock \in Worker /\ pc[queue[m].lock] # "idle"
HasMessage(w) == \E m \in Message : queue[m].at = "active" /\ queue[m].lock = w
Busy    == \A w \in Worker : pc[w] \notin {"idle", "leaving"} => HasMessage(w)
Lone    == /\ \A m, n \in Message : Live(m) /\ Live(n) => m = n
           /\ \A p, q \in Producer : Owes(p) /\ Owes(q) => p = q
           /\ \A p \in Producer, m \in Message : ~(Owes(p) /\ Live(m))
ExecInv == Claimed /\ Flying /\ Locked /\ Busy /\ Lone

(* A controller that has acted never goes back. *)
LEMMA CalmBefore ==
  ASSUME TypeOK, [Next]_vars, Calm'
  PROVE  Calm /\ \A o \in Controller : ~Control(o)
<1>0. OpType
  BY TypeParts
<1>1. ASSUME NEW o \in Controller, Control(o) PROVE op'[o].at # "new"
  <2>1. CASE \E k \in Kinds : Request(o, k)
    BY <1>0, <2>1 DEF Request, OpType
  <2>2. CASE Supersede(o)
    BY <1>0, <2>2 DEF Supersede, OpType
  <2>3. CASE NotRemoved(o) \/ Close(o) \/ ForceCancel(o) \/ WriteCancelled(o) \/ MarkLoser(o)
               \/ \E m \in Message : Remove(o, m) \/ BecameActive(o, m)
    BY <1>0, <2>3 DEF NotRemoved, Close, ForceCancel, WriteCancelled, MarkLoser, Remove,
                      BecameActive, Turns,
                      OpType
  <2> QED BY <1>1, <2>1, <2>2, <2>3 DEF Control
<1>2. \A o \in Controller : ~Control(o)
  BY <1>1 DEF Calm
<1>3. UNCHANGED op
  <2>1. ASSUME NEW w \in Worker, Work(w) \/ Crash(w) \/ \E m \in Message : Deliver(w, m)
        PROVE  UNCHANGED op
    BY <2>1
       DEF Work, LookUp, Revive, MarkActive, PassGuards, Admit, StopAtCheckpoint, LoseToWinner,
           Refuse, LosePermit, Throw, CallFails, Stops, PassPublicationGuard, Publish, Reject,
           Complete, Write, Leave, Crash,
           Deliver
  <2>2. ASSUME NEW p \in Producer, Produce(p) PROVE UNCHANGED op
    BY <2>2 DEF Produce, SeasonChange, Resolve, Claim, Add, AddFails, MarkEnqueueFailed,
                SetQueueJobId, ProducerDies
  <2>3. CASE WinnerEnds \/ UNCHANGED vars \/ \E m \in Message : Redeliver(m)
    BY <2>3 DEF WinnerEnds, vars, Redeliver
  <2> QED BY <1>2, <2>1, <2>2, <2>3 DEF Next
<1> QED BY <1>2, <1>3 DEF Calm

(* The message a busy worker executes is live. *)
LEMMA BusyIsLive ==
  ASSUME TypeOK, ExecInv, NEW w \in Worker, pc[w] \notin {"idle", "leaving"}
  PROVE  \E m \in Message : queue[m].at = "active" /\ queue[m].lock = w /\ Live(m)
BY ConstantsAssumption DEF ExecInv, Busy, HasMessage, Live

(* Hence its row is in flight, and nobody holds a claim. *)
LEMMA BusyAlone ==
  ASSUME TypeOK, ExecInv, NEW w \in Worker, pc[w] \notin {"idle", "leaving"}
  PROVE  /\ InFlight(row.status)
         /\ \A p \in Producer : ~Owes(p)
         /\ \A n \in Message : Live(n) => queue[n].at = "active" /\ queue[n].lock = w
BY BusyIsLive DEF ExecInv, Flying, Lone

LEMMA ProducerKeepsOne ==
  ASSUME TypeOK, Quiet, ExecInv, NEW p \in Producer, Produce(p)
  PROVE  ExecInv'
<1>0. RowType /\ QueueType /\ ProdType
  BY TypeParts
<1>1. ASSUME UNCHANGED <<queue, pc>>
      PROVE  Locked' /\ Busy' /\ \A m \in Message : Live(m)' <=> Live(m)
  BY <1>1 DEF ExecInv, Locked, Busy, HasMessage, Live
<1>2. CASE Resolve(p)
  <2>1. UNCHANGED <<queue, pc>> /\ \A q \in Producer : Owes(q)' <=> Owes(q)
    BY <1>0, <1>2 DEF Resolve, Goes, Owes, ProdType, workVars
  <2>2. row' = row \/ row.status = "none"
    BY <1>2 DEF Resolve, Found, Quiet
  <2> QED BY <1>1, <2>1, <2>2 DEF ExecInv, Claimed, Flying, Lone, InFlight
<1>3. CASE Claim(p)
  <2>1. UNCHANGED <<queue, pc>>
    BY <1>3 DEF Claim, workVars
  <2>2. CASE row.status \in Terminal
    <3>1. (\A q \in Producer : ~Owes(q)) /\ (\A m \in Message : ~Live(m))
      BY <2>2 DEF ExecInv, Claimed, Flying, InFlight, Terminal
    <3>2. row'.status = "QUEUED" /\ \A q \in Producer : Owes(q)' => q = p
      BY <1>0, <1>3, <2>2, <3>1 DEF Claim, Goes, Reset, Owes, ProdType
    <3> QED BY <1>1, <2>1, <3>1, <3>2 DEF ExecInv, Claimed, Flying, Lone
  <2>3. CASE row.status \notin Terminal
    <3>1. UNCHANGED row /\ \A q \in Producer : Owes(q)' => Owes(q)
      BY <1>0, <1>3, <2>3 DEF Claim, Goes, Owes, ProdType
    <3> QED BY <1>1, <2>1, <3>1 DEF ExecInv, Claimed, Flying, Lone
  <2> QED BY <2>2, <2>3
<1>4. ASSUME NEW m \in Message, Add(p, m) PROVE ExecInv'
  <2>1. Owes(p) /\ row.status = "QUEUED" /\ UNCHANGED <<row, pc>>
    BY <1>4 DEF Add, Owes, ExecInv, Claimed, workVars
  <2>2. \A q \in Producer : ~Owes(q)'
    BY <1>0, <1>4, <2>1 DEF Add, Owes, ExecInv, Lone, ProdType
  <2>3. \A n \in Message : ~Live(n)
    BY <2>1 DEF ExecInv, Lone
  <2>4. /\ queue[m].at = "unused" /\ queue'[m].at = "waiting"
        /\ \A n \in Message \ {m} : queue'[n] = queue[n]
    BY <1>0, <1>4 DEF Add, Publishes, QueueType
  <2>5. \A n \in Message : Live(n)' => n = m
    BY <2>1, <2>3, <2>4 DEF Live
  <2>6. Locked' /\ Busy'
    BY <2>1, <2>4 DEF ExecInv, Locked, Busy, HasMessage
  <2> QED BY <2>1, <2>2, <2>5, <2>6 DEF ExecInv, Claimed, Flying, Lone, InFlight
<1>5. CASE AddFails(p)
  <2>1. UNCHANGED <<row, queue, pc>> /\ \A q \in Producer : Owes(q)' <=> Owes(q)
    BY <1>0, <1>5 DEF AddFails, Goes, Owes, Quiet, ProdType, workVars
  <2> QED BY <1>1, <2>1 DEF ExecInv, Claimed, Flying, Lone
<1>6. CASE SetQueueJobId(p)
  <2>1. UNCHANGED <<queue, pc>> /\ \A q \in Producer : Owes(q)' <=> Owes(q)
    BY <1>0, <1>6 DEF SetQueueJobId, Goes, Owes, ProdType, workVars
  <2>2. row'.status = row.status
    BY <1>0, <1>6 DEF SetQueueJobId, RowType
  <2> QED BY <1>1, <2>1, <2>2 DEF ExecInv, Claimed, Flying, Lone
<1>7. CASE SeasonChange(p) \/ ProducerDies(p)
  BY <1>7 DEF SeasonChange, ProducerDies, Quiet
<1>8. CASE MarkEnqueueFailed(p)
  <2>1. Owes(p) /\ UNCHANGED <<queue, pc>>
    BY <1>8 DEF MarkEnqueueFailed, Owes, workVars
  <2>2. \A q \in Producer : ~Owes(q)'
    BY <1>0, <1>8, <2>1 DEF MarkEnqueueFailed, Goes, Owes, ExecInv, Lone, ProdType
  <2>3. \A n \in Message : ~Live(n)
    BY <2>1 DEF ExecInv, Lone
  <2> QED BY <1>1, <2>1, <2>2, <2>3 DEF ExecInv, Claimed, Flying, Lone
<1> QED BY <1>2, <1>3, <1>4, <1>5, <1>6, <1>7, <1>8 DEF Produce

(* An execution that goes on keeps its message and a row in flight. *)
LEMMA GoesOn ==
  ASSUME TypeOK, ExecInv, NEW w \in Worker, pc[w] \notin {"idle", "leaving"},
         UNCHANGED <<queue, prod>>, InFlight(row'.status),
         NEW at \in Points \ {"idle", "leaving"}, pc' = [pc EXCEPT ![w] = at]
  PROVE  ExecInv'
<1>0. pc \in [Worker -> Points] /\ QueueType
  BY TypeParts DEF WorkType
<1>1. \A m \in Message : Live(m)' <=> Live(m)
  BY <1>0 DEF Live, QueueType
<1>2. Locked' /\ Busy'
  BY <1>0 DEF ExecInv, Locked, Busy, HasMessage
<1>3. \A p \in Producer : ~Owes(p)'
  BY BusyAlone DEF Owes
<1> QED BY <1>1, <1>2, <1>3 DEF ExecInv, Claimed, Flying, Lone, InFlight

(* An execution that ends was the only one: nothing is pending any more.   *)
LEMMA Ends ==
  ASSUME TypeOK, ExecInv, NEW w \in Worker, pc[w] \notin {"idle", "leaving"},
         UNCHANGED <<queue, prod>>, pc' = [pc EXCEPT ![w] = "leaving"]
  PROVE  ExecInv'
<1>0. pc \in [Worker -> Points] /\ QueueType
  BY TypeParts DEF WorkType
<1>1. \A m \in Message : ~Live(m)'
  <2> SUFFICES ASSUME NEW m \in Message, Live(m)' PROVE FALSE
    OBVIOUS
  <2>1. Live(m)
    BY <1>0 DEF Live, QueueType
  <2>2. queue[m].at = "active" /\ queue[m].lock = w
    BY <2>1, BusyAlone
  <2> QED BY <1>0, <2>2, ConstantsAssumption DEF Live
<1>2. Locked' /\ Busy'
  BY <1>0 DEF ExecInv, Locked, Busy, HasMessage
<1>3. \A p \in Producer : ~Owes(p)'
  BY BusyAlone DEF Owes
<1> QED BY <1>1, <1>2, <1>3 DEF ExecInv, Claimed, Flying, Lone

LEMMA WorkerKeepsOne ==
  ASSUME TypeOK, Quiet, ExecInv, NEW w \in Worker, Work(w)
  PROVE  ExecInv'
<1>0. RowType /\ QueueType /\ pc \in [Worker -> Points]
  BY TypeParts DEF WorkType
<1>1. CASE Leave(w)
  <2>1. pc[w] = "leaving" /\ pc' = [pc EXCEPT ![w] = "idle"] /\ UNCHANGED <<row, prod>>
    BY <1>1 DEF Leave, Moves
  <2>2. \A m \in Message : queue[m].lock # w => queue'[m] = queue[m]
    BY <1>1 DEF Leave
  <2>3. \A m \in Message : queue[m].lock = w => queue'[m].at = "gone"
    BY <1>0, <1>1 DEF Leave, QueueType
  <2>4. \A m \in Message : Live(m)' => Live(m)
    BY <1>0, <2>1, <2>2, <2>3 DEF Live, QueueType
  <2>5. Locked' /\ Busy'
    BY <1>0, <2>1, <2>2, <2>3 DEF ExecInv, Locked, Busy, HasMessage, QueueType
  <2> QED BY <2>1, <2>4, <2>5 DEF ExecInv, Claimed, Flying, Lone, Owes
<1>2. CASE ~Leave(w)
  <2>1. pc[w] \notin {"idle", "leaving"} /\ UNCHANGED <<queue, prod>>
    BY <1>2
       DEF Work, LookUp, Revive, MarkActive, PassGuards, Admit, StopAtCheckpoint, LoseToWinner,
           Refuse, LosePermit, Throw, CallFails, Stops, PassPublicationGuard, Publish, Reject,
           Complete, Write, Executing
  <2>2. InFlight(row.status) /\ row.status # "none"
    BY <2>1, BusyAlone DEF InFlight
  <2>3. ASSUME InFlight(row'.status), NEW at \in Points \ {"idle", "leaving"},
               pc' = [pc EXCEPT ![w] = at]
        PROVE  ExecInv'
    BY <2>1, <2>3, GoesOn
  <2>4. ASSUME pc' = [pc EXCEPT ![w] = "leaving"] PROVE ExecInv'
    BY <2>1, <2>4, Ends
  <2>5. CASE LookUp(w)
    <3>1. row' = row
      BY <2>2, <2>5 DEF LookUp, Found, Quiet
    <3>2. pc' = [pc EXCEPT ![w] = "found"]
      BY <2>2, <2>5, <3>1 DEF LookUp, Moves, InFlight
    <3> QED BY <2>2, <2>3, <3>1, <3>2 DEF Points
  <2>6. CASE Revive(w) \/ MarkActive(w)
    <3>1. InFlight(row'.status)
      BY <1>0, <2>6 DEF Revive, MarkActive, Reset, InFlight, RowType
    <3> QED BY <2>3, <2>6, <3>1 DEF Revive, MarkActive, Moves, Points
  <2>7. CASE PassGuards(w) \/ Admit(w) \/ StopAtCheckpoint(w) \/ LoseToWinner(w) \/ Refuse(w)
               \/ LosePermit(w) \/ PassPublicationGuard(w) \/ Publish(w) \/ Reject(w)
    <3>1. row' = row
      BY <2>7 DEF PassGuards, Admit, StopAtCheckpoint, LoseToWinner, Refuse, LosePermit, Stops,
                  PassPublicationGuard, Publish, Reject
    <3> QED BY <2>2, <2>3, <2>7, <3>1
            DEF PassGuards, Admit, StopAtCheckpoint, LoseToWinner, Refuse, LosePermit, Stops,
                PassPublicationGuard, Publish, Reject, Moves, Points
  <2>8. CASE Throw(w)
    BY <2>2, <2>3, <2>8 DEF Throw, Stops, Moves, Points
  <2>9. CASE Complete(w) \/ Write(w) \/ CallFails(w)
    BY <2>4, <2>9 DEF Complete, Write, CallFails, Moves
  <2> QED BY <1>2, <2>5, <2>6, <2>7, <2>8, <2>9 DEF Work
<1> QED BY <1>1, <1>2

LEMMA DeliveryKeepsOne ==
  ASSUME TypeOK, ExecInv, NEW w \in Worker, NEW m \in Message, Deliver(w, m)
  PROVE  ExecInv'
<1>0. QueueType /\ pc \in [Worker -> Points]
  BY TypeParts DEF WorkType
<1>1. /\ pc[w] = "idle" /\ pc' = [pc EXCEPT ![w] = "delivered"]
      /\ queue[m].at = "waiting" /\ UNCHANGED <<row, prod>>
  BY DEF Deliver, Moves
<1>2. /\ queue'[m].at = "active" /\ queue'[m].lock = w
      /\ \A n \in Message \ {m} : queue'[n] = queue[n]
  BY <1>0 DEF Deliver, QueueType
<1>3. \A n \in Message : Live(n)' <=> Live(n)
  BY <1>0, <1>1, <1>2, ConstantsAssumption DEF Live, ExecInv, Locked, QueueType
<1>4. Locked'
  BY <1>0, <1>1, <1>2 DEF ExecInv, Locked
<1>5. Busy'
  BY <1>0, <1>1, <1>2 DEF ExecInv, Busy, HasMessage
<1> QED BY <1>1, <1>3, <1>4, <1>5 DEF ExecInv, Claimed, Flying, Lone, Owes

LEMMA CalmStep ==
  ASSUME TypeOK, Quiet, Calm => ExecInv, [Next]_vars
  PROVE  (Calm => ExecInv)'
<1> SUFFICES ASSUME Calm' PROVE ExecInv'
  OBVIOUS
<1>0. ExecInv /\ \A o \in Controller : ~Control(o)
  BY CalmBefore
<1>1. CASE WinnerEnds \/ UNCHANGED vars
  <2>1. UNCHANGED <<row, queue, prod, pc>>
    BY <1>1 DEF WinnerEnds, vars, workVars
  <2> QED BY <1>0, <2>1
          DEF ExecInv, Claimed, Flying, Locked, Busy, HasMessage, Lone, Live, Owes, InFlight
<1>2. ASSUME NEW m \in Message, Redeliver(m) PROVE FALSE
  BY <1>0, <1>2, ConstantsAssumption DEF Redeliver, ExecInv, Locked, Quiet
<1>3. ASSUME NEW w \in Worker, Crash(w) PROVE FALSE
  BY <1>3 DEF Crash, Quiet
<1> QED BY <1>0, <1>1, <1>2, <1>3, ProducerKeepsOne, WorkerKeepsOne, DeliveryKeepsOne DEF Next

(* As long as no operator has acted and nothing but the queue's answers    *)
(* fails, any number of concurrent requests for one refresh lead to one    *)
(* execution at a time: the claim on the row excludes a second message.    *)
THEOREM ConcurrentRequestsExecuteOnce ==
  ASSUME Quiet
  PROVE  Spec => []OneExecution
<1>1. Init => (Calm => ExecInv)
  BY DEF Init, ExecInv, Claimed, Flying, Locked, Busy, Lone, Live, Owes
<1>2. TypeOK /\ (Calm => ExecInv) /\ [Next]_vars => (Calm => ExecInv)'
  BY CalmStep
<1>3. (Calm => ExecInv) => OneExecution
  BY DEF Calm, ExecInv, Lone, OneExecution, Pending, Owes
<1> QED BY <1>1, <1>2, <1>3, LifecycleTypeCorrect, PTL DEF Spec
----------------------------------------------------------------------------
(* A QUEUED row is on its way to a worker, or to its end. *)
Waits(m)  == queue[m].at = "waiting"
Shuts(o)  == op[o].at \in {"closing", "failing"}
Takes(w)  == pc[w] \in {"delivered", "found"}
OnItsWay  == \/ \E m \in Message : Waits(m)
             \/ \E p \in Producer : Owes(p)
             \/ \E o \in Controller : Shuts(o)
             \/ \E w \in Worker : Takes(w)

(* A message that no worker has taken is locked by none. *)
Unlocked == \A m \in Message : queue[m].at \in {"unused", "waiting"} => queue[m].lock = None

LEMMA UnlockedStep ==
  ASSUME TypeOK, Unlocked, [Next]_vars
  PROVE  Unlocked'
<1>0. QueueType
  BY TypeParts
<1>1. ASSUME NEW m \in Message, Publishes(m) \/ Redeliver(m) PROVE Unlocked'
  BY <1>0, <1>1 DEF Publishes, Redeliver, Unlocked, QueueType
<1>2. ASSUME NEW o \in Controller, NEW m \in Message, Remove(o, m) PROVE Unlocked'
  BY <1>0, <1>2 DEF Remove, Unlocked, QueueType
<1>3. ASSUME NEW w \in Worker, NEW m \in Message, Deliver(w, m) PROVE Unlocked'
  BY <1>0, <1>3 DEF Deliver, Unlocked, QueueType
<1>4. ASSUME NEW w \in Worker, Leave(w) \/ Crash(w) PROVE Unlocked'
  <2> SUFFICES ASSUME NEW m \in Message, queue'[m].at \in {"unused", "waiting"}
               PROVE  queue'[m].lock = None
    BY DEF Unlocked
  <2>1. \/ queue'[m] = queue[m] /\ queue[m].at \in {"unused", "waiting"}
        \/ queue'[m].lock = None
    <3>1. queue[m] \in MessageRecord
      BY <1>0 DEF QueueType, MessageRecord
    <3>2. CASE queue[m].lock # w
      BY <1>4, <3>2 DEF Leave, Crash
    <3>3. CASE queue[m].lock = w /\ Leave(w)
      <4>1. queue'[m] = [queue[m] EXCEPT !.at = "gone", !.lock = None]
        BY <3>3 DEF Leave
      <4> QED BY <3>1, <4>1 DEF MessageRecord
    <3>4. CASE queue[m].lock = w /\ Crash(w)
      <4>1. queue'[m] = [queue[m] EXCEPT !.lock = None]
        BY <3>4 DEF Crash
      <4> QED BY <3>1, <4>1 DEF MessageRecord
    <3> QED BY <1>4, <3>2, <3>3, <3>4
  <2> QED BY <2>1 DEF Unlocked
<1>5. CASE UNCHANGED queue
  BY <1>5 DEF Unlocked
<1> QED BY <1>1, <1>2, <1>3, <1>4, <1>5, QueueUntouched DEF QueueSteps

(* Nothing but a reset makes a row QUEUED. *)
LEMMA WritesNoQueued ==
  ASSUME RowType, NEW s \in Marks
  PROVE  Written(s).status = "QUEUED" => s = "keep" /\ row.status = "QUEUED"
BY DEF Written, RowType, Marks, Terminal

LEMMA FindsNoQueued ==
  ASSUME RowType, NEW r \in Found, r.status = "QUEUED"
  PROVE  row.status = "QUEUED"
<1>1. Closed \in Marks /\ "FAILED" \in Marks /\ Closed # "keep"
  BY DEF Closed, Marks, Terminal
<1>2. r = row \/ r = Written(Closed) \/ r = Written("FAILED")
  BY DEF Found
<1> QED BY <1>1, <1>2, WritesNoQueued

LEMMA ProducersQueue ==
  ASSUME TypeOK, QueuedIsRunnable, Faults \cap {"crash", "callFails"} = {}, NEW p \in Producer, Produce(p)
  PROVE  QueuedIsRunnable'
<1>0. RowType /\ QueueType /\ ProdType
  BY TypeParts
<1> SUFFICES ASSUME row'.status = "QUEUED" PROVE OnItsWay'
  BY DEF QueuedIsRunnable, OnItsWay, Waits, Owes, Shuts, Takes
<1>1. row.status = "QUEUED" => OnItsWay
  BY DEF QueuedIsRunnable, OnItsWay, Waits, Owes, Shuts, Takes
<1>2. UNCHANGED <<op, pc>>
  BY DEF Produce, SeasonChange, Resolve, Claim, Add, AddFails, MarkEnqueueFailed, SetQueueJobId,
         ProducerDies,
         workVars
<1>3. CASE SeasonChange(p)
  <2>1. row.status = "QUEUED" /\ UNCHANGED <<queue, prod>>
    BY <1>0, <1>3, MarksType, WritesNoQueued DEF SeasonChange
  <2> QED BY <1>1, <1>2, <2>1 DEF OnItsWay, Waits, Owes, Shuts, Takes
<1>4. CASE Resolve(p) \/ SetQueueJobId(p)
  <2>1. row.status = "QUEUED"
    BY <1>0, <1>4, FindsNoQueued DEF Resolve, SetQueueJobId, RowType
  <2>2. UNCHANGED queue /\ \A q \in Producer : Owes(q) => Owes(q)'
    BY <1>0, <1>4 DEF Resolve, SetQueueJobId, Goes, Owes, ProdType
  <2> QED BY <1>1, <1>2, <2>1, <2>2 DEF OnItsWay, Waits, Shuts, Takes
<1>5. CASE Claim(p)
  <2>1. CASE row.status \in Terminal
    BY <1>0, <1>5, <2>1 DEF Claim, Goes, OnItsWay, Owes, ProdType
  <2>2. CASE row.status \notin Terminal
    <3>1. row' = row /\ UNCHANGED queue /\ \A q \in Producer : Owes(q) => Owes(q)'
      BY <1>0, <1>5, <2>2 DEF Claim, Goes, Owes, ProdType
    <3> QED BY <1>1, <1>2, <3>1 DEF OnItsWay, Waits, Shuts, Takes
  <2> QED BY <2>1, <2>2
<1>6. ASSUME NEW m \in Message, Add(p, m) PROVE OnItsWay'
  BY <1>0, <1>6 DEF Add, Publishes, OnItsWay, Waits, QueueType
<1>7. CASE AddFails(p)
  BY <1>0, <1>7 DEF AddFails, Goes, OnItsWay, Owes, ProdType
<1>8. CASE ProducerDies(p)
  BY <1>8 DEF ProducerDies
<1>9. CASE MarkEnqueueFailed(p)
  BY <1>0, <1>9 DEF MarkEnqueueFailed, EnqueueFailed, RowType
<1> QED BY <1>3, <1>4, <1>5, <1>6, <1>7, <1>8, <1>9 DEF Produce

LEMMA WorkersQueue ==
  ASSUME TypeOK, Unlocked, QueuedIsRunnable, Faults \cap {"crash", "callFails"} = {}, NEW w \in Worker,
         Work(w) \/ Crash(w) \/ \E m \in Message : Deliver(w, m)
  PROVE  QueuedIsRunnable'
<1>0. RowType /\ QueueType /\ pc \in [Worker -> Points] /\ mark \in [Worker -> Marks]
  BY TypeParts DEF WorkType
<1> SUFFICES ASSUME row'.status = "QUEUED" PROVE OnItsWay'
  BY DEF QueuedIsRunnable, OnItsWay, Waits, Owes, Shuts, Takes
<1>1. row.status = "QUEUED" => OnItsWay
  BY DEF QueuedIsRunnable, OnItsWay, Waits, Owes, Shuts, Takes
<1>2. UNCHANGED <<op, prod>>
  BY DEF Work, LookUp, Revive, MarkActive, PassGuards, Admit, StopAtCheckpoint, LoseToWinner,
         Refuse, LosePermit, Throw, CallFails, Stops, PassPublicationGuard, Publish, Reject,
         Complete, Write, Leave, Crash, Deliver
<1>3. CASE LookUp(w) \/ Revive(w) \/ \E m \in Message : Deliver(w, m)
  <2>1. pc'[w] \in {"delivered", "found"}
    BY <1>0, <1>3 DEF LookUp, Revive, Deliver, Moves, InFlight
  <2> QED BY <2>1 DEF OnItsWay, Takes
<1>4. CASE MarkActive(w) \/ Complete(w) \/ Crash(w) \/ CallFails(w)
  BY <1>0, <1>4 DEF MarkActive, Complete, Crash, CallFails, RowType
<1>5. CASE \/ PassGuards(w) \/ Admit(w) \/ StopAtCheckpoint(w) \/ LoseToWinner(w) \/ Refuse(w)
           \/ LosePermit(w) \/ Throw(w) \/ PassPublicationGuard(w) \/ Publish(w) \/ Reject(w)
           \/ Write(w) \/ Leave(w)
  <2>1. row.status = "QUEUED"
    BY <1>0, <1>5, WritesNoQueued
       DEF PassGuards, Admit, StopAtCheckpoint, LoseToWinner, Refuse, LosePermit, Throw,
           CallFails, Stops,
           PassPublicationGuard, Publish, Reject, Write, Leave
  <2>2. ~Takes(w) /\ \A v \in Worker \ {w} : pc'[v] = pc[v]
    BY <1>0, <1>5
       DEF PassGuards, Admit, StopAtCheckpoint, LoseToWinner, Refuse, LosePermit, Throw,
           CallFails, Stops,
           PassPublicationGuard, Publish, Reject, Write, Leave, Takes, Moves, Executing
  <2>3. \A m \in Message : Waits(m) => Waits(m)'
    <3>1. CASE Leave(w)
      BY <3>1, ConstantsAssumption DEF Leave, Unlocked, Waits
    <3> QED
      BY <1>5, <3>1
         DEF PassGuards, Admit, StopAtCheckpoint, LoseToWinner, Refuse, LosePermit, Throw,
             CallFails, Stops,
             PassPublicationGuard, Publish, Reject, Write, Waits
  <2> QED BY <1>1, <1>2, <2>1, <2>2, <2>3 DEF OnItsWay, Owes, Shuts, Takes
<1> QED BY <1>3, <1>4, <1>5 DEF Work

LEMMA ControllersQueue ==
  ASSUME TypeOK, QueuedIsRunnable, NEW o \in Controller, Control(o)
  PROVE  QueuedIsRunnable'
<1>0. RowType /\ QueueType /\ OpType
  BY TypeParts
<1> SUFFICES ASSUME row'.status = "QUEUED" PROVE OnItsWay'
  BY DEF QueuedIsRunnable, OnItsWay, Waits, Owes, Shuts, Takes
<1>1. row.status = "QUEUED" => OnItsWay
  BY DEF QueuedIsRunnable, OnItsWay, Waits, Owes, Shuts, Takes
<1>2. UNCHANGED <<pc, prod>>
  BY DEF Control, Request, Supersede, NotRemoved, Close, ForceCancel, WriteCancelled, MarkLoser,
         Remove,
         BecameActive, workVars
<1>3. ASSUME ~Shuts(o), row'.status = row.status, UNCHANGED queue,
             \A x \in Controller \ {o} : op'[x] = op[x]
      PROVE  OnItsWay'
  BY <1>1, <1>2, <1>3 DEF OnItsWay, Waits, Owes, Shuts, Takes
<1>4. ASSUME NEW k \in Kinds, Request(o, k) PROVE OnItsWay'
  BY <1>0, <1>3, <1>4 DEF Request, Asked, Shuts, RowType, OpType
<1>5. CASE Supersede(o)
  BY <1>0, <1>3, <1>5 DEF Supersede, Asked, Shuts, RowType, OpType
<1>6. ASSUME NEW m \in Message, Remove(o, m) PROVE OnItsWay'
  BY <1>0, <1>6 DEF Remove, Turns, OnItsWay, Shuts, OpType
<1>7. ASSUME NEW m \in Message, BecameActive(o, m) PROVE OnItsWay'
  BY <1>0, <1>3, <1>7 DEF BecameActive, Asked, Turns, Shuts, RowType, OpType
<1>8. CASE NotRemoved(o)
  BY <1>0, <1>8 DEF NotRemoved, Turns, OnItsWay, Shuts, OpType
<1>9. CASE Close(o)
  <2>1. row.status = "QUEUED" => OnItsWay'
    BY <1>0, <1>9, WritesNoQueued
       DEF Close, InFlight, Turns, OnItsWay, Shuts, OpType, Marks, Terminal
  <2>2. row.status = "QUEUED"
    BY <1>0, <1>9 DEF Close, Asked, InFlight, RowType
  <2> QED BY <2>1, <2>2
<1>10. CASE WriteCancelled(o)
  BY <1>0, <1>10, WritesNoQueued DEF WriteCancelled, Marks, Terminal
<1>12. CASE ForceCancel(o)
  BY <1>0, <1>3, <1>12 DEF ForceCancel, Turns, Shuts, workVars, OpType
<1>11. CASE MarkLoser(o)
  BY <1>0, <1>11, MarksType, WritesNoQueued DEF MarkLoser, MarkSuperseded, Written, RowType
<1> QED BY <1>4, <1>5, <1>6, <1>7, <1>8, <1>9, <1>10, <1>11, <1>12 DEF Control

(* Without crashes, and calls that fail where nothing catches it, a QUEUED *)
(* row is never forgotten: whatever stalls, stale rows, failing queue      *)
(* calls and operators do, it waits in the queue, or somebody still has    *)
(* the next step on it to do.                                              *)
THEOREM QueuedRowsAreServed ==
  ASSUME Faults \cap {"crash", "callFails"} = {}
  PROVE  Spec => []QueuedIsRunnable
<1>1. Init => QueuedIsRunnable /\ Unlocked
  BY DEF Init, QueuedIsRunnable, Unlocked
<1>2. TypeOK /\ Unlocked /\ QueuedIsRunnable /\ [Next]_vars => QueuedIsRunnable' /\ Unlocked'
  <2> SUFFICES ASSUME TypeOK, Unlocked, QueuedIsRunnable, [Next]_vars
               PROVE  QueuedIsRunnable'
    BY UnlockedStep
  <2>1. CASE WinnerEnds \/ UNCHANGED vars \/ \E m \in Message : Redeliver(m)
    <3>1. UNCHANGED <<row, prod, op, pc>>
      BY <2>1 DEF WinnerEnds, vars, Redeliver, workVars
    <3>2. ASSUME NEW m \in Message, Waits(m) PROVE Waits(m)'
      BY <2>1, <3>2, TypeParts DEF WinnerEnds, vars, Redeliver, Waits, QueueType
    <3> QED BY <3>1, <3>2 DEF QueuedIsRunnable, Waits, Owes
  <2> QED
    BY <2>1, ProducersQueue, WorkersQueue, ControllersQueue DEF Next
<1> QED BY <1>1, <1>2, LifecycleTypeCorrect, PTL DEF Spec

----------------------------------------------------------------------------
(* Cancellation.  What an execution must not do after its job is cancelled *)
(* is pass the guard of the publication; what lets it is a row made ACTIVE *)
(* again, without the flag, by a second execution.  A second message is    *)
(* needed for that, as long as the queue redelivers no message of a worker *)
(* that still runs.                                                        *)
Used(m)     == queue[m].at # "unused"
Publishable == row.status = "ACTIVE" /\ row.cancel = "no"
Unguarded   == {w \in Worker : pc[w] \in {"started", "preflight", "working"}}

(* A worker that is not idle has a message of its own; an execution that   *)
(* was cancelled is past the point where it marks its row ACTIVE; and if   *)
(* the guard is still ahead of it, the guard will stop it.                 *)
Mine  == \A w \in Worker : pc[w] # "idle" => HasMessage(w)
Past  == \A w \in doomed : pc[w] \notin {"idle", "delivered", "reviving", "found"}
Stuck == ~SecondMessage => \A w \in doomed \cap Unguarded : ~Publishable
CancelInv == Mine /\ Past /\ Stuck

(* A message once used stays so. *)
LEMMA UsedStays ==
  ASSUME TypeOK, [Next]_vars, NEW m \in Message, Used(m)
  PROVE  Used(m)'
<1>0. QueueType
  BY TypeParts
<1>1. ASSUME NEW n \in Message, Publishes(n) \/ Redeliver(n) \/ \E o \in Controller : Remove(o, n)
      PROVE  Used(m)'
  BY <1>0, <1>1 DEF Publishes, Redeliver, Remove, Used, QueueType
<1>2. ASSUME NEW w \in Worker, NEW n \in Message, Deliver(w, n) PROVE Used(m)'
  BY <1>0, <1>2 DEF Deliver, Used, QueueType
<1>3. ASSUME NEW w \in Worker, Leave(w) \/ Crash(w) PROVE Used(m)'
  <2>1. queue[m] \in MessageRecord /\ queue[m].at # "unused"
    BY <1>0 DEF QueueType, MessageRecord, Used
  <2>2. \/ queue'[m] = queue[m]
        \/ queue'[m] = [queue[m] EXCEPT !.at = "gone", !.lock = None]
        \/ queue'[m] = [queue[m] EXCEPT !.lock = None]
    BY <1>3 DEF Leave, Crash
  <2> QED BY <2>1, <2>2 DEF Used, MessageRecord
<1>4. CASE UNCHANGED queue
  BY <1>4 DEF Used
<1> QED BY <1>1, <1>2, <1>3, <1>4, QueueUntouched DEF QueueSteps

LEMMA MineStep ==
  ASSUME TypeOK, "stall" \notin Faults, Mine, [Next]_vars
  PROVE  Mine'
<1>0. QueueType /\ pc \in [Worker -> Points]
  BY TypeParts DEF WorkType
<1> USE <1>0
<1>1. ASSUME \A w \in Worker : pc'[w] # "idle" => pc[w] # "idle",
             \A m \in Message : queue[m].at = "active" /\ queue[m].lock # None => queue'[m] = queue[m]
      PROVE  Mine'
  BY <1>1, ConstantsAssumption DEF Mine, HasMessage
<1>2. ASSUME NEW p \in Producer, Produce(p) PROVE Mine'
  BY <1>1, <1>2 DEF Produce, SeasonChange, Resolve, Claim, Add, AddFails, MarkEnqueueFailed,
                    SetQueueJobId,
                    ProducerDies, Publishes, workVars, QueueType
<1>3. ASSUME NEW o \in Controller, Control(o) PROVE Mine'
  BY <1>1, <1>3 DEF Control, Request, Supersede, NotRemoved, Close, ForceCancel, WriteCancelled,
                    MarkLoser,
                    Remove, BecameActive, workVars, QueueType
<1>4. ASSUME NEW m \in Message, Redeliver(m) PROVE Mine'
  BY <1>1, <1>4 DEF Redeliver, workVars, QueueType
<1>5. ASSUME NEW w \in Worker, Work(w), ~Leave(w) PROVE Mine'
  <2>1. UNCHANGED queue /\ pc[w] # "idle" /\ \A v \in Worker \ {w} : pc'[v] = pc[v]
    BY <1>5
       DEF Work, LookUp, Revive, MarkActive, PassGuards, Admit, StopAtCheckpoint, LoseToWinner,
           Refuse, LosePermit, Throw, CallFails, Stops, PassPublicationGuard, Publish, Reject,
           Complete, Write, Moves, Executing
  <2> QED BY <1>1, <2>1
<1>6. ASSUME NEW w \in Worker, Leave(w) \/ Crash(w) PROVE Mine'
  <2>1. pc'[w] = "idle" /\ \A v \in Worker \ {w} : pc'[v] = pc[v]
    BY <1>6 DEF Leave, Crash, Moves
  <2>2. \A m \in Message : queue[m].lock # w => queue'[m] = queue[m]
    BY <1>6 DEF Leave, Crash
  <2> QED BY <2>1, <2>2 DEF Mine, HasMessage
<1>7. ASSUME NEW w \in Worker, NEW m \in Message, Deliver(w, m) PROVE Mine'
  <2>1. \A v \in Worker \ {w} : pc'[v] = pc[v]
    BY <1>7 DEF Deliver, Moves
  <2>2. queue[m].at = "waiting" /\ \A n \in Message \ {m} : queue'[n] = queue[n]
    BY <1>7 DEF Deliver, QueueType
  <2>3. queue'[m].at = "active" /\ queue'[m].lock = w
    BY <1>7 DEF Deliver, QueueType
  <2> QED BY <2>1, <2>2, <2>3 DEF Mine, HasMessage
<1>8. CASE WinnerEnds \/ UNCHANGED vars
  BY <1>1, <1>8 DEF WinnerEnds, vars, workVars
<1> QED BY <1>2, <1>3, <1>4, <1>5, <1>6, <1>7, <1>8 DEF Next

(* Who is not doomed yet is doomed by a write that also stops the row from *)
(* being published; nobody but a worker that starts undoes that.           *)
LEMMA Dooming ==
  ASSUME TypeOK, NEW o \in Controller, Control(o)
  PROVE  /\ UNCHANGED pc
         /\ doomed' = doomed \/ (doomed' = doomed \cup Executing /\ ~Publishable')
         /\ Publishable' => Publishable
<1>0. RowType /\ OpType
  BY TypeParts
<1>1. Written("CANCELLED").status # "ACTIVE"
      /\ (Written(MarkSuperseded) = row \/ Written(MarkSuperseded).status # "ACTIVE")
  BY <1>0 DEF Written, MarkSuperseded, RowType
<1>2. \A r \in {"admin", "superseded"} :
        Asked(r) = row \/ (Asked(r).status = row.status /\ Asked(r).cancel # "no")
  BY <1>0 DEF Asked, RowType
<1>3. UNCHANGED pc
  BY DEF Control, Request, Supersede, NotRemoved, Close, ForceCancel, WriteCancelled, MarkLoser,
         Remove,
         BecameActive, workVars
<1>4. doomed' = doomed \/ Dooms
  BY DEF Control, Request, Supersede, NotRemoved, Close, ForceCancel, WriteCancelled, MarkLoser,
         Remove,
         BecameActive, workVars
<1>5. Dooms => doomed' = doomed \/ (doomed' = doomed \cup Executing /\ ~Publishable')
  BY DEF Dooms, Publishable
<1>6. Publishable' => Publishable
  BY <1>0, <1>1, <1>2
     DEF Control, Request, Supersede, NotRemoved, Close, ForceCancel, WriteCancelled, MarkLoser,
         Remove,
         BecameActive, Reason, Publishable, InFlight, Terminal
<1> QED BY <1>3, <1>4, <1>5, <1>6

LEMMA ProducersReviveNone ==
  ASSUME TypeOK, NEW p \in Producer, Produce(p)
  PROVE  UNCHANGED <<pc, doomed>> /\ (Publishable' => Publishable)
<1>0. RowType
  BY TypeParts
<1>1. UNCHANGED <<pc, doomed>>
  BY DEF Produce, SeasonChange, Resolve, Claim, Add, AddFails, MarkEnqueueFailed, SetQueueJobId,
         ProducerDies,
         workVars
<1>2. \A s \in Marks : Written(s) = row \/ Written(s).status # "ACTIVE"
  BY <1>0 DEF Written, Marks, Terminal, RowType
<1>3. Closed \in Marks /\ "FAILED" \in Marks /\ MarkFailed \in Marks
  BY MarksType DEF Closed, Marks, Terminal
<1>4. \A r \in Found : r = row \/ r.status # "ACTIVE"
  BY <1>2, <1>3 DEF Found
<1>5. Publishable' => Publishable
  BY <1>0, <1>2, <1>3, <1>4
     DEF Produce, SeasonChange, Resolve, Claim, Add, AddFails, MarkEnqueueFailed, SetQueueJobId,
         ProducerDies,
         Reset, EnqueueFailed, Publishable, RowType
<1> QED BY <1>1, <1>5

LEMMA CancelInvStep ==
  ASSUME TypeOK, "stall" \notin Faults, CancelInv, [Next]_vars
  PROVE  CancelInv'
<1>0. /\ RowType /\ QueueType /\ pc \in [Worker -> Points] /\ doomed \subseteq Worker
      /\ Mine /\ Past /\ Stuck
  BY TypeParts DEF WorkType, CancelInv
<1> USE <1>0
<1>1. Mine'
  BY MineStep
<1>2. ~SecondMessage' => ~SecondMessage
  BY UsedStays DEF SecondMessage, Used
<1>3. ASSUME NEW p \in Producer, Produce(p) PROVE Past' /\ Stuck'
  BY <1>2, <1>3, ProducersReviveNone DEF Past, Stuck, Executing, Unguarded
<1>4. ASSUME NEW o \in Controller, Control(o) PROVE Past' /\ Stuck'
  BY <1>2, <1>4, Dooming DEF Past, Stuck, Executing, Unguarded
<1>5. CASE WinnerEnds \/ UNCHANGED vars \/ \E m \in Message : Redeliver(m)
  <2>1. UNCHANGED <<row, pc, doomed>>
    BY <1>5 DEF WinnerEnds, vars, Redeliver, workVars
  <2> QED BY <1>1, <1>2, <2>1 DEF CancelInv, Past, Stuck, Unguarded, Publishable
<1>6. ASSUME NEW w \in Worker, NEW m \in Message, Deliver(w, m) PROVE Past' /\ Stuck'
  <2>1. UNCHANGED <<row, doomed>> /\ pc[w] = "idle" /\ pc' = [pc EXCEPT ![w] = "delivered"]
    BY <1>6 DEF Deliver, Moves
  <2> QED BY <1>2, <2>1 DEF Past, Stuck, Unguarded, Publishable
<1>7. ASSUME NEW w \in Worker, Crash(w) \/ Leave(w) PROVE Past' /\ Stuck'
  <2>1. UNCHANGED row /\ pc' = [pc EXCEPT ![w] = "idle"] /\ doomed' = doomed \ {w}
    BY <1>7 DEF Crash, Leave, Moves
  <2> QED BY <1>2, <2>1 DEF Past, Stuck, Unguarded, Publishable
<1>8. ASSUME NEW w \in Worker, Work(w), ~Leave(w) PROVE Past' /\ Stuck'
  <2>1. pc[w] # "idle" /\ UNCHANGED doomed /\ \A v \in Worker \ {w} : pc'[v] = pc[v]
    BY <1>8
       DEF Work, LookUp, Revive, MarkActive, PassGuards, Admit, StopAtCheckpoint, LoseToWinner,
           Refuse, LosePermit, Throw, CallFails, Stops, PassPublicationGuard, Publish, Reject,
           Complete, Write, Moves, Executing
  <2>2. w \in doomed => \/ /\ UNCHANGED row
                           /\ pc'[w] \in Points \ {"idle", "delivered", "reviving", "found"}
                        \/ pc'[w] = "leaving"
    <3>1. w \in doomed => pc[w] \notin {"delivered", "reviving", "found"}
      BY DEF Past
    <3> QED BY <1>8, <3>1
         DEF Work, LookUp, Revive, MarkActive, PassGuards, Admit, StopAtCheckpoint, LoseToWinner,
             Refuse, LosePermit, Throw, CallFails, Stops, PassPublicationGuard, Publish, Reject,
             Complete, Write, Moves, Unguarded, Points
  <2>3. w \in doomed /\ w \in Unguarded' => w \in Unguarded
    <3>1. w \in doomed => pc[w] \notin {"delivered", "reviving", "found"}
      BY DEF Past
    <3> QED BY <1>8, <3>1
         DEF Work, LookUp, Revive, MarkActive, PassGuards, Admit, StopAtCheckpoint, LoseToWinner,
             Refuse, LosePermit, Throw, CallFails, Stops, PassPublicationGuard, Publish, Reject,
             Complete, Write, Moves, Unguarded
  <2>4. Past'
    BY <2>1, <2>2 DEF Past
  <2>5. ASSUME ~SecondMessage, NEW v \in doomed \cap Unguarded PROVE v = w
    <3>1. HasMessage(v) /\ HasMessage(w)
      BY <2>1 DEF Mine, Past
    <3>2. PICK m \in Message : queue[m].at = "active" /\ queue[m].lock = v
      BY <3>1 DEF HasMessage
    <3>3. PICK n \in Message : queue[n].at = "active" /\ queue[n].lock = w
      BY <3>1 DEF HasMessage
    <3> QED BY <2>5, <3>2, <3>3 DEF SecondMessage, Used
  <2>6. Stuck'
    <3> SUFFICES ASSUME ~SecondMessage', NEW v \in doomed' \cap Unguarded' PROVE ~Publishable'
      BY DEF Stuck
    <3>1. v \in doomed \cap Unguarded
      BY <2>1, <2>3 DEF Unguarded
    <3>2. v = w /\ ~Publishable
      BY <1>2, <2>5, <3>1 DEF Stuck
    <3>3. UNCHANGED row
      BY <2>1, <2>2, <3>1, <3>2 DEF Unguarded
    <3> QED BY <3>2, <3>3 DEF Publishable
  <2> QED BY <2>4, <2>6
<1> QED BY <1>1, <1>3, <1>4, <1>5, <1>6, <1>7, <1>8 DEF CancelInv, Next

LEMMA GuardStep ==
  ASSUME TypeOK, CancelInv, [Next]_vars, NEW w \in doomed, PassesGuard(w)
  PROVE  SecondMessage
<1>0. w \in Worker /\ pc \in [Worker -> Points]
  BY TypeParts DEF WorkType
<1>1. PassPublicationGuard(w)
  <2>1. ASSUME UNCHANGED pc PROVE FALSE
    BY <2>1 DEF PassesGuard
  <2>2. ASSUME NEW p \in Producer, Produce(p) PROVE FALSE
    BY <2>1, <2>2, ProducersReviveNone
  <2>3. ASSUME NEW o \in Controller, Control(o) PROVE FALSE
    BY <2>1, <2>3, Dooming
  <2>4. ASSUME NEW v \in Worker, Crash(v) \/ \E m \in Message : Deliver(v, m) PROVE FALSE
    BY <1>0, <2>4 DEF Crash, Deliver, Moves, PassesGuard
  <2>5. ASSUME NEW v \in Worker, Work(v), ~PassPublicationGuard(v) PROVE FALSE
    BY <1>0, <2>5
       DEF Work, LookUp, Revive, MarkActive, PassGuards, Admit, StopAtCheckpoint, LoseToWinner,
           Refuse, LosePermit, Throw, CallFails, Stops, Publish, Reject, Complete, Write, Leave,
           Moves, PassesGuard
  <2>6. ASSUME NEW v \in Worker, PassPublicationGuard(v) PROVE v = w
    BY <1>0, <2>6 DEF PassPublicationGuard, Moves, PassesGuard
  <2>7. CASE WinnerEnds \/ UNCHANGED vars \/ \E m \in Message : Redeliver(m)
    BY <2>1, <2>7 DEF WinnerEnds, vars, Redeliver, workVars
  <2> QED BY <2>2, <2>3, <2>4, <2>5, <2>6, <2>7 DEF Next
<1> QED BY <1>0, <1>1 DEF PassPublicationGuard, CancelInv, Stuck, Unguarded, Publishable

LEMMA AlwaysCancelInv ==
  ASSUME "stall" \notin Faults
  PROVE  Spec => [](TypeOK /\ CancelInv)
<1>1. Init => CancelInv
  BY DEF Init, CancelInv, Mine, Past, Stuck
<1>2. TypeOK /\ CancelInv /\ [Next]_vars => CancelInv'
  BY CancelInvStep
<1> QED BY <1>1, <1>2, LifecycleTypeCorrect, PTL DEF Spec

(* The guard of the publication stops every execution whose job was        *)
(* cancelled or superseded while it ran, whatever the crashes, failing     *)
(* calls, stale rows, season changes and other operators, until a second   *)
(* message is published for the row.  An execution that was past the guard *)
(* at that time is not stopped.                                            *)
THEOREM CancelledStopAtGuard ==
  ASSUME "stall" \notin Faults
  PROVE  Spec => GuardStopsCancelled
<1>1. TypeOK /\ CancelInv /\ [Next]_vars
        => [\A w \in doomed : PassesGuard(w) => SecondMessage]_vars
  BY GuardStep
<1> QED BY <1>1, AlwaysCancelInv, PTL DEF Spec, GuardStopsCancelled
=============================================================================
