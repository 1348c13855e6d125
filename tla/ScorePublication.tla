-------------------------- MODULE ScorePublication --------------------------
(***************************************************************************)
(* How a calculated score reaches the readers of one character, season and *)
(* model: publication-flow.ts decides whether a candidate may replace what *)
(* is published, score-repository.ts stores it in ScoreSnapshot rows and   *)
(* moves the pointer CharacterPublishedScore, by which readers find it.    *)
(*                                                                         *)
(* A publisher is one refresh or one recalculation.  A step is one         *)
(* statement, the last one with the commit; what a transaction has written *)
(* is private to it, and its rows are locked, until then (PostgreSQL, READ  *)
(* COMMITTED).  Both unique indexes contain scope_key, which is NULL for a *)
(* character's score, so that they keep nothing apart: a publisher that     *)
(* finds no row inserts one, and a row is named after who inserted it.      *)
(*                                                                         *)
(* The evidence of a snapshot is the set of metrics it rests on.           *)
(***************************************************************************)
EXTENDS Integers, FiniteSets

CONSTANTS
  Publisher,      (* refreshes and recalculations of the character's score *)
  Recalculation,  (* those that publish without asking (recalculate-score.ts) *)
  Metric, DimensionOf,   (* metrics and the skill dimension each belongs to *)
  FingerprintOf,  (* the inputFingerprint of a publisher's candidate: it    *)
                  (* names the character, the season, the refresh contract  *)
                  (* and the catalog, not the evidence (refresh-bridge.ts)  *)
  Serial,         (* one publisher at a time                               *)
  None            (* no row                                                *)

Row     == [evidence : SUBSET Metric,
            status : {"PUBLISHED", "CANDIDATE", "SUPERSEDED", "REJECTED_INCOMPLETE"}]
Pointer == [to : Publisher, at : Nat]

ASSUME PublicationAssumption ==
  /\ Recalculation \subseteq Publisher /\ Serial \in BOOLEAN
  /\ None \notin Publisher /\ None \notin Row /\ None \notin Pointer

VARIABLES
  rows,      (* the ScoreSnapshot rows: evidence and status, None if absent *)
  pointers,  (* the CharacterPublishedScore rows: the row each points to,   *)
             (* and when it was written                                    *)
  clock,     (* counts the writes of pointers                              *)
  pc,        (* where a publisher is                                       *)
  cand,      (* the evidence of its candidate, and whether it is accepted   *)
  seen,      (* the row and the evidence it found published                *)
  found,     (* the row of its fingerprint                                 *)
  todo,      (* public rows it has still to supersede                      *)
  taken,     (* rows it has superseded                                     *)
  moved,     (* the pointer row it writes                                  *)
  alone,     (* history: no transaction overlapped with its own            *)
  overwritten   (* history: what readers are shown was overwritten by a    *)
                (* rejected candidate                                      *)

db    == <<rows, pointers, clock, overwritten>>
vars  == <<db, pc, cand, seen, found, todo, taken, moved, alone>>

Exists    == {r \in Publisher : rows[r] # None}
Public    == {r \in Exists : rows[r].status = "PUBLISHED"}
Usable(e) == {DimensionOf[m] : m \in e}

(* getPublishedSnapshot: the pointer written last decides, whatever the     *)
(* status of the row it points to.  It is the only one readers ask.         *)
PointersSeen == {q \in Publisher : pointers[q] # None}
Newest == {q \in PointersSeen : \A o \in PointersSeen : pointers[o].at <= pointers[q].at}
ShownRow == IF Newest = {} THEN None ELSE pointers[CHOOSE q \in Newest : TRUE].to

InTx(p)     == pc[p] \in {"scanning", "superseding", "pointing", "moving", "saving",
                          "saved"}
Ended(p)    == pc[p] \in {"published", "rejected", "barred", "failed"}
Begun(p)    == pc[p] # "start" /\ ~Ended(p)
Target(p)   == IF found[p] = None THEN p ELSE found[p]
Written(p)  == pc[p] \in {"pointing", "moving", "saved"}

(* The rows that a transaction keeps from others. *)
Locks(p)    == taken[p] \cup IF Written(p) THEN {Target(p)} ELSE {}
Free(p, r)  == \A q \in Publisher \ {p} : r \notin Locks(q)

Init ==
  /\ rows = [r \in Publisher |-> None] /\ pointers = [q \in Publisher |-> None]
  /\ clock = 0 /\ overwritten = FALSE
  /\ pc = [p \in Publisher |-> "start"]
  /\ cand = [p \in Publisher |-> [evidence |-> {}, ok |-> FALSE]]
  /\ seen = [p \in Publisher |-> [row |-> None, evidence |-> {}]]
  /\ found = [p \in Publisher |-> None]
  /\ todo = [p \in Publisher |-> {}] /\ taken = [p \in Publisher |-> {}]
  /\ moved = [p \in Publisher |-> [slot |-> None, at |-> 0]]
  /\ alone = [p \in Publisher |-> FALSE]

----------------------------------------------------------------------------
Goes(p, at) == pc' = [pc EXCEPT ![p] = at]

(* A candidate is calculated; a recalculation needs no permission. *)
Begin(p) ==
  /\ pc[p] = "start"
  /\ Serial => \A q \in Publisher : ~Begun(q)
  /\ \E e \in SUBSET Metric : cand' = [cand EXCEPT ![p] = [evidence |-> e, ok |-> TRUE]]
  /\ Goes(p, IF p \in Recalculation THEN "finding" ELSE "looking")
  /\ UNCHANGED <<db, seen, found, todo, taken, moved, alone>>

(* attemptPublication reads the pointer, then the row. *)
Look(p) ==
  /\ pc[p] = "looking"
  /\ seen' = [seen EXCEPT ![p] = [row |-> ShownRow, evidence |-> {}]]
  /\ Goes(p, "judging")
  /\ UNCHANGED <<db, cand, found, todo, taken, moved, alone>>

CoherentByCount(e, old) ==                \* mutant: as many dimensions will do
  Cardinality(Usable(old)) <= Cardinality(Usable(e))

(* validateCoherence: no dimension is lost.  The comparison of coverage     *)
(* never objects, because mapDbSnapshotToDto reports that the published      *)
(* snapshot covers nothing.                                                *)
Coherent(e, old) == Usable(old) \subseteq Usable(e)

(* A candidate may also be of another model or contract, or malformed. *)
Judge(p) ==
  /\ pc[p] = "judging"
  /\ LET old == IF seen[p].row = None THEN {} ELSE rows[seen[p].row].evidence
     IN /\ seen' = [seen EXCEPT ![p].evidence = old]
        /\ \E valid \in BOOLEAN :
             cand' = [cand EXCEPT ![p].ok = valid /\ Coherent(cand[p].evidence, old)]
  /\ Goes(p, "finding")
  /\ UNCHANGED <<db, found, todo, taken, moved, alone>>

----------------------------------------------------------------------------
(* The transaction begins with the publication guard, which may refuse (the *)
(* job was cancelled, or its contract differs), and looks for the row of the *)
(* fingerprint.                                                            *)
Bar(p) ==
  /\ pc[p] = "finding" /\ cand[p].ok /\ p \notin Recalculation
  /\ Goes(p, "barred")
  /\ UNCHANGED <<db, cand, seen, found, todo, taken, moved, alone>>

SameFingerprint(p) == {r \in Exists : FingerprintOf[r] = FingerprintOf[p]}

Find(p) ==
  /\ pc[p] = "finding"
  /\ \E r \in IF SameFingerprint(p) = {} THEN {None} ELSE SameFingerprint(p) :
       found' = [found EXCEPT ![p] = r]
  /\ alone' = [q \in Publisher |-> IF q = p THEN \A o \in Publisher : ~InTx(o)
                                   ELSE alone[q] /\ ~InTx(q)]
  /\ Goes(p, IF cand[p].ok THEN "scanning" ELSE "saving")
  /\ UNCHANGED <<db, cand, seen, todo, taken, moved>>

ScanShown(p) ==                           \* mutant: supersede what readers are shown
  /\ pc[p] = "scanning"
  /\ todo' = [todo EXCEPT ![p] = {r \in Public : r = ShownRow} \ {found[p]}]
  /\ Goes(p, "superseding")
  /\ UNCHANGED <<db, cand, seen, found, taken, moved, alone>>

(* updateMany: the statement sees the rows that are public when it starts,  *)
(* waits for each that is locked, and looks again whether it still is.      *)
Scan(p) ==
  /\ pc[p] = "scanning"
  /\ todo' = [todo EXCEPT ![p] = Public \ {found[p]}]
  /\ Goes(p, "superseding")
  /\ UNCHANGED <<db, cand, seen, found, taken, moved, alone>>

Supersede(p, r) ==
  /\ pc[p] = "superseding" /\ r \in todo[p] /\ Free(p, r)
  /\ todo' = [todo EXCEPT ![p] = @ \ {r}]
  /\ taken' = [taken EXCEPT ![p] = @ \cup ({r} \cap Public)]
  /\ UNCHANGED <<db, pc, cand, seen, found, moved, alone>>

(* The candidate is written over the row of its fingerprint, or inserted,   *)
(* with its dimension scores: published, or as a candidate.                 *)
Write(p) ==
  /\ \/ pc[p] = "superseding" /\ todo[p] = {} /\ Goes(p, "pointing")
     \/ pc[p] = "saving" /\ Goes(p, "saved")
  /\ Free(p, Target(p))
  /\ UNCHANGED <<db, cand, seen, found, todo, taken, moved, alone>>

PointUntimed(p) ==                        \* mutant: updatedAt is not set
  /\ pc[p] = "pointing"
  /\ \E s \in IF PointersSeen = {} THEN {p} ELSE PointersSeen :
       moved' = [moved EXCEPT ![p] = [slot |-> s, at |-> 0]]
  /\ Goes(p, "moving")
  /\ UNCHANGED <<db, cand, seen, found, todo, taken, alone>>

(* upsertPublishedPointer: any pointer that is there, else a new one.  The  *)
(* time of the write is taken before it waits for a lock on the pointer.    *)
Point(p) ==
  /\ pc[p] = "pointing"
  /\ clock' = clock + 1
  /\ \E s \in IF PointersSeen = {} THEN {p} ELSE PointersSeen :
       moved' = [moved EXCEPT ![p] = [slot |-> s, at |-> clock + 1]]
  /\ Goes(p, "moving")
  /\ UNCHANGED <<rows, pointers, overwritten, cand, seen, found, todo, taken, alone>>

Stored(p, status) ==
  rows' = [r \in Publisher |->
             IF r = Target(p) THEN [evidence |-> cand[p].evidence, status |-> status]
             ELSE IF r \in taken[p] THEN [rows[r] EXCEPT !.status = "SUPERSEDED"]
             ELSE rows[r]]
Released(p) == taken' = [taken EXCEPT ![p] = {}] /\ todo' = [todo EXCEPT ![p] = {}]

CommitPointsOnce(p) ==                    \* mutant: a pointer that exists is kept
  /\ pc[p] = "moving"
  /\ Stored(p, "PUBLISHED") /\ Released(p)
  /\ pointers' = [pointers EXCEPT ![moved[p].slot] =
                    IF @ = None THEN [to |-> Target(p), at |-> moved[p].at] ELSE @]
  /\ overwritten' = (overwritten /\ ShownRow' # Target(p))
  /\ Goes(p, "published")
  /\ UNCHANGED <<clock, cand, seen, found, moved, alone>>

Commit(p) ==
  /\ pc[p] = "moving"
  /\ Stored(p, "PUBLISHED") /\ Released(p)
  /\ pointers' = [pointers EXCEPT ![moved[p].slot] = [to |-> Target(p), at |-> moved[p].at]]
  /\ overwritten' = (overwritten /\ ShownRow' # Target(p))
  /\ Goes(p, "published")
  /\ UNCHANGED <<clock, cand, seen, found, moved, alone>>

(* publishOrRejectCandidate with a candidate that is not coherent: it is    *)
(* saved like any candidate, and a second call marks it rejected.           *)
CommitCandidate(p) ==
  /\ pc[p] = "saved"
  /\ Stored(p, "CANDIDATE") /\ Released(p)
  /\ overwritten' = (overwritten \/ ShownRow = Target(p))
  /\ Goes(p, "marking")
  /\ UNCHANGED <<pointers, clock, cand, seen, found, moved, alone>>

MarkRejected(p) ==
  /\ pc[p] = "marking" /\ Free(p, Target(p))
  /\ rows' = [rows EXCEPT ![Target(p)].status = "REJECTED_INCOMPLETE"]
  /\ overwritten' = (overwritten \/ ShownRow = Target(p))
  /\ Goes(p, "rejected")
  /\ UNCHANGED <<pointers, clock, cand, seen, found, todo, taken, moved, alone>>

(* A call fails, the worker dies, or the database ends a transaction that   *)
(* waits for another one that waits for it: what it wrote is undone.        *)
Fail(p) ==
  /\ Begun(p)
  /\ Released(p)
  /\ Goes(p, "failed")
  /\ UNCHANGED <<db, cand, seen, found, moved, alone>>

Step(p) == \/ Begin(p) \/ Look(p) \/ Judge(p) \/ Bar(p) \/ Find(p) \/ Scan(p)
           \/ (\E r \in Publisher : Supersede(p, r)) \/ Write(p) \/ Point(p)
           \/ Commit(p) \/ CommitCandidate(p) \/ MarkRejected(p) \/ Fail(p)

Next == \E p \in Publisher : Step(p)

Spec == Init /\ [][Next]_vars

----------------------------------------------------------------------------
TypeOK ==
  /\ rows \in [Publisher -> Row \cup {None}]
  /\ pointers \in [Publisher -> Pointer \cup {None}]
  /\ \A q \in PointersSeen : pointers[q].at \in 1..clock
  /\ clock \in Nat /\ overwritten \in BOOLEAN
  /\ pc \in [Publisher -> {"start", "looking", "judging", "finding", "scanning",
                           "superseding", "pointing", "moving", "saving", "saved",
                           "marking", "published", "rejected", "barred", "failed"}]
  /\ cand \in [Publisher -> [evidence : SUBSET Metric, ok : BOOLEAN]]
  /\ seen \in [Publisher -> [row : Publisher \cup {None}, evidence : SUBSET Metric]]
  /\ found \in [Publisher -> Publisher \cup {None}]
  /\ todo \in [Publisher -> SUBSET Publisher] /\ taken \in [Publisher -> SUBSET Publisher]
  /\ moved \in [Publisher -> [slot : Publisher \cup {None}, at : Nat]]
  /\ alone \in [Publisher -> BOOLEAN]

ShownEvidence == IF ShownRow = None THEN {} ELSE rows[ShownRow].evidence

(* Readers are shown a published snapshot, never one that another            *)
(* publication has superseded, in whatever order transactions overlap,      *)
(* unless the first publications raced and left two pointer rows.  A         *)
(* rejected candidate that overwrites the shown row is the other exception.  *)
OnePointer    == \A q, o \in PointersSeen : q = o
ShownIsPublic == ShownRow # None /\ OnePointer /\ ~overwritten => ShownRow \in Public

(* A refresh takes no dimension from the readers, provided they are still   *)
(* shown what it compared its candidate with.                               *)
RefreshKeepsDimensions ==
  [][\A p \in Publisher \ Recalculation :
       /\ pc'[p] = "published" /\ pc[p] # "published" /\ ShownRow' = Target(p)
       /\ seen[p] = [row |-> ShownRow, evidence |-> ShownEvidence]
       => Usable(ShownEvidence) \subseteq Usable(ShownEvidence')]_vars

(* Two overlapping publications can leave two public snapshots.  The next   *)
(* one that is undisturbed leaves exactly its own, and readers are shown it. *)
PublicationHeals ==
  [][\A p \in Publisher :
       pc'[p] = "published" /\ pc[p] # "published" /\ alone[p]
       => Public' = {Target(p)} /\ ShownRow' = Target(p)]_vars

(* A candidate that is rejected is never shown to a reader. *)
RejectedStaysHidden ==
  ShownRow # None => rows[ShownRow].status \notin {"CANDIDATE", "REJECTED_INCOMPLETE"}

(* Readers are never shown a snapshot that has been superseded. *)
NeverSuperseded == ShownRow # None => rows[ShownRow].status # "SUPERSEDED"

(* Readers never lose evidence, or a dimension, to refreshes.  What they     *)
(* lose to a rejected candidate does not count here.                        *)
RefreshOnly    == Recalculation = {} /\ ~overwritten'
CoverageKept   == [][RefreshOnly => ShownEvidence \subseteq ShownEvidence']_vars
DimensionsKept == [][RefreshOnly => Usable(ShownEvidence) \subseteq Usable(ShownEvidence')]_vars
=============================================================================
