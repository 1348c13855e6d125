----------------------- MODULE ScorePublicationProofs -----------------------
(***************************************************************************)
(* Theorems about ScorePublication, for any number of refreshes and         *)
(* recalculations that overlap in any way.                                 *)
(***************************************************************************)
EXTENDS ScorePublication, TLAPS

(* What a publisher holds on to exists: rows are never deleted.  Only one    *)
(* that publishes has taken rows.                                           *)
Refs(p) ==
  /\ pointers[p] # None => pointers[p].to \in Exists
  /\ seen[p].row # None => seen[p].row \in Exists
  /\ found[p] # None => found[p] \in Exists
  /\ taken[p] \subseteq Exists
  /\ pc[p] \notin {"superseding", "pointing", "moving"} => taken[p] = {}
  /\ pc[p] = "marking" => Target(p) \in Exists
  /\ pc[p] = "moving" => moved[p].at \in 1..clock /\ moved[p].slot \in Publisher

RefsInv == TypeOK /\ \A p \in Publisher : Refs(p)

LEMMA ShownExists ==
  ASSUME RefsInv
  PROVE  ShownRow \in Exists \cup {None}
BY DEF RefsInv, TypeOK, Refs, ShownRow, Newest, PointersSeen, Exists

(* Rows only come and change. *)
LEMMA RowsStay ==
  ASSUME RefsInv, NEW p \in Publisher, Step(p)
  PROVE  rows' \in [Publisher -> Row \cup {None}] /\ Exists \subseteq Exists'
<1> USE PublicationAssumption
<1>1. CASE Commit(p) \/ CommitCandidate(p)
  <2>1. PICK s \in {"PUBLISHED", "CANDIDATE"} : Stored(p, s)
    BY <1>1 DEF Commit, CommitCandidate
  <2>2. [evidence |-> cand[p].evidence, status |-> s] \in Row
    BY DEF RefsInv, TypeOK, Row
  <2>3. \A r \in taken[p] : r \in Publisher /\ [rows[r] EXCEPT !.status = "SUPERSEDED"] \in Row
    <3>1. \A r \in taken[p] : r \in Publisher /\ rows[r] \in Row
      <4>1. taken[p] \subseteq Exists
        BY DEF RefsInv, Refs
      <4>2. QED
        BY <4>1 DEF Exists, RefsInv, TypeOK
    <3>2. QED
      BY <3>1 DEF Row
  <2>4. QED
    BY <2>1, <2>2, <2>3 DEF Stored, RefsInv, TypeOK, Exists
<1>2. CASE MarkRejected(p)
  <2>1. Target(p) \in Publisher /\ rows[Target(p)] \in Row
    <3>1. Target(p) \in Exists
      BY <1>2 DEF MarkRejected, RefsInv, Refs
    <3>2. QED
      BY <3>1 DEF Exists, RefsInv, TypeOK
  <2>2. [rows[Target(p)] EXCEPT !.status = "REJECTED_INCOMPLETE"] \in Row
    BY <2>1 DEF Row
  <2>3. QED
    BY <1>2, <2>1, <2>2 DEF MarkRejected, RefsInv, TypeOK, Exists
<1>3. CASE UNCHANGED rows
  BY <1>3 DEF RefsInv, TypeOK, Exists
<1>4. QED
  BY <1>1, <1>2, <1>3 DEF Step, Begin, Look, Judge, Bar, Find, Scan, Supersede, Write, Point,
     Fail, db

Cands == [evidence : SUBSET Metric, ok : BOOLEAN]
Seens == [row : Publisher \cup {None}, evidence : SUBSET Metric]

LEMMA TypeStep ==
  ASSUME RefsInv, NEW p \in Publisher, Step(p)
  PROVE  TypeOK'
<1> USE PublicationAssumption
<1>0. TypeOK /\ Refs(p) /\ rows' \in [Publisher -> Row \cup {None}]
  BY RowsStay DEF RefsInv
<1>1. CASE Begin(p)
  <2>1. PICK e \in SUBSET Metric : cand' = [cand EXCEPT ![p] = [evidence |-> e, ok |-> TRUE]]
    BY <1>1 DEF Begin
  <2>2. cand' \in [Publisher -> Cands]
    BY <1>0, <2>1 DEF TypeOK, Cands
  <2>3. QED
    BY <1>0, <1>1, <2>2 DEF Begin, TypeOK, Goes, db, PointersSeen, Cands
<1>2. CASE Look(p)
  <2>1. ShownRow \in Publisher \cup {None}
    BY ShownExists DEF Exists
  <2>2. seen' \in [Publisher -> Seens]
    BY <1>0, <1>2, <2>1 DEF Look, TypeOK, Seens
  <2>3. QED
    BY <1>0, <1>2, <2>2 DEF Look, TypeOK, Goes, db, PointersSeen, Seens
<1>3. CASE Judge(p)
  <2> DEFINE old == IF seen[p].row = None THEN {} ELSE rows[seen[p].row].evidence
  <2>1. old \in SUBSET Metric
    <3>1. CASE seen[p].row = None
      BY <3>1
    <3>2. CASE seen[p].row # None
      <4>1. rows[seen[p].row] \in Row
        BY <1>0, <3>2 DEF TypeOK, Refs, Exists
      <4>2. QED
        BY <3>2, <4>1 DEF Row
    <3>3. QED
      BY <3>1, <3>2
  <2> HIDE DEF old
  <2>2. seen' = [seen EXCEPT ![p].evidence = old]
    BY <1>3 DEF Judge, old
  <2>3. PICK ok \in BOOLEAN : cand' = [cand EXCEPT ![p].ok = ok]
    <3>1. PICK valid \in BOOLEAN :
            cand' = [cand EXCEPT ![p].ok = valid /\ Coherent(cand[p].evidence, old)]
      BY <1>3 DEF Judge, old
    <3>2. (valid /\ Coherent(cand[p].evidence, old)) \in BOOLEAN
      OBVIOUS
    <3>3. QED
      BY <3>1, <3>2
  <2>4. seen' \in [Publisher -> Seens]
    <3>1. seen \in [Publisher -> Seens]
      BY <1>0 DEF TypeOK, Seens
    <3>2. [seen[p] EXCEPT !.evidence = old] \in Seens
      BY <2>1, <3>1 DEF Seens
    <3>3. QED
      BY <2>2, <3>1, <3>2
  <2>5. cand' \in [Publisher -> Cands]
    <3>1. cand \in [Publisher -> Cands]
      BY <1>0 DEF TypeOK, Cands
    <3>2. [cand[p] EXCEPT !.ok = ok] \in Cands
      BY <3>1 DEF Cands
    <3>3. QED
      BY <2>3, <3>1, <3>2
  <2>6. UNCHANGED <<db, found, todo, taken, moved, alone>> /\ Goes(p, "finding")
    BY <1>3 DEF Judge
  <2>7. QED
    BY <1>0, <2>4, <2>5, <2>6 DEF TypeOK, Goes, db, PointersSeen, Cands, Seens
<1>4. CASE Bar(p)
  BY <1>0, <1>4 DEF Bar, TypeOK, Goes, db, PointersSeen
<1>5. CASE Find(p)
  <2>1. PICK r \in Publisher \cup {None} : found' = [found EXCEPT ![p] = r]
    BY <1>5 DEF Find, SameFingerprint, Exists
  <2>2. found' \in [Publisher -> Publisher \cup {None}]
    BY <1>0, <2>1 DEF TypeOK
  <2>3. alone' \in [Publisher -> BOOLEAN]
    <3>1. \A q \in Publisher :
            (IF q = p THEN \A o \in Publisher : ~InTx(o) ELSE alone[q] /\ ~InTx(q)) \in BOOLEAN
      OBVIOUS
    <3>2. QED
      BY <1>5, <3>1 DEF Find
  <2>4. PICK at \in {"scanning", "saving"} : pc' = [pc EXCEPT ![p] = at]
    BY <1>5 DEF Find, Goes
  <2>5. UNCHANGED <<rows, pointers, clock, overwritten, cand, seen, todo, taken, moved>>
    BY <1>5 DEF Find, db
  <2>6. PointersSeen' = PointersSeen
    BY <2>5 DEF PointersSeen
  <2>7. QED
    BY <1>0, <2>2, <2>3, <2>4, <2>5, <2>6 DEF TypeOK
<1>6. CASE Scan(p)
  BY <1>0, <1>6 DEF Scan, TypeOK, Goes, db, PointersSeen, Public, Exists
<1>7. ASSUME NEW r \in Publisher, Supersede(p, r) PROVE TypeOK'
  BY <1>0, <1>7 DEF Supersede, TypeOK, db, PointersSeen, Public, Exists
<1>8. CASE Write(p) \/ Fail(p)
  <2>1. CASE Write(p)
    <3>1. PICK at \in {"pointing", "saved"} : pc' = [pc EXCEPT ![p] = at]
      BY <2>1 DEF Write, Goes
    <3>2. QED
      BY <1>0, <2>1, <3>1 DEF Write, TypeOK, db, PointersSeen
  <2>2. CASE Fail(p)
    BY <1>0, <2>2 DEF Fail, Released, TypeOK, Goes, db, PointersSeen
  <2>3. QED
    BY <1>8, <2>1, <2>2
<1>9. CASE Point(p)
  BY <1>0, <1>9 DEF Point, TypeOK, Goes, PointersSeen
<1>10. CASE Commit(p)
  <2>1. [to |-> Target(p), at |-> moved[p].at] \in Pointer /\ moved[p].at \in 1..clock
    BY <1>0, <1>10 DEF Commit, TypeOK, Refs, Target, Pointer
  <2>2. pointers' \in [Publisher -> Pointer \cup {None}]
    BY <1>0, <1>10, <2>1 DEF Commit, TypeOK
  <2>3. \A q \in PointersSeen' : pointers'[q].at \in 1..clock'
    BY <1>0, <1>10, <2>1 DEF Commit, TypeOK, PointersSeen
  <2>4. overwritten' \in BOOLEAN
    BY <1>10 DEF Commit
  <2>5. QED
    BY <1>0, <1>10, <2>2, <2>3, <2>4 DEF Commit, Released, TypeOK, Goes
<1>11. CASE CommitCandidate(p) \/ MarkRejected(p)
  <2>1. overwritten' \in BOOLEAN
    BY <1>11 DEF CommitCandidate, MarkRejected
  <2>2. /\ UNCHANGED <<pointers, clock, cand, seen, found, moved, alone>>
        /\ pc' = [pc EXCEPT ![p] = "marking"] \/ pc' = [pc EXCEPT ![p] = "rejected"]
        /\ Released(p) \/ UNCHANGED <<todo, taken>>
    BY <1>11 DEF CommitCandidate, MarkRejected, Goes
  <2>3. todo' \in [Publisher -> SUBSET Publisher] /\ taken' \in [Publisher -> SUBSET Publisher]
    BY <1>0, <2>2 DEF Released, TypeOK
  <2>4. QED
    BY <1>0, <2>1, <2>2, <2>3 DEF TypeOK, PointersSeen
<1>12. QED
  BY <1>1, <1>2, <1>3, <1>4, <1>5, <1>6, <1>7, <1>8, <1>9, <1>10, <1>11 DEF Step

LEMMA RefsStep ==
  ASSUME RefsInv, NEW p \in Publisher, Step(p), NEW q \in Publisher
  PROVE  Refs(q)'
<1> USE PublicationAssumption
<1> USE DEF RefsInv
<1>0. Refs(q) /\ Exists \subseteq Exists'
  BY RowsStay
<1>1. CASE Begin(p) \/ Look(p) \/ Bar(p) \/ Judge(p)
  BY <1>0, <1>1, ShownExists DEF Begin, Look, Bar, Judge, TypeOK, Goes, db, Refs, Target
<1>2. CASE Find(p)
  BY <1>0, <1>2 DEF Find, TypeOK, Goes, db, Refs, Target, SameFingerprint
<1>3. CASE Scan(p) \/ (\E r \in Publisher : Supersede(p, r)) \/ Write(p) \/ Fail(p)
  <2>1. CASE Scan(p)
    BY <1>0, <2>1 DEF Scan, TypeOK, Goes, db, Refs, Target
  <2>2. ASSUME NEW r \in Publisher, Supersede(p, r) PROVE Refs(q)'
    BY <1>0, <2>2 DEF Supersede, TypeOK, db, Refs, Target, Public
  <2>3. CASE Write(p)
    BY <1>0, <2>3 DEF Write, TypeOK, Goes, db, Refs, Target
  <2>4. CASE Fail(p)
    BY <1>0, <2>4 DEF Fail, Released, TypeOK, Goes, db, Refs, Target
  <2>5. QED
    BY <1>3, <2>1, <2>2, <2>3, <2>4
<1>4. CASE Point(p)
  BY <1>0, <1>4 DEF Point, TypeOK, Goes, Refs, Target, PointersSeen
<1>5. CASE Commit(p)
  <2>1. Target(p) \in Exists'
    BY <1>5 DEF Commit, Stored, Exists, Target, TypeOK, Row
  <2>2. QED
    BY <1>0, <1>5, <2>1 DEF Commit, Released, TypeOK, Goes, Refs, Target, Pointer
<1>6. CASE CommitCandidate(p)
  <2>1. Target(p) \in Exists'
    BY <1>6 DEF CommitCandidate, Stored, Exists, Target, TypeOK, Row
  <2>2. QED
    BY <1>0, <1>6, <2>1 DEF CommitCandidate, Released, TypeOK, Goes, Refs, Target
<1>7. CASE MarkRejected(p)
  BY <1>0, <1>7 DEF MarkRejected, TypeOK, Goes, Refs, Target
<1>8. QED
  BY <1>1, <1>2, <1>3, <1>4, <1>5, <1>6, <1>7 DEF Step

LEMMA RefsInvariant == Spec => []RefsInv
<1>1. Init => RefsInv
  <2> SUFFICES ASSUME Init PROVE RefsInv
    OBVIOUS
  <2> USE PublicationAssumption DEF Init
  <2>1. cand \in [Publisher -> Cands] /\ seen \in [Publisher -> Seens]
    BY DEF Cands, Seens
  <2>2. PointersSeen = {}
    BY DEF PointersSeen
  <2>3. TypeOK
    BY <2>1, <2>2 DEF TypeOK, Cands, Seens
  <2>4. \A p \in Publisher : Refs(p)
    BY DEF Refs
  <2>5. QED
    BY <2>3, <2>4 DEF RefsInv
<1>2. RefsInv /\ [Next]_vars => RefsInv'
  <2> SUFFICES ASSUME RefsInv, [Next]_vars PROVE RefsInv'
    OBVIOUS
  <2>1. CASE UNCHANGED vars
    <3>1. TypeOK' /\ Exists' = Exists
      BY <2>1 DEF vars, db, RefsInv, TypeOK, Exists, PointersSeen
    <3>2. ASSUME NEW p \in Publisher PROVE Refs(p)'
      BY <2>1, <3>1 DEF vars, db, RefsInv, Refs, Target
    <3>3. QED
      BY <3>1, <3>2 DEF RefsInv
  <2>2. ASSUME NEW p \in Publisher, Step(p) PROVE RefsInv'
    BY <2>2, TypeStep, RefsStep DEF RefsInv
  <2>3. QED
    BY <2>1, <2>2 DEF Next
<1>3. QED
  BY <1>1, <1>2, PTL DEF Spec

(* Rows, pointers and transactions keep their types. *)
THEOREM PublicationTypeCorrect == Spec => []TypeOK
<1>1. RefsInv => TypeOK
  BY DEF RefsInv
<1>2. QED
  BY <1>1, RefsInvariant, PTL

----------------------------------------------------------------------------
(* One publisher at a time moves. *)
LEMMA Moves ==
  ASSUME RefsInv, NEW p \in Publisher, Step(p), NEW q \in Publisher, q # p
  PROVE  /\ pc'[q] = pc[q] /\ cand'[q] = cand[q] /\ seen'[q] = seen[q]
         /\ found'[q] = found[q] /\ todo'[q] = todo[q] /\ taken'[q] = taken[q]
         /\ moved'[q] = moved[q]
<1> USE DEF RefsInv, TypeOK, Goes, Released
<1>1. CASE Begin(p) \/ Look(p) \/ Judge(p) \/ Bar(p) \/ Find(p)
  <2>1. CASE Begin(p) \/ Look(p) \/ Bar(p)
    BY <2>1 DEF Begin, Look, Bar
  <2>2. CASE Judge(p)
    BY <2>2 DEF Judge
  <2>3. CASE Find(p)
    BY <2>3 DEF Find
  <2>4. QED
    BY <1>1, <2>1, <2>2, <2>3
<1>2. CASE Scan(p) \/ (\E r \in Publisher : Supersede(p, r)) \/ Write(p) \/ Point(p)
  BY <1>2 DEF Scan, Supersede, Write, Point
<1>3. CASE Commit(p) \/ CommitCandidate(p) \/ MarkRejected(p) \/ Fail(p)
  BY <1>3 DEF Commit, CommitCandidate, MarkRejected, Fail
<1>4. QED
  BY <1>1, <1>2, <1>3 DEF Step

(* A publication is the step Commit. *)
LEMMA Publishes ==
  ASSUME RefsInv, NEW p \in Publisher, Step(p), NEW q \in Publisher,
         pc'[q] = "published", pc[q] # "published"
  PROVE  q = p /\ Commit(p)
<1>1. q = p
  BY Moves
<1>2. QED
  BY <1>1 DEF RefsInv, TypeOK, Step, Begin, Look, Judge, Bar, Find, Scan, Supersede, Write,
     Point, CommitCandidate, MarkRejected, Fail, Goes

(* Only commits and the mark of a rejection change what is stored. *)
LEMMA WhoStores ==
  ASSUME NEW p \in Publisher, Step(p)
  PROVE  \/ Commit(p) \/ CommitCandidate(p) \/ MarkRejected(p)
         \/ UNCHANGED <<rows, pointers, overwritten>>
BY DEF Step, Begin, Look, Judge, Bar, Find, Scan, Supersede, Write, Point, Fail, db

LEMMA ShownStep ==
  ASSUME RefsInv, RefsInv', ShownIsPublic, NEW p \in Publisher, Step(p)
  PROVE  ShownIsPublic'
<1> USE PublicationAssumption
<1>1. CASE Commit(p)
  <2> SUFFICES ASSUME OnePointer' PROVE (ShownRow \in Public)'
    BY DEF ShownIsPublic
  <2>1. /\ Target(p) \in Publisher /\ moved[p].slot \in Publisher
        /\ [to |-> Target(p), at |-> moved[p].at] \in Pointer
    BY <1>1 DEF Commit, RefsInv, TypeOK, Refs, Target, Pointer
  <2>2. Target(p) \in Public'
    BY <1>1, <2>1 DEF Commit, Stored, Public, Exists, Row, RefsInv, TypeOK
  <2>3. pointers'[moved[p].slot] = [to |-> Target(p), at |-> moved[p].at]
    BY <1>1, <2>1 DEF Commit, RefsInv, TypeOK
  <2>4. PointersSeen' = {moved[p].slot}
    BY <2>1, <2>3 DEF OnePointer, PointersSeen
  <2>5. Newest' = {moved[p].slot}
    BY <2>1, <2>3, <2>4 DEF Newest, Pointer
  <2>6. ShownRow' = Target(p)
    BY <2>3, <2>5 DEF ShownRow
  <2>7. QED
    BY <2>2, <2>6
<1>2. CASE CommitCandidate(p)
  <2> SUFFICES ASSUME ShownRow' # None, OnePointer', ~overwritten'
               PROVE  (ShownRow \in Public)'
    BY DEF ShownIsPublic
  <2>1. ShownRow' = ShownRow /\ OnePointer /\ ~overwritten /\ ShownRow # Target(p)
    <3>1. pointers' = pointers /\ overwritten' = (overwritten \/ ShownRow = Target(p))
      BY <1>2 DEF CommitCandidate
    <3>2. ShownRow' = ShownRow /\ OnePointer
      BY <3>1 DEF ShownRow, Newest, PointersSeen, OnePointer
    <3>3. QED
      BY <3>1, <3>2
  <2>2. taken[p] = {}
    BY <1>2 DEF CommitCandidate, RefsInv, Refs
  <2>3. ShownRow \in Public
    BY <2>1 DEF ShownIsPublic
  <2>4. QED
    BY <1>2, <2>1, <2>2, <2>3 DEF CommitCandidate, Stored, Public, Exists
<1>3. CASE MarkRejected(p)
  <2> SUFFICES ASSUME ShownRow' # None, OnePointer', ~overwritten'
               PROVE  (ShownRow \in Public)'
    BY DEF ShownIsPublic
  <2>1. ShownRow' = ShownRow /\ OnePointer /\ ~overwritten /\ ShownRow # Target(p)
    <3>1. pointers' = pointers /\ overwritten' = (overwritten \/ ShownRow = Target(p))
      BY <1>3 DEF MarkRejected
    <3>2. ShownRow' = ShownRow /\ OnePointer
      BY <3>1 DEF ShownRow, Newest, PointersSeen, OnePointer
    <3>3. QED
      BY <3>1, <3>2
  <2>2. ShownRow \in Public
    BY <2>1 DEF ShownIsPublic
  <2>3. QED
    BY <1>3, <2>1, <2>2 DEF MarkRejected, Public, Exists, RefsInv, TypeOK
<1>4. CASE UNCHANGED <<rows, pointers, overwritten>>
  BY <1>4 DEF ShownIsPublic, ShownRow, Newest, PointersSeen, OnePointer, Public, Exists
<1>5. QED
  BY <1>1, <1>2, <1>3, <1>4, WhoStores

(* Readers are shown a published snapshot: with one pointer row, whoever      *)
(* commits last is what it points to, and only a rejected candidate changes   *)
(* that row's status.                                                       *)
THEOREM ReadersSeePublished == Spec => []ShownIsPublic
<1>1. Init => ShownIsPublic
  BY DEF Init, ShownIsPublic, ShownRow, Newest, PointersSeen
<1>2. RefsInv /\ RefsInv' /\ ShownIsPublic /\ [Next]_vars => ShownIsPublic'
  <2> SUFFICES ASSUME RefsInv, RefsInv', ShownIsPublic, [Next]_vars PROVE ShownIsPublic'
    OBVIOUS
  <2>1. CASE UNCHANGED vars
    BY <2>1 DEF vars, db, ShownIsPublic, ShownRow, Newest, PointersSeen, OnePointer, Public,
       Exists
  <2>2. QED
    BY <2>1, ShownStep DEF Next
<1>3. QED
  BY <1>1, <1>2, RefsInvariant, PTL DEF Spec

----------------------------------------------------------------------------
(* A refresh that is about to publish has been compared with what it saw. *)
Compared(p) ==
  /\ p \notin Recalculation
  /\ \/ pc[p] \in {"scanning", "superseding", "pointing", "moving"}
     \/ pc[p] = "finding" /\ cand[p].ok
  => Coherent(cand[p].evidence, seen[p].evidence)

ComparedInv == \A p \in Publisher : Compared(p)

LEMMA ComparedStep ==
  ASSUME RefsInv, ComparedInv, NEW p \in Publisher, Step(p), NEW q \in Publisher
  PROVE  Compared(q)'
<1> USE PublicationAssumption
<1>1. CASE q # p
  BY <1>1, Moves DEF ComparedInv, Compared
<1>2. CASE q = p
  <2>1. CASE Judge(p)
    <3> DEFINE old == IF seen[p].row = None THEN {} ELSE rows[seen[p].row].evidence
    <3>1. PICK valid \in BOOLEAN :
            cand' = [cand EXCEPT ![p].ok = valid /\ Coherent(cand[p].evidence, old)]
      BY <2>1 DEF Judge
    <3>2. seen'[p].evidence = old
      BY <2>1 DEF Judge, RefsInv, TypeOK
    <3> HIDE DEF old
    <3> DEFINE fine == Coherent(cand[p].evidence, old)
    <3>3. /\ cand'[p].evidence = cand[p].evidence
          /\ cand'[p].ok => fine
      <4>1. cand' = [cand EXCEPT ![p].ok = valid /\ fine]
        BY <3>1
      <4> HIDE DEF fine
      <4>2. cand'[p] = [cand[p] EXCEPT !.ok = valid /\ fine]
        BY <4>1 DEF RefsInv, TypeOK
      <4>3. cand[p] \in Cands
        BY DEF RefsInv, TypeOK, Cands
      <4>4. cand'[p].evidence = cand[p].evidence /\ cand'[p].ok = (valid /\ fine)
        BY <4>2, <4>3 DEF Cands
      <4>5. QED
        BY <4>4
    <3>4. pc'[p] = "finding"
      BY <2>1 DEF Judge, Goes, RefsInv, TypeOK
    <3>5. QED
      BY <1>2, <3>2, <3>3, <3>4 DEF Compared
  <2>2. CASE ~Judge(p)
    <3>1. CASE Find(p)
      BY <1>2, <3>1 DEF Find, Goes, RefsInv, TypeOK, ComparedInv, Compared
    <3>2. CASE Begin(p) \/ Look(p) \/ Bar(p) \/ Commit(p) \/ CommitCandidate(p)
               \/ MarkRejected(p) \/ Fail(p)
      BY <1>2, <3>2 DEF Begin, Look, Bar, Commit, CommitCandidate, MarkRejected, Fail, Goes,
         RefsInv, TypeOK, Compared
    <3>3. CASE Scan(p) \/ (\E r \in Publisher : Supersede(p, r)) \/ Write(p) \/ Point(p)
      BY <1>2, <3>3 DEF Scan, Supersede, Write, Point, Goes, RefsInv, TypeOK, ComparedInv,
         Compared
    <3>4. QED
      BY <2>2, <3>1, <3>2, <3>3 DEF Step
  <2>3. QED
    BY <2>1, <2>2
<1>3. QED
  BY <1>1, <1>2

(* The row that a commit stores is the candidate. *)
LEMMA CommitStores ==
  ASSUME RefsInv, NEW p \in Publisher, Commit(p)
  PROVE  /\ Target(p) \in Publisher
         /\ rows'[Target(p)] = [evidence |-> cand[p].evidence, status |-> "PUBLISHED"]
         /\ rows'[Target(p)] # None
<1>1. /\ Target(p) \in Publisher
      /\ rows'[Target(p)] = [evidence |-> cand[p].evidence, status |-> "PUBLISHED"]
  BY DEF RefsInv, TypeOK, Commit, Stored, Target
<1>2. [evidence |-> cand[p].evidence, status |-> "PUBLISHED"] \in Row
  BY DEF RefsInv, TypeOK, Row
<1>3. QED
  BY <1>1, <1>2, PublicationAssumption

(* No refresh takes a dimension from readers who are still shown what it was   *)
(* compared with, whatever other publications do meanwhile.                   *)
THEOREM RefreshesKeepDimensions == Spec => RefreshKeepsDimensions
<1>1. Init => ComparedInv
  BY DEF Init, ComparedInv, Compared
<1>2. RefsInv /\ ComparedInv /\ [Next]_vars => ComparedInv'
  <2> SUFFICES ASSUME RefsInv, ComparedInv, [Next]_vars PROVE ComparedInv'
    OBVIOUS
  <2>1. CASE UNCHANGED vars
    BY <2>1 DEF vars, db, ComparedInv, Compared, Coherent, Usable
  <2>2. QED
    BY <2>1, ComparedStep DEF Next, ComparedInv
<1>3. RefsInv /\ ComparedInv /\ [Next]_vars =>
        [\A p \in Publisher \ Recalculation :
           /\ pc'[p] = "published" /\ pc[p] # "published" /\ ShownRow' = Target(p)
           /\ seen[p] = [row |-> ShownRow, evidence |-> ShownEvidence]
           => Usable(ShownEvidence) \subseteq Usable(ShownEvidence')]_vars
  <2> SUFFICES ASSUME RefsInv, ComparedInv, NEW s \in Publisher, Step(s),
                      NEW p \in Publisher \ Recalculation,
                      pc'[p] = "published", pc[p] # "published", ShownRow' = Target(p),
                      seen[p] = [row |-> ShownRow, evidence |-> ShownEvidence]
               PROVE  Usable(ShownEvidence) \subseteq Usable(ShownEvidence')
    BY DEF Next
  <2>1. p = s /\ Commit(p)
    BY Publishes
  <2>2. Coherent(cand[p].evidence, seen[p].evidence)
    BY <2>1 DEF Commit, ComparedInv, Compared
  <2>3. ShownEvidence' = cand[p].evidence
    <3>0. /\ Target(p) \in Publisher
          /\ rows'[Target(p)] = [evidence |-> cand[p].evidence, status |-> "PUBLISHED"]
      BY <2>1, CommitStores
    <3>1. ShownRow' \in Publisher /\ rows'[ShownRow'].evidence = cand[p].evidence
      BY <3>0
    <3>2. ShownRow' # None
      BY <3>1, PublicationAssumption
    <3>3. QED
      BY <3>1, <3>2 DEF ShownEvidence
  <2>4. QED
    BY <2>2, <2>3 DEF Coherent
<1>4. QED
  BY <1>1, <1>2, <1>3, RefsInvariant, PTL DEF Spec, RefreshKeepsDimensions

----------------------------------------------------------------------------
(* While no other transaction runs, what is public is on the list of a         *)
(* publication, or taken, or its own; and its pointer is the newest.         *)
Undisturbed(p) ==
  alone[p] /\ InTx(p) =>
    /\ \A q \in Publisher \ {p} : ~InTx(q)
    /\ pc[p] = "superseding" => Public \subseteq todo[p] \cup taken[p] \cup {found[p]}
    /\ pc[p] \in {"pointing", "moving"} => Public \subseteq taken[p] \cup {found[p]}
    /\ pc[p] = "moving" => \A q \in PointersSeen : pointers[q].at < moved[p].at

HealInv == \A p \in Publisher : Undisturbed(p)

(* Only a commit makes a row public, and only a commit writes pointers. *)
LEMMA NothingPublished ==
  ASSUME RefsInv, NEW p \in Publisher, Step(p), ~Commit(p)
  PROVE  Public' \subseteq Public /\ pointers' = pointers
<1> USE PublicationAssumption
<1>1. CASE CommitCandidate(p)
  <2>1. pointers' = pointers /\ taken[p] = {} /\ Stored(p, "CANDIDATE")
    BY <1>1 DEF CommitCandidate, RefsInv, Refs
  <2>2. QED
    BY <2>1 DEF Stored, Public, Exists
<1>2. CASE MarkRejected(p)
  BY <1>2 DEF MarkRejected, Public, Exists, RefsInv, TypeOK
<1>3. CASE UNCHANGED <<rows, pointers, overwritten>>
  BY <1>3 DEF Public, Exists
<1>4. QED
  BY <1>1, <1>2, <1>3, WhoStores

(* While p is undisturbed, no other transaction gets to its commit. *)
LEMMA UndisturbedStep ==
  ASSUME RefsInv, HealInv, NEW p \in Publisher, Step(p), NEW q \in Publisher
  PROVE  Undisturbed(q)'
<1> USE PublicationAssumption
<1> SUFFICES ASSUME alone'[q], InTx(q)' PROVE Undisturbed(q)'
  BY DEF Undisturbed
<1>1. CASE Find(p)
  <2>1. q = p
    <3>1. q # p => alone'[q] = (alone[q] /\ ~InTx(q))
      BY <1>1 DEF Find
    <3>2. q # p => InTx(q)' = InTx(q)
      BY Moves DEF InTx
    <3>3. QED
      BY <3>1, <3>2
  <2>2. alone'[q] = (\A o \in Publisher : ~InTx(o))
    BY <1>1, <2>1 DEF Find
  <2>3. \A o \in Publisher \ {q} : ~InTx(o)'
    BY <2>1, <2>2, Moves DEF InTx
  <2>4. pc'[q] \in {"scanning", "saving"}
    BY <1>1, <2>1 DEF Find, Goes, RefsInv, TypeOK
  <2>5. QED
    BY <2>3, <2>4 DEF Undisturbed
<1>2. CASE ~Find(p)
  <2>1. alone'[q] = alone[q]
    BY <1>2 DEF Step, Begin, Look, Judge, Bar, Scan, Supersede, Write, Point, Commit,
       CommitCandidate, MarkRejected, Fail
  <2>2. InTx(q) /\ \A o \in Publisher : InTx(o)' => InTx(o)
    <3>1. InTx(p)' => InTx(p)
      BY <1>2 DEF InTx, RefsInv, TypeOK, Goes, Step, Begin, Look, Judge, Bar, Scan, Supersede,
         Write, Point, Commit, CommitCandidate, MarkRejected, Fail
    <3>2. QED
      BY <3>1, Moves DEF InTx
  <2>3. /\ Undisturbed(q) /\ alone[q]
        /\ \A o \in Publisher \ {q} : ~InTx(o) /\ ~InTx(o)'
    BY <2>1, <2>2 DEF HealInv, Undisturbed
  <2>4. ~Commit(p)
    <3>1. CASE q = p
      BY <3>1 DEF Commit, Goes, InTx, RefsInv, TypeOK
    <3>2. CASE q # p
      BY <2>3, <3>2 DEF Commit, InTx
    <3>3. QED
      BY <3>1, <3>2
  <2>5. Public' \subseteq Public /\ pointers' = pointers /\ PointersSeen' = PointersSeen
    BY <2>4, NothingPublished DEF PointersSeen
  <2>6. CASE q # p
    <3>1. /\ pc'[q] = pc[q] /\ found'[q] = found[q] /\ todo'[q] = todo[q]
          /\ taken'[q] = taken[q] /\ moved'[q] = moved[q]
      BY <2>6, Moves
    <3>2. QED
      BY <2>2, <2>3, <2>5, <3>1 DEF Undisturbed
  <2>7. CASE q = p
    <3>1. CASE Scan(p)
      BY <2>3, <2>5, <2>7, <3>1 DEF Scan, Goes, RefsInv, TypeOK, Undisturbed
    <3>2. ASSUME NEW r \in Publisher, Supersede(p, r) PROVE Undisturbed(q)'
      BY <2>2, <2>3, <2>5, <2>7, <3>2 DEF Supersede, RefsInv, TypeOK, Undisturbed
    <3>3. CASE Write(p)
      BY <2>2, <2>3, <2>5, <2>7, <3>3 DEF Write, Goes, RefsInv, TypeOK, Undisturbed
    <3>4. CASE Point(p)
      <4>1. \A o \in PointersSeen : pointers[o].at < clock + 1
        BY DEF RefsInv, TypeOK
      <4>2. pc'[q] = "moving" /\ moved'[q].at = clock + 1
        BY <2>7, <3>4 DEF Point, Goes, RefsInv, TypeOK
      <4>3. pc[q] = "pointing" /\ taken'[q] = taken[q] /\ found'[q] = found[q]
        BY <2>7, <3>4 DEF Point
      <4>4. QED
        BY <2>2, <2>3, <2>5, <4>1, <4>2, <4>3 DEF Undisturbed
    <3>5. CASE Begin(p) \/ Look(p) \/ Judge(p) \/ Bar(p) \/ CommitCandidate(p)
               \/ MarkRejected(p) \/ Fail(p)
      BY <2>7, <3>5 DEF Begin, Look, Judge, Bar, CommitCandidate, MarkRejected, Fail, Goes,
         InTx, RefsInv, TypeOK
    <3>6. QED
      BY <1>2, <2>4, <3>1, <3>2, <3>3, <3>4, <3>5 DEF Step
  <2>8. QED
    BY <2>6, <2>7
<1>3. QED
  BY <1>1, <1>2

(* An undisturbed commit leaves one public row, its own, under the newest     *)
(* pointer.                                                                 *)
LEMMA CommitHeals ==
  ASSUME RefsInv, HealInv, NEW p \in Publisher, Commit(p), alone[p]
  PROVE  Public' = {Target(p)} /\ ShownRow' = Target(p)
<1> USE PublicationAssumption
<1>1. /\ Public \subseteq taken[p] \cup {found[p]}
      /\ \A q \in PointersSeen : pointers[q].at < moved[p].at
  BY DEF Commit, HealInv, Undisturbed, InTx
<1>2. Public' = {Target(p)}
  <2>1. Target(p) \in Public'
    <3>1. /\ Target(p) \in Publisher /\ rows'[Target(p)] # None
          /\ rows'[Target(p)] = [evidence |-> cand[p].evidence, status |-> "PUBLISHED"]
      BY CommitStores
    <3>2. rows'[Target(p)].status = "PUBLISHED"
      BY <3>1
    <3>3. QED
      BY <3>1, <3>2 DEF Public, Exists
  <2>2. ASSUME NEW r \in Public', r # Target(p) PROVE FALSE
    <3>1. r \in Publisher /\ r # found[p]
      BY <2>2 DEF Public, Exists, Target
    <3>2. rows'[r] # None /\ rows'[r].status = "PUBLISHED"
      BY <2>2 DEF Public, Exists
    <3>3. CASE r \in taken[p]
      <4>1. rows[r] \in Row
        BY <3>3 DEF RefsInv, TypeOK, Refs, Exists
      <4>2. rows'[r] = [rows[r] EXCEPT !.status = "SUPERSEDED"]
        BY <2>2, <3>1, <3>3 DEF Commit, Stored
      <4>3. QED
        BY <3>2, <4>1, <4>2 DEF Row
    <3>4. CASE r \notin taken[p]
      <4>1. rows'[r] = rows[r]
        BY <2>2, <3>1, <3>4 DEF Commit, Stored
      <4>2. QED
        BY <1>1, <3>1, <3>2, <3>4, <4>1 DEF Public, Exists
    <3>5. QED
      BY <3>3, <3>4
  <2>3. QED
    BY <2>1, <2>2
<1>3. ShownRow' = Target(p)
  <2>1. /\ moved[p].slot \in Publisher
        /\ [to |-> Target(p), at |-> moved[p].at] \in Pointer
    BY DEF Commit, RefsInv, TypeOK, Refs, Target, Pointer
  <2>2. /\ pointers'[moved[p].slot] = [to |-> Target(p), at |-> moved[p].at]
        /\ \A q \in Publisher \ {moved[p].slot} : pointers'[q] = pointers[q]
    BY <2>1 DEF Commit, RefsInv, TypeOK
  <2>3. moved[p].slot \in PointersSeen'
    BY <2>1, <2>2 DEF PointersSeen
  <2>4. \A q \in PointersSeen' : q # moved[p].slot =>
          q \in PointersSeen /\ pointers'[q].at < moved[p].at
    BY <1>1, <2>2 DEF PointersSeen
  <2>5. \A q \in PointersSeen : pointers[q].at \in Int
    BY DEF RefsInv, TypeOK
  <2>6. Newest' = {moved[p].slot}
    <3>1. moved[p].at \in Int /\ pointers'[moved[p].slot].at = moved[p].at
      BY <2>1, <2>2 DEF Pointer
    <3>2. \A q \in PointersSeen' : q # moved[p].slot =>
            pointers'[q].at \in Int /\ pointers'[q].at < pointers'[moved[p].slot].at
      BY <2>2, <2>4, <2>5, <3>1 DEF PointersSeen
    <3>3. QED
      BY <2>3, <3>1, <3>2 DEF Newest
  <2>7. QED
    BY <2>2, <2>6 DEF ShownRow
<1>4. QED
  BY <1>2, <1>3

(* After a publication that no other overlapped, its own snapshot is the only *)
(* public one and readers are shown it, whatever the ones before it left.    *)
THEOREM PublicationsHeal == Spec => PublicationHeals
<1>1. Init => HealInv
  BY DEF Init, HealInv, Undisturbed
<1>2. RefsInv /\ HealInv /\ [Next]_vars => HealInv'
  <2> SUFFICES ASSUME RefsInv, HealInv, [Next]_vars PROVE HealInv'
    OBVIOUS
  <2>1. CASE UNCHANGED vars
    BY <2>1 DEF vars, db, HealInv, Undisturbed, InTx, Public, Exists, PointersSeen
  <2>2. QED
    BY <2>1, UndisturbedStep DEF Next, HealInv
<1>3. RefsInv /\ HealInv /\ [Next]_vars =>
        [\A p \in Publisher :
           pc'[p] = "published" /\ pc[p] # "published" /\ alone[p]
           => Public' = {Target(p)} /\ ShownRow' = Target(p)]_vars
  <2> SUFFICES ASSUME RefsInv, HealInv, NEW s \in Publisher, Step(s), NEW p \in Publisher,
                      pc'[p] = "published", pc[p] # "published", alone[p]
               PROVE  Public' = {Target(p)} /\ ShownRow' = Target(p)
    BY DEF Next
  <2>1. Commit(p)
    BY Publishes
  <2>2. QED
    BY <2>1, CommitHeals
<1>4. QED
  BY <1>1, <1>2, <1>3, RefsInvariant, PTL DEF Spec, PublicationHeals
=============================================================================
