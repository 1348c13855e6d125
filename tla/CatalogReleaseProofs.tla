------------------------ MODULE CatalogReleaseProofs ------------------------
(***************************************************************************)
(* Proofs about CatalogRelease.  Releases only grow (Grows): what a request *)
(* knows of a release it has compiled stays true.                          *)
(***************************************************************************)
EXTENDS CatalogRelease, TLAPS

----------------------------------------------------------------------------
(* Types. *)

LEMMA Constants ==
  /\ MaxRel \in Nat \ {0} /\ MaxEdits \in Nat
  /\ Bootstrap \in Rel /\ NoRel \notin Rel /\ 0 \in 0..MaxEdits
BY ConstantsAssumption DEF Rel, Bootstrap, NoRel

LEMMA BlankTyped == Blank \in Requests
BY Constants DEF Blank, Requests, NoRefs, Refs, Kinds

LEMMA ReqFields ==
  ASSUME TypeOK, NEW a \in Admin
  PROVE  /\ req[a] \in Requests
         /\ req[a].rel \in Rel /\ req[a].base \in Rel /\ req[a].refs \in Refs
         /\ req[a].by \in Kinds
         /\ req[a].expects \in Rel \cup {NoRel} /\ req[a].prev \in Rel \cup {NoRel}
         /\ req[a].write \in {"none", "VALIDATED", "REJECTED"} /\ req[a].ok \in BOOLEAN
BY DEF TypeOK, Requests

(* What is compiled into a rule is a named edit of a draft of it. *)
LEMMA Merged ==
  ASSUME NEW b, NEW refs, NEW k \in Included(refs)
  PROVE  \E d \in Named(refs) : /\ KeyOf[d] = k
                               /\ (CHOOSE o \in Named(refs) : KeyOf[o] = k) = d
BY DEF Included

LEMMA CompiledTyped ==
  ASSUME TypeOK, NEW b \in Rel, NEW refs \in Refs
  PROVE  Compiled(b, refs) \in Contents /\ Included(refs) \subseteq Key
<1>1. Included(refs) \subseteq Key
  BY ConstantsAssumption DEF Included, Named
<1>2. ASSUME NEW k \in Included(refs)
      PROVE  refs[CHOOSE d \in Named(refs) : KeyOf[d] = k] \in 0..MaxEdits
  BY Merged DEF Named, Refs
<1>3. \A k \in Key : rules[b][k] \in 0..MaxEdits
  BY DEF TypeOK, Contents
<1> QED BY <1>1, <1>2, <1>3 DEF Compiled, Contents

LEMMA PersistTyped ==
  ASSUME TypeOK, NEW b \in Rel, NEW refs \in Refs, NEW r \in Rel, Persist(b, refs, r)
  PROVE  /\ status' \in [Rel -> Statuses] /\ failing' \subseteq Rel
         /\ from' \in [Rel -> Rel \cup {NoRel}] /\ manifest' \in [Rel -> SUBSET Key]
         /\ rules' \in [Rel -> Contents]
<1>1. Compiled(b, refs) \in Contents /\ Included(refs) \subseteq Key
  BY CompiledTyped
<1>2. CASE UNCHANGED releaseVars
  BY <1>2 DEF releaseVars, TypeOK
<1>3. CASE ~ UNCHANGED releaseVars
  BY <1>1, <1>3 DEF Persist, Reuse, Insert, TypeOK, Statuses
<1> QED BY <1>2, <1>3

LEMMA ReplayTyped ==
  ASSUME TypeOK, NEW b, NEW c \in Rel, NEW v \in BOOLEAN, ReplayRow(b, c, v)
  PROVE  gate' \subseteq Rel /\ passed' \subseteq Rel
BY DEF ReplayRow, TypeOK

LEMMA InitTyped == Init => TypeOK
<1> SUFFICES ASSUME Init PROVE TypeOK
  OBVIOUS
<1>1. NoRefs \in Refs /\ Bare \in Contents
  BY Constants DEF NoRefs, Refs, Bare, Contents
<1> QED BY <1>1, Constants, BlankTyped DEF Init, TypeOK, Statuses, Stages

LEMMA TypeKept == TypeOK /\ [Next]_vars => TypeOK'
<1> SUFFICES ASSUME TypeOK, [Next]_vars PROVE TypeOK'
  OBVIOUS
<1> USE DEF releaseVars, replayVars, draftVars, workVars
<1>1. CASE UNCHANGED vars
  BY <1>1 DEF vars, TypeOK
<1>2. CASE Drafting
  <2>1. ASSUME NEW d \in Draft, Edit(d) PROVE TypeOK'
    <3>1. edits + 1 \in Edits /\ edits + 1 \in 0..MaxEdits
      BY <2>1, Constants DEF Edit, TypeOK, Edits
    <3>2. draft' \in Refs /\ saved' \in [Draft -> SUBSET Edits]
      BY <2>1, <3>1 DEF Edit, TypeOK, Refs
    <3> QED BY <2>1, <3>1, <3>2 DEF Edit, TypeOK
  <2>2. ASSUME NEW d \in Draft, Discard(d) PROVE TypeOK'
    BY <2>2, Constants DEF Discard, TypeOK, Refs
  <2> QED BY <1>2, <2>1, <2>2 DEF Drafting
<1>3. CASE Compiling
  <2>1. PICK b \in Rel, D \in SUBSET Draft : Candidate(b, D)
    BY <1>3 DEF Compiling
  <2>2. Chosen(D) \in Refs
    BY Constants DEF Chosen, TypeOK, Refs
  <2>3. PICK r \in Rel : Persist(b, Chosen(D), r)
    BY <2>1 DEF Candidate, Persist
  <2> QED BY <2>1, <2>2, <2>3, PersistTyped DEF Candidate, TypeOK
<1>4. CASE Replaying
  <2>1. PICK c \in Rel : \E b \in {from[c], c} : Replay(b, c)
    BY <1>4 DEF Replaying
  <2>2. PICK b \in {from[c], c} : Replay(b, c)
    BY <2>1
  <2>3. PICK v \in BOOLEAN : ReplayRow(b, c, v)
    BY <2>2 DEF Replay
  <2> QED BY <2>2, <2>3, ReplayTyped DEF Replay, TypeOK
<1>5. ASSUME NEW a \in Admin, Handling(a) PROVE TypeOK'
  <2> USE ReqFields
  <2>1. CASE Publish(a)
    <3>1. PICK b \in Active, x \in Rel :
            req' = [req EXCEPT ![a] =
              [Blank EXCEPT !.by = IF x = b THEN "publish" ELSE "stale",
                            !.base = b, !.refs = Pending(b), !.expects = x]]
      BY <2>1 DEF Publish, Active, Shown
    <3>2. b \in Rel /\ Pending(b) \in Refs
      BY Constants DEF Active, Pending, TypeOK, Refs
    <3>3. [Blank EXCEPT !.by = IF x = b THEN "publish" ELSE "stale",
                        !.base = b, !.refs = Pending(b), !.expects = x] \in Requests
      BY <3>2, BlankTyped DEF Requests, Kinds
    <3> QED BY <2>1, <3>1, <3>3 DEF Publish, TypeOK, Stages
  <2>2. CASE Compile(a)
    <3>1. PICK r \in Rel :
            /\ Persist(req[a].base, req[a].refs, r)
            /\ req' = [req EXCEPT ![a] = [@ EXCEPT !.rel = r, !.refs = NoRefs]]
            /\ at'  = [at EXCEPT ![a] = IF status'[r] = "REJECTED" \/ r \in failing'
                                         THEN "invalid" ELSE "compiled"]
      BY <2>2 DEF Compile
    <3>2. /\ status' \in [Rel -> Statuses] /\ failing' \subseteq Rel
          /\ from' \in [Rel -> Rel \cup {NoRel}] /\ manifest' \in [Rel -> SUBSET Key]
          /\ rules' \in [Rel -> Contents]
      BY <3>1, PersistTyped
    <3>3. NoRefs \in Refs
      BY Constants DEF NoRefs, Refs
    <3>4. [req[a] EXCEPT !.rel = r, !.refs = NoRefs] \in Requests
      BY <3>3 DEF Requests
    <3>5. req' \in [Admin -> Requests]
      BY <3>1, <3>4 DEF TypeOK
    <3>6. at' \in [Admin -> Stages] /\ \A o \in Admin : at[o] = "locked" => at'[o] = "locked"
      BY <2>2, <3>1 DEF TypeOK, Stages, Compile
    <3> QED BY <2>2, <3>2, <3>5, <3>6 DEF Compile, TypeOK
  <2>3. CASE PublishReplay(a)
    <3>1. gate' \subseteq Rel /\ passed' \subseteq Rel
      BY <2>3, ReplayTyped DEF PublishReplay, TypeOK
    <3>2. req' \in [Admin -> Requests]
      BY <2>3, Constants DEF PublishReplay, TypeOK, Requests
    <3> QED BY <2>3, <3>1, <3>2 DEF PublishReplay, TypeOK, Stages
  <2>4. CASE PublishReplayFails(a)
    <3>1. gate' \subseteq Rel /\ passed' \subseteq Rel
      BY <2>4, ReplayTyped DEF PublishReplayFails
    <3> QED BY <2>4, <3>1, BlankTyped DEF PublishReplayFails, TypeOK, Stages
  <2>5. CASE Check(a)
    BY <2>5 DEF Check, TypeOK, Stages
  <2>6. CASE Lock(a)
    <3>1. PICK p \in Rel \cup {NoRel} : req' = [req EXCEPT ![a] = [@ EXCEPT !.prev = p, !.expects = NoRel]]
      BY <2>6 DEF Lock
    <3>2. [req[a] EXCEPT !.prev = p, !.expects = NoRel] \in Requests
      BY DEF Requests
    <3>3. req' \in [Admin -> Requests]
      BY <3>1, <3>2 DEF TypeOK
    <3>4. PICK L \in {{req[a].rel}, {req[a].rel} \cup Active} :
            /\ \A r \in L : Unlocked(a, r)
            /\ locks' = [locks EXCEPT ![a] = L]
      BY <2>6 DEF Lock
    <3>5. L \subseteq Rel
      BY <3>4 DEF Active
    <3>6. \A o \in Admin \ {a} : L \cap locks[o] = {}
      BY <3>4 DEF Unlocked
    <3>7. /\ locks' \in [Admin -> SUBSET Rel]
          /\ \A x, o \in Admin : x # o => locks'[x] \cap locks'[o] = {}
      BY <3>4, <3>5, <3>6 DEF TypeOK
    <3>8. at' = [at EXCEPT ![a] = "locked"]
      BY <2>6 DEF Lock
    <3>9. /\ at' \in [Admin -> Stages]
          /\ \A o \in Admin : locks'[o] # {} => at'[o] = "locked"
      BY <3>4, <3>8 DEF TypeOK, Stages
    <3> QED BY <2>6, <3>3, <3>7, <3>9 DEF Lock, TypeOK
  <2>7. CASE Activate(a)
    <3>1. status' \in [Rel -> Statuses]
      BY <2>7 DEF Activate, TypeOK, Statuses
    <3>2. log' \in Rel
      BY <2>7 DEF Activate
    <3> QED BY <2>7, <3>1, <3>2, BlankTyped DEF Activate, TypeOK, Stages
  <2>8. CASE WriteVerdict(a)
    <3>1. status' \in [Rel -> Statuses] /\ failing' \subseteq Rel
      BY <2>8 DEF WriteVerdict, TypeOK, Statuses
    <3> QED BY <2>8, <3>1, BlankTyped DEF WriteVerdict, TypeOK, Stages
  <2>9. CASE GiveUp(a)
    BY <2>9, BlankTyped DEF GiveUp, TypeOK, Stages
  <2>10. ASSUME NEW r \in Rel, Request(a, r) PROVE TypeOK'
    <3>1. [Blank EXCEPT !.rel = r] \in Requests
      BY BlankTyped DEF Requests
    <3> QED BY <2>10, <3>1 DEF Request, TypeOK, Stages
  <2>11. ASSUME NEW r \in Rel, Revalidate(a, r) PROVE TypeOK'
    <3>1. PICK ok \in Verdicts(rules[r]) :
            req' = [req EXCEPT ![a] = [Blank EXCEPT !.rel = r,
                      !.write = NewStatus(status[r], ok), !.ok = ok]]
      BY <2>11 DEF Revalidate
    <3>2. ok \in BOOLEAN
      BY DEF Verdicts, Valid
    <3>3. NewStatus(status[r], ok) \in {"none", "VALIDATED", "REJECTED"}
      BY <3>2 DEF NewStatus
    <3>4. [Blank EXCEPT !.rel = r, !.write = NewStatus(status[r], ok), !.ok = ok] \in Requests
      BY <3>2, <3>3, BlankTyped DEF Requests
    <3> QED BY <2>11, <3>1, <3>4 DEF Revalidate, TypeOK, Stages
  <2> QED BY <1>5, <2>1, <2>2, <2>3, <2>4, <2>5, <2>6, <2>7, <2>8, <2>9, <2>10, <2>11
          DEF Handling
<1> QED BY <1>1, <1>2, <1>3, <1>4, <1>5 DEF Next

(* Types are kept, and no two transactions ever hold the lock of one row.  *)
THEOREM TypeCorrect == Spec => []TypeOK
BY InitTyped, TypeKept, PTL DEF Spec

----------------------------------------------------------------------------
(* Releases only grow: a row stays, with its base and its rules, and a     *)
(* replay that was passed stays passed.                                    *)

Kept(r) == r \in Known' /\ from'[r] = from[r] /\ rules'[r] = rules[r]
Grows   == (\A r \in Known : Kept(r)) /\ passed \subseteq passed'

LEMMA PersistGrows ==
  ASSUME TypeOK, NEW b \in Rel, NEW refs \in Refs, NEW r \in Rel, Persist(b, refs, r)
  PROVE  /\ \A s \in Known : Kept(s)
         /\ r \in Known' /\ from'[r] = b /\ rules'[r] = Compiled(b, refs)
         /\ \A s \in Rel \ {r} : /\ from'[s] = from[s] /\ rules'[s] = rules[s]
                               /\ status'[s] = status[s]
         /\ \/ UNCHANGED releaseVars
            \/ r \notin Known /\ \E ok \in Verdicts(Compiled(b, refs)) :
                                    status'[r] = IF ok THEN "VALIDATED" ELSE "REJECTED"
<1>1. CASE UNCHANGED releaseVars /\ r \in Known /\ from[r] = b /\ rules[r] = Compiled(b, refs)
  BY <1>1 DEF releaseVars, Known, Kept
<1>2. CASE Insert(b, refs, r)
  <2>1. PICK ok \in Verdicts(Compiled(b, refs)) :
          status' = [status EXCEPT ![r] = IF ok THEN "VALIDATED" ELSE "REJECTED"]
    BY <1>2 DEF Insert
  <2>2. from' = [from EXCEPT ![r] = b] /\ rules' = [rules EXCEPT ![r] = Compiled(b, refs)]
    BY <1>2 DEF Insert
  <2> QED BY <1>2, <2>1, <2>2 DEF Insert, Known, Kept, TypeOK
<1> QED BY <1>1, <1>2 DEF Persist, Reuse

LEMMA CandidatePersists ==
  ASSUME TypeOK, NEW b \in Rel, NEW D \in SUBSET Draft, Candidate(b, D)
  PROVE  Chosen(D) \in Refs /\ \E r \in Rel : Persist(b, Chosen(D), r)
BY Constants DEF Candidate, Persist, Chosen, TypeOK, Refs

LEMMA AllGrow == TypeOK /\ [Next]_vars => Grows
<1> SUFFICES ASSUME TypeOK, [Next]_vars PROVE Grows
  OBVIOUS
<1> USE DEF releaseVars, replayVars
<1>1. CASE UNCHANGED vars
  BY <1>1 DEF vars, Grows, Kept, Known
<1>2. CASE Drafting
  BY <1>2 DEF Drafting, Edit, Discard, Grows, Kept, Known
<1>3. CASE Compiling
  <2>1. PICK b \in Rel, D \in SUBSET Draft : Candidate(b, D)
    BY <1>3 DEF Compiling
  <2> QED BY <2>1, CandidatePersists, PersistGrows DEF Candidate, Grows
<1>4. CASE Replaying
  BY <1>4 DEF Replaying, Replay, ReplayRow, Grows, Kept, Known
<1>5. ASSUME NEW a \in Admin, Handling(a) PROVE Grows
  <2>1. CASE Compile(a)
    BY <2>1, ReqFields, PersistGrows DEF Compile, Grows
  <2>2. CASE PublishReplay(a) \/ PublishReplayFails(a)
    BY <2>2 DEF PublishReplay, PublishReplayFails, ReplayRow, Grows, Kept, Known
  <2>3. CASE Activate(a)
    <3>1. \A r \in Known : status'[r] # "none"
      BY <2>3 DEF Activate, Known, TypeOK
    <3> QED BY <2>3, <3>1 DEF Activate, Grows, Kept, Known
  <2>4. CASE WriteVerdict(a)
    <3>1. \A r \in Known : status'[r] # "none"
      BY <2>4, ReqFields DEF WriteVerdict, Known, TypeOK
    <3> QED BY <2>4, <3>1 DEF WriteVerdict, Grows, Kept, Known
  <2>5. CASE UNCHANGED <<releaseVars, replayVars>>
    BY <2>5 DEF Grows, Kept, Known
  <2> QED BY <1>5, <2>1, <2>2, <2>3, <2>4, <2>5
          DEF Handling, Publish, Check, Lock, GiveUp, Request, Revalidate
<1> QED BY <1>1, <1>2, <1>3, <1>4, <1>5 DEF Next

----------------------------------------------------------------------------
(* A draft holds its latest edit, and a release's content may follow its   *)
(* base's.                                                                 *)

Newest ==
  /\ \A d \in Draft : \A e \in saved[d] : e <= edits
  /\ \A d \in Draft : draft[d] # 0 =>
       draft[d] \in saved[d] /\ \A e \in saved[d] : e <= draft[d]
  /\ \A d, o \in Draft : d # o => saved[d] \cap saved[o] = {}
  /\ \A k \in Key, r \in Rel : rules[r][k] <= edits

Rising ==
  \A r \in Rel : from[r] # NoRel =>
    from[r] \in Known /\ \A k \in Key : Succeeds(rules[from[r]][k], rules[r][k])

Based == \A a \in Admin : at[a] \in {"collected", "compiled"} => req[a].base \in Known

Lineage == TypeOK /\ Newest /\ Rising /\ Based

LEMMA InitLineage == Init => Lineage
<1> SUFFICES ASSUME Init PROVE Lineage
  OBVIOUS
<1> USE Constants
<1>1. Newest
  BY DEF Init, Newest, NoRefs, Bare
<1>2. Rising /\ Based
  BY DEF Init, Rising, Based
<1> QED BY <1>1, <1>2, InitTyped DEF Lineage

(* What a compilation adds may follow what its base has. *)
LEMMA PersistRises ==
  ASSUME Lineage, NEW b \in Known, NEW refs \in Refs, NEW r \in Rel,
         Persist(b, refs, r), Current(refs), UNCHANGED draftVars
  PROVE  Newest' /\ Rising'
<1>1. b \in Rel /\ TypeOK
  BY DEF Known, Lineage
<1>2. PICK c : c = Compiled(b, refs)
  OBVIOUS
<1>3. c \in Contents
  BY <1>1, <1>2, CompiledTyped
<1>4. \A k \in Key : /\ c[k] \in Nat /\ rules[b][k] \in Nat
                     /\ c[k] <= edits /\ Succeeds(rules[b][k], c[k])
  <2> TAKE k \in Key
  <2>1. c[k] \in Nat /\ rules[b][k] \in Nat /\ edits \in Nat
    BY <1>1, <1>3, Constants DEF TypeOK, Contents
  <2>2. CASE k \notin Included(refs)
    <3>1. c[k] = rules[b][k]
      BY <1>2, <2>2 DEF Compiled
    <3> QED BY <1>1, <2>1, <3>1 DEF Lineage, Newest, Succeeds
  <2>3. CASE k \in Included(refs)
    <3>1. PICK d \in Named(refs) : c[k] = refs[d]
      <4>1. c[k] = refs[CHOOSE o \in Named(refs) : KeyOf[o] = k]
        BY <1>2, <2>3 DEF Compiled
      <4>2. PICK d \in Named(refs) : (CHOOSE o \in Named(refs) : KeyOf[o] = k) = d
        BY <2>3, Merged
      <4> QED BY <4>1, <4>2
    <3>2. d \in Draft /\ c[k] # 0 /\ c[k] = draft[d]
      BY <3>1 DEF Named, Current
    <3>3. c[k] \in saved[d] /\ \A e \in saved[d] : e <= c[k]
      BY <3>2 DEF Lineage, Newest
    <3>4. c[k] <= edits
      BY <3>2, <3>3 DEF Lineage, Newest
    <3>5. ASSUME rules[b][k] # c[k], NEW o \in Draft, {rules[b][k], c[k]} \subseteq saved[o]
          PROVE  rules[b][k] < c[k]
      <4>1. o = d
        BY <3>2, <3>3, <3>5 DEF Lineage, Newest
      <4> QED BY <2>1, <3>3, <3>5, <4>1
    <3> QED BY <2>1, <3>2, <3>4, <3>5 DEF Succeeds
  <2> QED BY <2>2, <2>3
<1>5. /\ \A s \in Known : Kept(s)
      /\ r \in Known' /\ from'[r] = b /\ rules'[r] = c
      /\ \A s \in Rel \ {r} : from'[s] = from[s] /\ rules'[s] = rules[s]
  BY <1>2, <1>1, PersistGrows
<1>6. Newest'
  <2>1. draft' = draft /\ edits' = edits /\ saved' = saved
    BY DEF draftVars
  <2>2. \A k \in Key, s \in Rel : rules'[s][k] <= edits
    BY <1>4, <1>5 DEF Newest, Lineage
  <2> QED BY <2>1, <2>2 DEF Newest, Lineage
<1>7. Rising'
  <2> SUFFICES ASSUME NEW s \in Rel, from'[s] # NoRel
               PROVE  /\ from'[s] \in Known'
                      /\ \A k \in Key : Succeeds(rules'[from'[s]][k], rules'[s][k])
    BY DEF Rising, Succeeds, draftVars
  <2>2. CASE s = r
    <3>1. b \in Known' /\ rules'[b] = rules[b]
      BY <1>5 DEF Kept
    <3>2. from'[s] = b /\ rules'[s] = c
      BY <2>2, <1>5
    <3> QED BY <3>1, <3>2, <1>4
  <2>3. CASE s # r
    <3>1. from'[s] = from[s] /\ rules'[s] = rules[s]
      BY <2>3, <1>5
    <3>2. from[s] \in Known /\ \A k \in Key : Succeeds(rules[from[s]][k], rules[s][k])
      BY <3>1 DEF Lineage, Rising
    <3> QED BY <3>1, <3>2, <1>5 DEF Kept
  <2> QED BY <2>2, <2>3
<1> QED BY <1>6, <1>7

(* An edit is the latest, and keeps the order of the earlier ones.         *)
LEMMA EditRises ==
  ASSUME Lineage, NEW d \in Draft, Edit(d)
  PROVE  Newest' /\ Rising'
<1>1. /\ edits \in Nat /\ edits' = edits + 1 /\ rules' = rules /\ from' = from
      /\ Known' = Known
  BY Constants DEF Lineage, TypeOK, Edit, releaseVars, Known
<1>2. \A o \in Draft : /\ draft'[o] = IF o = d THEN edits + 1 ELSE draft[o]
                      /\ saved'[o] = IF o = d THEN saved[o] \cup {edits + 1} ELSE saved[o]
  BY DEF Lineage, TypeOK, Edit, Refs
<1>3. \A o \in Draft : \A e \in saved[o] : e \in Nat /\ e <= edits
  BY Constants DEF Lineage, TypeOK, Edits, Newest
<1>4. \A r \in Rel, k \in Key : rules[r][k] \in Nat /\ rules[r][k] <= edits
  BY Constants DEF Lineage, TypeOK, Contents, Newest
<1>5. Newest'
  <2>1. \A o \in Draft : \A e \in saved'[o] : e <= edits'
    <3> SUFFICES ASSUME NEW o \in Draft, NEW e \in saved'[o] PROVE e <= edits'
      OBVIOUS
    <3>1. CASE o = d
      <4>1. saved'[o] = saved[o] \cup {edits + 1}
        BY <1>2, <3>1
      <4> QED BY <1>1, <1>3, <4>1
    <3>2. CASE o # d
      <4>1. saved'[o] = saved[o]
        BY <1>2, <3>2
      <4> QED BY <1>1, <1>3, <4>1
    <3> QED BY <3>1, <3>2
  <2>2. \A o \in Draft : draft'[o] # 0 =>
          draft'[o] \in saved'[o] /\ \A e \in saved'[o] : e <= draft'[o]
    <3> SUFFICES ASSUME NEW o \in Draft, draft'[o] # 0
                 PROVE  draft'[o] \in saved'[o] /\ \A e \in saved'[o] : e <= draft'[o]
      OBVIOUS
    <3>1. CASE o = d
      <4>1. draft'[o] = edits' /\ draft'[o] \in saved'[o]
        BY <1>1, <1>2, <3>1
      <4> QED BY <2>1, <4>1
    <3>2. CASE o # d
      <4>1. draft'[o] = draft[o] /\ saved'[o] = saved[o]
        BY <1>2, <3>2
      <4> QED BY <4>1 DEF Lineage, Newest
    <3> QED BY <3>1, <3>2
  <2>3. \A o, q \in Draft : o # q => saved'[o] \cap saved'[q] = {}
    <3> SUFFICES ASSUME NEW o \in Draft, NEW q \in Draft, o # q,
                        NEW e \in saved'[o], e \in saved'[q]
                 PROVE  FALSE
      OBVIOUS
    <3>1. edits + 1 \notin saved[o] /\ edits + 1 \notin saved[q]
      BY <1>1, <1>3
    <3>2. e \in saved[o] /\ e \in saved[q]
      BY <1>2, <3>1
    <3> QED BY <3>2 DEF Lineage, Newest
  <2>4. \A k \in Key, r \in Rel : rules'[r][k] <= edits'
    BY <1>1, <1>4
  <2> QED BY <2>1, <2>2, <2>3, <2>4 DEF Newest
<1>6. Rising'
  <2> SUFFICES ASSUME NEW r \in Rel, from[r] # NoRel
               PROVE  /\ from[r] \in Known
                      /\ \A k \in Key : Succeeds(rules[from[r]][k], rules[r][k])'
    BY <1>1 DEF Rising, Succeeds
  <2>1. from[r] \in Known /\ from[r] \in Rel
    BY DEF Lineage, Rising, Known
  <2>2. ASSUME NEW k \in Key
        PROVE  Succeeds(rules[from[r]][k], rules[r][k])'
    <3>1. Succeeds(rules[from[r]][k], rules[r][k])
      BY DEF Lineage, Rising
    <3>2. /\ rules[from[r]][k] \in Nat /\ rules[from[r]][k] <= edits
          /\ rules[r][k] \in Nat /\ rules[r][k] <= edits
      BY <1>4, <2>1
    <3>3. \A o \in Draft : \A v \in {rules[from[r]][k], rules[r][k]} :
                             v \in saved'[o] => v \in saved[o]
      <4>1. edits + 1 \notin {rules[from[r]][k], rules[r][k]}
        BY <1>1, <3>2
      <4> QED BY <1>2, <4>1
    <3> QED BY <1>1, <3>1, <3>3 DEF Succeeds
  <2> QED BY <2>1, <2>2
<1> QED BY <1>5, <1>6

LEMMA LineageKept == Lineage /\ [Next]_vars => Lineage'
<1> SUFFICES ASSUME Lineage, [Next]_vars PROVE Lineage'
  OBVIOUS
<1>1. TypeOK /\ TypeOK' /\ Grows
  BY TypeKept, AllGrow DEF Lineage
<1>2. ASSUME UNCHANGED <<from, rules, draftVars>> PROVE Newest' /\ Rising'
  <2>1. Newest'
    BY <1>2 DEF draftVars, Lineage, Newest
  <2>2. \A v, w : Succeeds(v, w)' <=> Succeeds(v, w)
    BY <1>2 DEF draftVars, Succeeds
  <2>3. Rising'
    BY <1>1, <1>2, <2>2 DEF Lineage, Rising, Grows, Kept, Succeeds, draftVars
  <2> QED BY <2>1, <2>3
<1> USE DEF releaseVars, draftVars
<1>3. CASE UNCHANGED vars
  BY <1>1, <1>2, <1>3 DEF vars, Lineage, Based, Known
<1>4. CASE Drafting
  <2>1. Based'
    BY <1>4 DEF Drafting, Edit, Discard, workVars, Lineage, Based, Known
  <2>2. ASSUME NEW d \in Draft, Discard(d) PROVE Newest' /\ Rising'
    <3>1. \A o \in Draft : draft'[o] = IF o = d THEN 0 ELSE draft[o]
      BY <2>2, <1>1 DEF Discard, TypeOK, Refs
    <3>2. UNCHANGED <<edits, saved, rules, from, status>>
      BY <2>2 DEF Discard
    <3>3. Newest'
      BY <3>1, <3>2 DEF Lineage, Newest
    <3>4. Rising'
      BY <3>2 DEF Lineage, Rising, Succeeds, Known
    <3> QED BY <3>3, <3>4
  <2> QED BY <1>1, <1>4, <2>1, <2>2, EditRises DEF Drafting, Lineage
<1>5. CASE Compiling
  <2>1. PICK b \in Rel, D \in SUBSET Draft : Candidate(b, D)
    BY <1>5 DEF Compiling
  <2>2. Chosen(D) \in Refs /\ Current(Chosen(D))
    BY <1>1, <2>1, CandidatePersists DEF Current, Chosen
  <2>3. PICK r \in Rel : Persist(b, Chosen(D), r)
    BY <1>1, <2>1, CandidatePersists
  <2>4. Newest' /\ Rising'
    BY <2>1, <2>2, <2>3, PersistRises DEF Candidate
  <2>5. Based'
    BY <2>1, <1>1 DEF Candidate, workVars, Lineage, Based, Grows, Kept
  <2> QED BY <1>1, <2>4, <2>5 DEF Lineage
<1>6. CASE Replaying
  BY <1>1, <1>2, <1>6 DEF Replaying, Replay, workVars, Lineage, Based, Known
<1>7. ASSUME NEW a \in Admin, Handling(a) PROVE Lineage'
  <2>1. \A o \in Admin \ {a} : at'[o] = at[o] /\ req'[o] = req[o]
    <3>1. at \in [Admin -> Stages] /\ req \in [Admin -> Requests]
      BY <1>1 DEF TypeOK
    <3>2. CASE Publish(a) \/ Compile(a) \/ PublishReplay(a) \/ PublishReplayFails(a)
      BY <3>1, <3>2 DEF Publish, Compile, PublishReplay, PublishReplayFails
    <3>3. CASE Check(a) \/ Lock(a) \/ Activate(a)
      BY <3>1, <3>3 DEF Check, Lock, Activate
    <3>4. CASE WriteVerdict(a) \/ GiveUp(a)
      BY <3>1, <3>4 DEF WriteVerdict, GiveUp
    <3>5. CASE \E r \in Rel : Request(a, r) \/ Revalidate(a, r)
      BY <3>1, <3>5 DEF Request, Revalidate
    <3> QED BY <1>7, <3>2, <3>3, <3>4, <3>5 DEF Handling
  <2>2. Based'
    <3>1. \A o \in Admin \ {a} : at'[o] \in {"collected", "compiled"} => req'[o].base \in Known'
      BY <1>1, <2>1 DEF Lineage, Based, Grows, Kept
    <3>2. CASE Publish(a)
      <4>1. PICK b \in Active, x \in Rel :
              req' = [req EXCEPT ![a] =
                [Blank EXCEPT !.by = IF x = b THEN "publish" ELSE "stale",
                              !.base = b, !.refs = Pending(b), !.expects = x]]
        BY <3>2 DEF Publish, Active, Shown
      <4>2. req'[a].base = b /\ b \in Known
        BY <4>1, <1>1 DEF Blank, TypeOK, Active, Known
      <4> QED BY <3>1, <4>2, <1>1 DEF Based, Grows, Kept
    <3>3. CASE Compile(a)
      <4>1. req'[a].base = req[a].base /\ at[a] = "collected"
        BY <3>3, <1>1 DEF Compile, TypeOK, Requests
      <4> QED BY <3>1, <4>1, <1>1 DEF Lineage, Based, Grows, Kept
    <3>4. CASE ~Publish(a) /\ ~Compile(a)
      <4>1. at'[a] \notin {"collected", "compiled"}
        BY <3>4, <1>7, <1>1 DEF Handling, PublishReplay, PublishReplayFails, Check,
             Lock, Activate, WriteVerdict, GiveUp, Request, Revalidate, TypeOK
      <4> QED BY <3>1, <4>1 DEF Based
    <3> QED BY <3>2, <3>3, <3>4
  <2>3. CASE Compile(a)
    <3>1. req[a].base \in Known /\ req[a].refs \in Refs /\ Current(req[a].refs)
      BY <2>3, <1>1, ReqFields DEF Compile, Lineage, Based
    <3>2. PICK r \in Rel : Persist(req[a].base, req[a].refs, r)
      BY <2>3 DEF Compile
    <3>3. Newest' /\ Rising'
      BY <2>3, <3>1, <3>2, PersistRises DEF Compile
    <3> QED BY <1>1, <2>2, <3>3 DEF Lineage
  <2>4. CASE ~Compile(a)
    <3>1. UNCHANGED <<from, rules, draftVars>>
      BY <2>4, <1>7 DEF Handling, Publish, PublishReplay, PublishReplayFails, Check,
           Lock, Activate, WriteVerdict, GiveUp, Request, Revalidate
    <3> QED BY <1>1, <1>2, <2>2, <3>1 DEF Lineage
  <2> QED BY <2>3, <2>4
<1> QED BY <1>3, <1>4, <1>5, <1>6, <1>7 DEF Next

----------------------------------------------------------------------------
(* What a publication knows of the release that it will replace.           *)

OnBase(a) ==
  LET r == req[a].rel IN
  /\ at[a] = "collected" => req[a].expects = req[a].base
  /\ at[a] = "compiled" => /\ r \in Known /\ from[r] = req[a].base
                           /\ req[a].expects = req[a].base
  /\ at[a] \in {"checking", "checked"} => /\ r \in Known /\ r \in passed /\ from[r] \in Rel
                                          /\ req[a].expects = from[r]
  /\ at[a] = "locked" => /\ r \in Known /\ r \in passed /\ from[r] \in Rel
                         /\ req[a].prev = from[r]

PInv == Lineage /\ \A a \in Admin : req[a].by = "publish" => OnBase(a)

LEMMA InitPublished == Init => PInv
<1> SUFFICES ASSUME Init PROVE PInv
  OBVIOUS
<1> QED BY InitLineage DEF Init, PInv, Blank

(* An administrator's step leaves the other requests alone. *)
LEMMA OthersStay ==
  ASSUME TypeOK, NEW a \in Admin, Handling(a), NEW o \in Admin \ {a}
  PROVE  at'[o] = at[o] /\ req'[o] = req[o]
<1>1. at \in [Admin -> Stages] /\ req \in [Admin -> Requests]
  BY DEF TypeOK
<1>2. CASE Publish(a) \/ Compile(a) \/ PublishReplay(a) \/ PublishReplayFails(a)
  BY <1>1, <1>2 DEF Publish, Compile, PublishReplay, PublishReplayFails
<1>3. CASE Check(a) \/ Lock(a) \/ Activate(a)
  BY <1>1, <1>3 DEF Check, Lock, Activate
<1>4. CASE WriteVerdict(a) \/ GiveUp(a)
  BY <1>1, <1>4 DEF WriteVerdict, GiveUp
<1>5. CASE \E r \in Rel : Request(a, r) \/ Revalidate(a, r)
  BY <1>1, <1>5 DEF Request, Revalidate
<1> QED BY <1>2, <1>3, <1>4, <1>5 DEF Handling

LEMMA OnBaseGrows ==
  ASSUME Grows, NEW a \in Admin, OnBase(a), at'[a] = at[a], req'[a] = req[a]
  PROVE  OnBase(a)'
BY DEF Grows, Kept, OnBase

LEMMA PublishedKept == PInv /\ [Next]_vars => PInv'
<1> SUFFICES ASSUME PInv, [Next]_vars PROVE PInv'
  OBVIOUS
<1>1. TypeOK /\ TypeOK' /\ Grows /\ Lineage'
  BY TypeKept, AllGrow, LineageKept DEF PInv, Lineage
<1>2. ASSUME UNCHANGED workVars PROVE PInv'
  <2>1. \A a \in Admin : at'[a] = at[a] /\ req'[a] = req[a]
    BY <1>2 DEF workVars
  <2> QED BY <1>1, <2>1, OnBaseGrows DEF PInv
<1>3. CASE UNCHANGED vars
  BY <1>2, <1>3 DEF vars, workVars
<1>4. CASE Drafting
  BY <1>2, <1>4 DEF Drafting, Edit, Discard
<1>5. CASE Compiling
  BY <1>2, <1>5 DEF Compiling, Candidate
<1>6. CASE Replaying
  BY <1>2, <1>6 DEF Replaying, Replay
<1>7. ASSUME NEW a \in Admin, Handling(a) PROVE PInv'
  <2>1. \A o \in Admin \ {a} : req'[o].by = "publish" => OnBase(o)'
    BY <1>1, <1>7, OthersStay, OnBaseGrows DEF PInv
  <2> SUFFICES ASSUME req'[a].by = "publish" PROVE OnBase(a)'
    BY <1>1, <2>1 DEF PInv
  <2>2. at \in [Admin -> Stages] /\ req \in [Admin -> Requests]
    BY <1>1 DEF TypeOK
  <2>3. CASE Publish(a)
    <3>1. PICK b \in Active, x \in Rel :
            req' = [req EXCEPT ![a] =
              [Blank EXCEPT !.by = IF x = b THEN "publish" ELSE "stale",
                            !.base = b, !.refs = Pending(b), !.expects = x]]
      BY <2>3 DEF Publish, Active, Shown
    <3>2. /\ req'[a].by = IF x = b THEN "publish" ELSE "stale"
          /\ req'[a].base = b /\ req'[a].expects = x
      BY <3>1, <2>2 DEF Blank
    <3>3. at'[a] = "collected"
      BY <2>2, <2>3 DEF Publish
    <3> QED BY <3>2, <3>3 DEF OnBase
  <2>4. CASE Compile(a)
    <3>1. PICK r \in Rel :
            /\ Persist(req[a].base, req[a].refs, r)
            /\ req' = [req EXCEPT ![a] = [@ EXCEPT !.rel = r, !.refs = NoRefs]]
      BY <2>4 DEF Compile
    <3>2. r \in Known' /\ from'[r] = req[a].base
      BY <1>1, <3>1, ReqFields, PersistGrows
    <3>3. /\ req'[a].rel = r /\ req'[a].base = req[a].base
          /\ req'[a].expects = req[a].expects /\ req'[a].by = req[a].by
      BY <3>1, <2>2 DEF Requests
    <3>4. at[a] = "collected" /\ at'[a] \in {"invalid", "compiled"}
      BY <2>2, <2>4 DEF Compile
    <3> QED BY <3>2, <3>3, <3>4 DEF PInv, OnBase
  <2>5. CASE PublishReplay(a)
    <3>1. /\ req'[a].rel = req[a].rel /\ req'[a].expects = req[a].expects
          /\ req'[a].by = req[a].by
      BY <2>2, <2>5 DEF PublishReplay, Requests
    <3>2. at[a] = "compiled" /\ at'[a] = "checking" /\ from' = from
      BY <2>2, <2>5 DEF PublishReplay, releaseVars
    <3>3. OnBase(a)
      BY <3>1 DEF PInv
    <3>4. req[a].rel \in passed'
      BY <2>5, <3>2, <3>3 DEF OnBase, PublishReplay, ReplayRow, ReplayBase, replayVars
    <3>5. req[a].base \in Rel
      BY <1>1, ReqFields
    <3> QED BY <1>1, <3>1, <3>2, <3>3, <3>4, <3>5 DEF OnBase, Grows, Kept
  <2>6. CASE Check(a)
    <3>1. req'[a] = req[a] /\ at[a] = "checking" /\ at'[a] = "checked"
      BY <2>2, <2>6 DEF Check
    <3> QED BY <1>1, <3>1 DEF PInv, OnBase, Grows, Kept
  <2>7. CASE Lock(a)
    <3>1. PICK p \in Rel \cup {NoRel} :
            Expected(a, p) /\ req' = [req EXCEPT ![a] = [@ EXCEPT !.prev = p, !.expects = NoRel]]
      BY <2>7 DEF Lock
    <3>2. req'[a].rel = req[a].rel /\ req'[a].prev = p /\ req'[a].by = req[a].by
      BY <3>1, <2>2 DEF Requests
    <3>3. at[a] = "checked" /\ at'[a] = "locked"
      BY <2>2, <2>7 DEF Lock
    <3>4. p = req[a].expects
      BY <3>1, <3>2 DEF Expected
    <3> QED BY <1>1, <3>2, <3>3, <3>4 DEF PInv, OnBase, Grows, Kept
  <2>8. CASE \/ Activate(a) \/ PublishReplayFails(a) \/ WriteVerdict(a) \/ GiveUp(a)
            \/ \E r \in Rel : Request(a, r) \/ Revalidate(a, r)
    <3>1. CASE req' = [req EXCEPT ![a] = Blank]
      BY <2>2, <3>1 DEF Blank
    <3>2. CASE \/ Activate(a) \/ PublishReplayFails(a) \/ WriteVerdict(a) \/ GiveUp(a)
      BY <3>1, <3>2 DEF Activate, PublishReplayFails, WriteVerdict, GiveUp
    <3>3. CASE \E r \in Rel : Request(a, r) \/ Revalidate(a, r)
      BY <2>2, <3>3 DEF Request, Revalidate, Blank
    <3> QED BY <2>8, <3>2, <3>3
  <2> QED BY <1>7, <2>3, <2>4, <2>5, <2>6, <2>7, <2>8 DEF Handling
<1> QED BY <1>3, <1>4, <1>5, <1>6, <1>7 DEF Next

LEMMA PInvAlways == Spec => []PInv
BY InitPublished, PublishedKept, PTL DEF Spec

(* What a publication puts live was compiled on, and replayed against, the *)
(* release it replaces, unless its client named another one than the       *)
(* server read: whatever other clients name, for any number of requests.   *)
THEOREM PublicationsAreReplayed == Spec => []PublishIsReplayed
<1>1. PInv => PublishIsReplayed
  BY DEF PInv, OnBase, PublishIsReplayed, Replaces
<1> QED BY <1>1, PInvAlways, PTL

(* Neither does it put an edit live in the place of a later one of the     *)
(* same draft, however many drafts a rule has and whatever validators say. *)
THEOREM PublicationsKeepLaterEdits == Spec => []PublishKeepsLaterEdits
<1>1. PInv => PublishKeepsLaterEdits
  <2> SUFFICES ASSUME PInv, NEW a \in Admin, Replaces(a, "publish"), NEW k \in Key
               PROVE  Succeeds(rules[req[a].prev][k], rules[req[a].rel][k])
    BY DEF PublishKeepsLaterEdits
  <2>1. req[a].rel \in Rel /\ req[a].prev = from[req[a].rel] /\ from[req[a].rel] \in Rel
    BY DEF PInv, OnBase, Replaces, Known
  <2>2. from[req[a].rel] # NoRel
    BY <2>1, Constants
  <2> QED BY <2>1, <2>2 DEF PInv, Lineage, Rising
<1> QED BY <1>1, PInvAlways, PTL

----------------------------------------------------------------------------
(* The ACTIVE release.                                                     *)

LEMMA PersistSparesActive ==
  ASSUME TypeOK, NEW b \in Rel, NEW refs \in Refs, NEW r \in Rel, Persist(b, refs, r)
  PROVE  Active' = Active
<1>1. CASE UNCHANGED releaseVars
  BY <1>1 DEF releaseVars, Active
<1>2. CASE r \notin Known /\ ~UNCHANGED releaseVars
  <2>1. /\ \A s \in Rel \ {r} : status'[s] = status[s]
        /\ status[r] # "ACTIVE" /\ status'[r] # "ACTIVE"
    BY <1>2, PersistGrows DEF Known
  <2> QED BY <2>1 DEF Active
<1> QED BY <1>1, <1>2, PersistGrows

(* Only an activation makes a release ACTIVE. *)
LEMMA ActiveSteps ==
  ASSUME TypeOK, [Next]_vars
  PROVE  \/ log' = log /\ Active' \subseteq Active
         \/ Active' = {log'}
<1> USE DEF releaseVars
<1>1. CASE UNCHANGED vars
  BY <1>1 DEF vars, Active
<1>2. CASE Drafting \/ Replaying
  BY <1>2 DEF Drafting, Edit, Discard, Replaying, Replay, Active
<1>3. CASE Compiling
  <2>1. PICK b \in Rel, D \in SUBSET Draft : Candidate(b, D)
    BY <1>3 DEF Compiling
  <2> QED BY <2>1, CandidatePersists, PersistSparesActive DEF Candidate
<1>4. ASSUME NEW a \in Admin, Handling(a)
      PROVE  (log' = log /\ Active' \subseteq Active) \/ Active' = {log'}
  <2>1. CASE Compile(a)
    BY <2>1, ReqFields, PersistSparesActive DEF Compile
  <2>2. CASE Activate(a)
    BY <2>2, ReqFields DEF Activate, IndexAllows, Active
  <2>3. CASE WriteVerdict(a)
    BY <2>3, ReqFields DEF WriteVerdict, Active, TypeOK
  <2>4. CASE UNCHANGED <<status, log>>
    BY <2>4 DEF Active
  <2> QED BY <1>4, <2>1, <2>2, <2>3, <2>4
          DEF Handling, Publish, PublishReplay, PublishReplayFails, Check, Lock, GiveUp,
              Request, Revalidate
<1> QED BY <1>1, <1>2, <1>3, <1>4 DEF Next

(* Never a second ACTIVE release, whatever validators say: none but the    *)
(* one of the newest activation.                                           *)
THEOREM NoSecondActive == Spec => []ActiveIsLast
<1>1. Init => TypeOK /\ ActiveIsLast
  <2>1. Init => ActiveIsLast
    BY DEF Init, ActiveIsLast, Active
  <2> QED BY <2>1, InitTyped
<1>2. (TypeOK /\ ActiveIsLast) /\ [Next]_vars => (TypeOK /\ ActiveIsLast)'
  BY TypeKept, ActiveSteps DEF ActiveIsLast
<1> QED BY <1>1, <1>2, PTL DEF Spec

(* With one validator the status REJECTED says what the content is, and a  *)
(* decision to write it is never out of date.                              *)
Judged ==
  /\ \A r \in Known : status[r] = "REJECTED" <=> ~Valid(rules[r])
  /\ \A a \in Admin :
       /\ at[a] = "validated" =>
            /\ req[a].rel \in Known /\ req[a].write \in {"none", "REJECTED"}
            /\ req[a].write = "REJECTED" => ~Valid(rules[req[a].rel])
       /\ at[a] = "locked" =>
            \A r \in {req[a].rel, req[a].prev} \ {NoRel} : r \in Known /\ Valid(rules[r])

AInv == TypeOK /\ Judged /\ OneActive

LEMMA InitJudged == Init => AInv
<1> SUFFICES ASSUME Init PROVE AInv
  OBVIOUS
<1>1. Valid(rules[Bootstrap])
  BY ConstantsAssumption, Constants DEF Init, Valid, Bare
<1>2. Known = {Bootstrap} /\ Active = {Bootstrap} /\ status[Bootstrap] = "ACTIVE"
  BY Constants DEF Init, Known, Active
<1>3. Judged
  BY <1>1, <1>2 DEF Init, Judged
<1> QED BY <1>2, <1>3, InitTyped DEF Init, AInv, OneActive

LEMMA PersistJudges ==
  ASSUME ~Drift, AInv, NEW b \in Rel, NEW refs \in Refs, NEW r \in Rel,
         Persist(b, refs, r)
  PROVE  \A s \in Known' : status'[s] = "REJECTED" <=> ~Valid(rules'[s])
<1> SUFFICES ASSUME NEW s \in Known'
             PROVE  status'[s] = "REJECTED" <=> ~Valid(rules'[s])
  OBVIOUS
<1>1. TypeOK
  BY DEF AInv
<1>2. CASE UNCHANGED releaseVars
  BY <1>2 DEF releaseVars, AInv, Judged, Known
<1>3. CASE ~UNCHANGED releaseVars /\ s = r
  <2>1. rules'[r] = Compiled(b, refs)
    BY <1>1, PersistGrows
  <2>2. PICK ok \in Verdicts(Compiled(b, refs)) :
          status'[r] = IF ok THEN "VALIDATED" ELSE "REJECTED"
    BY <1>1, <1>3, PersistGrows
  <2>3. ok = Valid(rules'[r])
    BY <2>1, <2>2 DEF Verdicts
  <2> QED BY <1>3, <2>2, <2>3
<1>4. CASE s # r
  <2>1. status'[s] = status[s] /\ rules'[s] = rules[s] /\ s \in Known
    BY <1>1, <1>4, PersistGrows DEF Known
  <2> QED BY <2>1 DEF AInv, Judged
<1> QED BY <1>2, <1>3, <1>4

LEMMA JudgedKept == ~Drift /\ AInv /\ [Next]_vars => AInv'
<1> SUFFICES ASSUME ~Drift, AInv, [Next]_vars PROVE AInv'
  OBVIOUS
<1>1. TypeOK /\ TypeOK' /\ Grows
  BY TypeKept, AllGrow DEF AInv
<1> DEFINE Judging(a) ==
      /\ at[a] = "validated" =>
           /\ req[a].rel \in Known /\ req[a].write \in {"none", "REJECTED"}
           /\ req[a].write = "REJECTED" => ~Valid(rules[req[a].rel])
      /\ at[a] = "locked" =>
           \A r \in {req[a].rel, req[a].prev} \ {NoRel} : r \in Known /\ Valid(rules[r])
<1>2. ASSUME NEW a \in Admin, at'[a] = at[a], req'[a] = req[a] PROVE Judging(a)'
  BY <1>1, <1>2 DEF AInv, Judged, Grows, Kept
<1>3. ASSUME UNCHANGED <<status, rules>>
      PROVE  \A r \in Known' : status'[r] = "REJECTED" <=> ~Valid(rules'[r])
  BY <1>3 DEF AInv, Judged, Known
<1>4. ASSUME UNCHANGED <<at, req, status, rules, log>> PROVE AInv'
  <2>1. \A a \in Admin : Judging(a)'
    BY <1>2, <1>4
  <2>2. OneActive'
    BY <1>4 DEF AInv, OneActive, Active
  <2> QED BY <1>1, <1>3, <1>4, <2>1, <2>2 DEF AInv, Judged
<1> USE DEF releaseVars, workVars
<1>5. CASE UNCHANGED vars
  BY <1>4, <1>5 DEF vars
<1>6. CASE Drafting \/ Replaying
  BY <1>4, <1>6 DEF Drafting, Edit, Discard, Replaying, Replay
<1>7. CASE Compiling
  <2>1. PICK b \in Rel, D \in SUBSET Draft : Candidate(b, D)
    BY <1>7 DEF Compiling
  <2>2. /\ \A r \in Known' : status'[r] = "REJECTED" <=> ~Valid(rules'[r])
        /\ Active' = Active
    BY <1>1, <2>1, CandidatePersists, PersistJudges, PersistSparesActive DEF Candidate
  <2>3. \A a \in Admin : Judging(a)'
    BY <1>2, <2>1 DEF Candidate
  <2>4. log' = log
    BY <2>1 DEF Candidate
  <2> QED BY <1>1, <2>2, <2>3, <2>4 DEF AInv, Judged, OneActive
<1>8. ASSUME NEW a \in Admin, Handling(a) PROVE AInv'
  <2>1. \A o \in Admin \ {a} : Judging(o)'
    BY <1>1, <1>2, <1>8, OthersStay
  <2> SUFFICES /\ \A r \in Known' : status'[r] = "REJECTED" <=> ~Valid(rules'[r])
               /\ Judging(a)' /\ OneActive'
    BY <1>1, <2>1 DEF AInv, Judged
  <2>2. at \in [Admin -> Stages] /\ req \in [Admin -> Requests]
    BY <1>1 DEF TypeOK
  <2>3. ASSUME UNCHANGED <<status, rules, log>>, Judging(a)'
        PROVE  /\ \A r \in Known' : status'[r] = "REJECTED" <=> ~Valid(rules'[r])
               /\ Judging(a)' /\ OneActive'
    BY <1>3, <2>3 DEF AInv, OneActive, Active
  <2>4. CASE Compile(a)
    <3>1. at'[a] \in {"invalid", "compiled"} /\ log' = log
      BY <2>2, <2>4 DEF Compile
    <3>2. /\ \A r \in Known' : status'[r] = "REJECTED" <=> ~Valid(rules'[r])
          /\ Active' = Active
      BY <1>1, <2>4, ReqFields, PersistJudges, PersistSparesActive DEF Compile
    <3> QED BY <3>1, <3>2 DEF AInv, OneActive
  <2>5. CASE Lock(a)
    <3>1. PICK p \in Rel \cup {NoRel} :
            IsActive(p) /\ req' = [req EXCEPT ![a] = [@ EXCEPT !.prev = p, !.expects = NoRel]]
      BY <2>5 DEF Lock
    <3>2. req'[a].rel = req[a].rel /\ req'[a].prev = p /\ at'[a] = "locked"
      BY <2>2, <2>5, <3>1 DEF Lock, Requests
    <3>3. req[a].rel \in Rel /\ status[req[a].rel] \in {"VALIDATED", "SUPERSEDED"}
      BY <1>1, <2>5, ReqFields DEF Lock, Activatable
    <3>4. p # NoRel => p \in Rel /\ status[p] = "ACTIVE"
      BY <3>1 DEF IsActive, Active
    <3>5. \A r \in {req[a].rel, p} \ {NoRel} : r \in Known /\ Valid(rules[r])
      BY <3>3, <3>4 DEF AInv, Judged, Known
    <3>6. UNCHANGED <<status, rules, log>>
      BY <2>5 DEF Lock
    <3>7. Judging(a)'
      BY <3>2, <3>5, <3>6, <1>1 DEF Grows, Kept
    <3> QED BY <2>3, <3>6, <3>7
  <2>6. CASE Activate(a)
    <3> DEFINE c == req[a].rel  p == req[a].prev
    <3>1. /\ at[a] = "locked" /\ Active \subseteq {p} /\ rules' = rules
          /\ status' = [r \in Rel |-> IF r = c THEN "ACTIVE"
                                     ELSE IF r = p THEN "SUPERSEDED" ELSE status[r]]
          /\ log' = c
      BY <2>6 DEF Activate, IndexAllows
    <3>2. c \in Rel
      BY <1>1, ReqFields
    <3>3. \A r \in {c, p} \ {NoRel} : r \in Known /\ Valid(rules[r])
      BY <3>1 DEF AInv, Judged
    <3>4. OneActive'
      BY <3>1, <3>2 DEF OneActive, Active
    <3>5. ASSUME NEW r \in Known'
          PROVE  status'[r] = "REJECTED" <=> ~Valid(rules'[r])
      <4>1. r \in Rel /\ r # NoRel
        BY Constants DEF Known
      <4>2. CASE r \in {c, p}
        BY <3>1, <3>3, <4>1, <4>2
      <4>3. CASE r \notin {c, p}
        <5>1. status'[r] = status[r] /\ r \in Known
          BY <3>1, <4>1, <4>3 DEF Known
        <5> QED BY <3>1, <5>1 DEF AInv, Judged
      <4> QED BY <4>2, <4>3
    <3>6. at'[a] = "idle"
      BY <2>2, <2>6 DEF Activate
    <3> QED BY <3>4, <3>5, <3>6
  <2>7. CASE WriteVerdict(a)
    <3>1. /\ req[a].rel \in Known /\ req[a].write \in {"none", "REJECTED"}
          /\ req[a].write = "REJECTED" => ~Valid(rules[req[a].rel])
      BY <2>7 DEF WriteVerdict, AInv, Judged
    <3>2. req[a].write = "REJECTED" => status[req[a].rel] = "REJECTED"
      BY <3>1 DEF AInv, Judged
    <3>3. UNCHANGED <<status, rules, log>>
      BY <1>1, <2>7, <3>1, <3>2 DEF WriteVerdict, TypeOK
    <3>4. at'[a] = "idle"
      BY <2>2, <2>7 DEF WriteVerdict
    <3> QED BY <2>3, <3>3, <3>4
  <2>8. ASSUME NEW r \in Rel, Revalidate(a, r)
        PROVE  /\ \A s \in Known' : status'[s] = "REJECTED" <=> ~Valid(rules'[s])
               /\ Judging(a)' /\ OneActive'
    <3>1. PICK ok \in Verdicts(rules[r]) :
            req' = [req EXCEPT ![a] = [Blank EXCEPT !.rel = r,
                      !.write = NewStatus(status[r], ok), !.ok = ok]]
      BY <2>8 DEF Revalidate
    <3>2. r \in Known /\ at'[a] = "validated"
      BY <2>2, <2>8 DEF Revalidate
    <3>3. ok = Valid(rules[r])
      BY DEF Verdicts
    <3>4. ok => status[r] # "REJECTED"
      BY <3>2, <3>3 DEF AInv, Judged
    <3>5. NewStatus(status[r], ok) = IF ~ok /\ status[r] \notin {"ACTIVE", "SUPERSEDED"}
                                     THEN "REJECTED" ELSE "none"
      BY <3>4 DEF NewStatus
    <3>6. req'[a].rel = r /\ req'[a].write = NewStatus(status[r], ok)
      BY <2>2, <3>1 DEF Blank
    <3>7. UNCHANGED <<status, rules, log>>
      BY <2>8 DEF Revalidate
    <3>8. Judging(a)'
      BY <1>1, <3>2, <3>3, <3>5, <3>6, <3>7 DEF Grows, Kept
    <3> QED BY <2>3, <3>7, <3>8
  <2>9. CASE \/ Publish(a) \/ PublishReplay(a) \/ PublishReplayFails(a)
            \/ Check(a) \/ GiveUp(a) \/ \E r \in Rel : Request(a, r)
    <3>1. UNCHANGED <<status, rules, log>>
      BY <2>9 DEF Publish, PublishReplay, PublishReplayFails, Check, GiveUp, Request
    <3>2. at'[a] \notin {"validated", "locked"}
      BY <2>2, <2>9 DEF Publish, PublishReplay, PublishReplayFails, Check, GiveUp, Request
    <3> QED BY <2>3, <3>1, <3>2
  <2> QED BY <1>8, <2>4, <2>5, <2>6, <2>7, <2>8, <2>9 DEF Handling
<1> QED BY <1>5, <1>6, <1>7, <1>8 DEF Next

(* If all processes of the API validate alike there always is one ACTIVE   *)
(* release, that of the newest activation: no revalidation undoes it.      *)
THEOREM AlwaysOneActive == ~Drift => (Spec => []OneActive)
<1> SUFFICES ASSUME ~Drift PROVE Spec => []OneActive
  OBVIOUS
<1>1. AInv /\ [Next]_vars => AInv'
  BY JudgedKept
<1>2. AInv => OneActive
  BY DEF AInv
<1> QED BY <1>1, <1>2, InitJudged, PTL DEF Spec
=============================================================================
