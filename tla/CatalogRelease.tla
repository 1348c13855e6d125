--------------------------- MODULE CatalogRelease ---------------------------
(***************************************************************************)
(* Releases of the ability catalog (apps/api/src/services/                 *)
(* ability-catalog-*-service.ts).  Administrators edit draft rules; to     *)
(* publish is to compile the pending drafts on top of the ACTIVE release,  *)
(* to validate and replay the result, and to activate it.  Any release may *)
(* also be compiled, revalidated, replayed, activated or rolled back to by *)
(* hand.  Each is a request of several calls to the database, and several  *)
(* requests are under way at once.                                         *)
(*                                                                         *)
(* A draft is a row of its own: a rule's key may have a manual draft and   *)
(* drafts of several review items, and a draft stays when it has been      *)
(* published.  A rule's content is the number of the edit that wrote it,   *)
(* 0 in the bootstrap release.  Left out: drafts that are not READY or add *)
(* a key, exclusions, removals, drafts of the topology, stored artifacts.  *)
(***************************************************************************)
EXTENDS Integers

CONSTANTS
  Admin,     (* requests of administrators that may be under way at once   *)
  Key,       (* canonical keys of rules                                    *)
  Draft,     (* draft rows                                                 *)
  KeyOf,     (* per draft: the key of its rule                             *)
  MaxRel,    (* bound: releases ever compiled                              *)
  MaxEdits,  (* bound: edits ever saved                                    *)
  Refused,   (* edits that make the validator refuse a release             *)
  Drift,     (* TRUE: API processes may run different validators           *)
  Claims     (* TRUE: a client that publishes may name another release     *)
             (* than the ACTIVE one as that which it replaces              *)

Rel       == 1..MaxRel
NoRel     == 0
Bootstrap == 1

ASSUME ConstantsAssumption ==
  /\ MaxRel \in Nat \ {0} /\ MaxEdits \in Nat
  /\ KeyOf \in [Draft -> Key]
  /\ Refused \subseteq 1..MaxEdits
  /\ Drift \in BOOLEAN /\ Claims \in BOOLEAN

VARIABLES
  status,    (* per release: its status; "none": no such row               *)
  failing,   (* releases whose validationStatus is FAIL                    *)
  from,      (* per release: previousReleaseId, the base it was compiled on*)
  manifest,  (* per release: the keys whose drafts were compiled into it   *)
  rules,     (* per release: the edit of every rule                        *)
  gate,      (* releases whose newest replay PASSED                        *)
  passed,    (* releases that have passed a replay against their base      *)
  log,       (* the release of the newest activation row                   *)
  draft,     (* per draft: the edit it holds, 0 for no READY row           *)
  edits,     (* edits saved so far                                         *)
  saved,     (* per draft: all its edits so far; it decides nothing        *)
  at,        (* what a request does next                                   *)
  req,       (* what a request has read or was told                        *)
  locks      (* rows that a request has locked                             *)

releaseVars == <<status, failing, from, manifest, rules>>
replayVars  == <<gate, passed>>
draftVars   == <<draft, edits, saved>>
workVars    == <<at, req, locks>>
vars == <<status, failing, from, manifest, rules, gate, passed, log, draft, edits,
          saved, at, req, locks>>

Edits  == 1..MaxEdits
Bare   == [k \in Key |-> 0]       \* the rules of the bootstrap release
NoRefs == [d \in Draft |-> 0]
Blank  == [rel |-> Bootstrap, base |-> Bootstrap, refs |-> NoRefs, by |-> "hand",
           expects |-> NoRel, prev |-> NoRel, write |-> "none", ok |-> FALSE]

Known  == {r \in Rel : status[r] # "none"}
Active == {r \in Rel : status[r] = "ACTIVE"}

Init ==
  /\ status   = [r \in Rel |-> IF r = Bootstrap THEN "ACTIVE" ELSE "none"]
  /\ failing  = {}
  /\ from     = [r \in Rel |-> NoRel]
  /\ manifest = [r \in Rel |-> {}]
  /\ rules    = [r \in Rel |-> Bare]
  /\ gate     = {Bootstrap}
  /\ passed   = {}
  /\ log      = Bootstrap
  /\ draft    = NoRefs
  /\ edits    = 0
  /\ saved    = [d \in Draft |-> {}]
  /\ at       = [a \in Admin |-> "idle"]
  /\ req      = [a \in Admin |-> Blank]
  /\ locks    = [a \in Admin |-> {}]

----------------------------------------------------------------------------
(* Drafts. *)

Edit(d) ==
  /\ edits < MaxEdits
  /\ edits' = edits + 1
  /\ draft' = [draft EXCEPT ![d] = edits + 1]
  /\ saved' = [saved EXCEPT ![d] = @ \cup {edits + 1}]
  /\ UNCHANGED <<releaseVars, replayVars, log, workVars>>

Discard(d) ==
  /\ draft[d] # 0
  /\ draft' = [draft EXCEPT ![d] = 0]
  /\ UNCHANGED <<releaseVars, replayVars, log, edits, saved, workVars>>

----------------------------------------------------------------------------
(* Compilation. *)

(* All READY drafts that would change the base are pending, an older one   *)
(* of a rule too whose newer draft is live.                                *)
Pending(b) == [d \in Draft |-> IF draft[d] = rules[b][KeyOf[d]] THEN 0 ELSE draft[d]]

(* Every reference names the version that its draft has now.               *)
Current(refs) == \A d \in Draft : refs[d] \in {0, draft[d]}

Named(refs) == {d \in Draft : refs[d] # 0}

(* No two references are to one rule (CONTRADICTORY_CHANGESET).            *)
Consistent(refs) == \A d, o \in Named(refs) : KeyOf[d] = KeyOf[o] => d = o

Included(refs)    == {KeyOf[d] : d \in Named(refs)}
Compiled(b, refs) ==
  [k \in Key |-> IF k \in Included(refs)
                 THEN refs[CHOOSE d \in Named(refs) : KeyOf[d] = k] ELSE rules[b][k]]

(* What a validator may say of a content.                                  *)
Valid(content)    == \A k \in Key : content[k] \notin Refused
Verdicts(content) == IF Drift THEN BOOLEAN ELSE {Valid(content)}

(* The digest covers base, rules, manifest and notes: with the notes of an *)
(* earlier compilation its row is returned, with others one is inserted.   *)
Reuse(b, refs, r) ==
  /\ r \in Known /\ from[r] = b
  /\ manifest[r] = Included(refs) /\ rules[r] = Compiled(b, refs)
  /\ UNCHANGED releaseVars

Insert(b, refs, r) ==
  /\ r \notin Known /\ \A s \in Rel : s < r => s \in Known
  /\ \E ok \in Verdicts(Compiled(b, refs)) :
       /\ status'  = [status EXCEPT ![r] = IF ok THEN "VALIDATED" ELSE "REJECTED"]
       /\ failing' = IF ok THEN failing ELSE failing \cup {r}
  /\ from'     = [from EXCEPT ![r] = b]
  /\ manifest' = [manifest EXCEPT ![r] = Included(refs)]
  /\ rules'    = [rules EXCEPT ![r] = Compiled(b, refs)]

Persist(b, refs, r) == Reuse(b, refs, r) \/ Insert(b, refs, r)

(* POST releases/candidates: any base, any drafts.  If it finds its row it *)
(* changes nothing.                                                        *)
Chosen(D) == [d \in Draft |-> IF d \in D THEN draft[d] ELSE 0]

Candidate(b, D) ==
  /\ b \in Known /\ Chosen(D) # NoRefs /\ Consistent(Chosen(D))
  /\ \E r \in Rel : Insert(b, Chosen(D), r)
  /\ UNCHANGED <<replayVars, log, draftVars, workVars>>

----------------------------------------------------------------------------
(* Replays.  A row of the same base, candidate and corpus that PASSED is   *)
(* used again; one that FAILED makes the insertion fail (GiveUp).          *)

ReplayRow(b, c, pass) ==
  /\ gate'   = IF pass THEN gate \cup {c} ELSE gate \ {c}
  /\ passed' = IF pass /\ b = from[c] THEN passed \cup {c} ELSE passed

Replay(b, c) ==
  /\ b \in Known /\ c \in Known
  /\ \E pass \in BOOLEAN : ReplayRow(b, c, pass)
  /\ UNCHANGED <<releaseVars, log, draftVars, workVars>>

----------------------------------------------------------------------------
(* publishChanges.  The client may say which release it takes for the      *)
(* ACTIVE one: the web client sends the one its page was loaded with.  A   *)
(* publication whose client names another one than is read here is stale.  *)

Shown == {r \in Rel : status[r] \in {"ACTIVE", "SUPERSEDED"}}

Publish(a) ==
  /\ at[a] = "idle"
  /\ \E b \in Active : \E x \in IF Claims THEN Shown ELSE {b} :
       /\ Pending(b) # NoRefs
       /\ req' = [req EXCEPT ![a] =
            [Blank EXCEPT !.by = IF x = b THEN "publish" ELSE "stale",
                          !.base = b, !.refs = Pending(b), !.expects = x]]
  /\ at' = [at EXCEPT ![a] = "collected"]
  /\ UNCHANGED <<releaseVars, replayVars, log, draftVars, locks>>

Compile(a) ==
  /\ at[a] = "collected" /\ Current(req[a].refs) /\ Consistent(req[a].refs)
  /\ \E r \in Rel :
       /\ Persist(req[a].base, req[a].refs, r)
       /\ req' = [req EXCEPT ![a] = [@ EXCEPT !.rel = r, !.refs = NoRefs]]
       /\ at'  = [at EXCEPT ![a] = IF status'[r] = "REJECTED" \/ r \in failing'
                                   THEN "invalid" ELSE "compiled"]
  /\ UNCHANGED <<replayVars, log, draftVars, locks>>

ReplayBaseDefault(a) == req[a].rel    \* mutant: runReplay's default base
ReplayBase(a)        == req[a].base

PublishReplay(a) ==
  /\ at[a] = "compiled"
  /\ \/ req[a].rel \in passed /\ UNCHANGED replayVars
     \/ ReplayRow(ReplayBase(a), req[a].rel, TRUE)
  /\ at'  = [at EXCEPT ![a] = "checking"]
  /\ req' = [req EXCEPT ![a].base = Bootstrap]
  /\ UNCHANGED <<releaseVars, log, draftVars, locks>>

PublishReplayFails(a) ==
  /\ at[a] = "compiled"
  /\ ReplayRow(ReplayBase(a), req[a].rel, FALSE)
  /\ at'  = [at EXCEPT ![a] = "idle"]
  /\ req' = [req EXCEPT ![a] = Blank]
  /\ UNCHANGED <<releaseVars, log, draftVars, locks>>

----------------------------------------------------------------------------
(* activate: the checks, then a transaction at READ COMMITTED that locks   *)
(* rows, looks again and writes.                                           *)

Activatable(r) == status[r] \in {"VALIDATED", "SUPERSEDED"}
Passes(r)      == Activatable(r) /\ r \in gate

Check(a) ==
  /\ at[a] = "checking" /\ Passes(req[a].rel)
  /\ at' = [at EXCEPT ![a] = "checked"]
  /\ UNCHANGED <<releaseVars, replayVars, log, draftVars, req, locks>>

(* POST releases/:id/activate and /rollback begin with the checks.         *)
Request(a, r) ==
  /\ at[a] = "idle" /\ Passes(r)
  /\ req' = [req EXCEPT ![a] = [Blank EXCEPT !.rel = r]]
  /\ at'  = [at EXCEPT ![a] = "checked"]
  /\ UNCHANGED <<releaseVars, replayVars, log, draftVars, locks>>

UnlockedAlways(a, r) == TRUE                       \* mutant: no FOR UPDATE
Unlocked(a, r)       == \A o \in Admin \ {a} : r \notin locks[o]

(* findFirst({status: "ACTIVE"})?.id ?? null                               *)
IsActive(r)    == IF Active = {} THEN r = NoRel ELSE r \in Active

ExpectedAny(a, p) == TRUE                          \* mutant: no expectation sent
Expected(a, p)    == req[a].by # "hand" => p = req[a].expects

(* SELECT FOR UPDATE locks the release and the ACTIVE row, but no row that *)
(* became ACTIVE after the statement chose its rows; whether that happened *)
(* is left open.                                                           *)
Lock(a) ==
  LET c == req[a].rel IN
  /\ at[a] = "checked" /\ Activatable(c)
  /\ \E p \in Rel \cup {NoRel} :
       /\ IsActive(p) /\ Expected(a, p)
       /\ req' = [req EXCEPT ![a] = [@ EXCEPT !.prev = p, !.expects = NoRel]]
  /\ \E L \in {{c}, {c} \cup Active} :
       /\ \A r \in L : Unlocked(a, r)
       /\ locks' = [locks EXCEPT ![a] = L]
  /\ at' = [at EXCEPT ![a] = "locked"]
  /\ UNCHANGED <<releaseVars, replayVars, log, draftVars>>

(* The partial unique index: no second ACTIVE row.                         *)
IndexAllowsAny(p) == TRUE                          \* mutant: no index
IndexAllows(p)    == Active \subseteq {p}

Activate(a) ==
  LET c == req[a].rel  p == req[a].prev IN
  /\ at[a] = "locked" /\ Unlocked(a, p) /\ IndexAllows(p)
  /\ status' = [r \in Rel |-> IF r = c THEN "ACTIVE"
                              ELSE IF r = p THEN "SUPERSEDED" ELSE status[r]]
  /\ log'   = c
  /\ locks' = [locks EXCEPT ![a] = {}]
  /\ at'    = [at EXCEPT ![a] = "idle"]
  /\ req'   = [req EXCEPT ![a] = Blank]
  /\ UNCHANGED <<failing, from, manifest, rules, replayVars, draftVars>>

----------------------------------------------------------------------------
(* revalidateRelease reads the row, and writes what it decided on that in  *)
(* a later transaction.  A publication that does not validate ends with it.*)

NewStatus(old, ok) ==
  CASE ok /\ old = "REJECTED"                     -> "VALIDATED"
    [] ~ok /\ old \notin {"ACTIVE", "SUPERSEDED"} -> "REJECTED"
    [] OTHER                                      -> "none"

Revalidate(a, r) ==
  /\ at[a] = "idle" \/ (at[a] = "invalid" /\ r = req[a].rel)
  /\ r \in Known
  /\ \E ok \in Verdicts(rules[r]) :
       req' = [req EXCEPT ![a] =
                 [Blank EXCEPT !.rel = r, !.write = NewStatus(status[r], ok), !.ok = ok]]
  /\ at' = [at EXCEPT ![a] = "validated"]
  /\ UNCHANGED <<releaseVars, replayVars, log, draftVars, locks>>

WriteVerdict(a) ==
  LET r == req[a].rel IN
  /\ at[a] = "validated" /\ Unlocked(a, r)
  /\ status'  = IF req[a].write = "none" THEN status
                ELSE [status EXCEPT ![r] = req[a].write]
  /\ failing' = IF req[a].ok THEN failing \ {r} ELSE failing \cup {r}
  /\ at'  = [at EXCEPT ![a] = "idle"]
  /\ req' = [req EXCEPT ![a] = Blank]
  /\ UNCHANGED <<from, manifest, rules, replayVars, log, draftVars, locks>>

(* A check refuses, a call fails, or the API dies; a transaction is rolled *)
(* back.                                                                   *)
GiveUp(a) ==
  /\ at[a] # "idle"
  /\ at'    = [at EXCEPT ![a] = "idle"]
  /\ req'   = [req EXCEPT ![a] = Blank]
  /\ locks' = [locks EXCEPT ![a] = {}]
  /\ UNCHANGED <<releaseVars, replayVars, log, draftVars>>

----------------------------------------------------------------------------
Drafting  == \E d \in Draft : Edit(d) \/ Discard(d)
Compiling == \E b \in Rel, D \in SUBSET Draft : Candidate(b, D)
Replaying == \E c \in Rel : \E b \in {from[c], c} : Replay(b, c)

Handling(a) ==
  \/ Publish(a) \/ Compile(a) \/ PublishReplay(a) \/ PublishReplayFails(a)
  \/ Check(a) \/ Lock(a) \/ Activate(a) \/ WriteVerdict(a) \/ GiveUp(a)
  \/ \E r \in Rel : Request(a, r) \/ Revalidate(a, r)

Next == Drafting \/ Compiling \/ Replaying \/ \E a \in Admin : Handling(a)

Spec == Init /\ [][Next]_vars

----------------------------------------------------------------------------
Statuses == {"none", "VALIDATED", "REJECTED", "ACTIVE", "SUPERSEDED"}
Stages   == {"idle", "collected", "compiled", "invalid", "checking", "checked",
             "locked", "validated"}
Contents == [Key -> 0..MaxEdits]
Refs     == [Draft -> 0..MaxEdits]
Kinds    == {"hand", "publish", "stale"}
Requests == [rel : Rel, base : Rel, refs : Refs, by : Kinds,
             expects : Rel \cup {NoRel}, prev : Rel \cup {NoRel},
             write : {"none", "VALIDATED", "REJECTED"}, ok : BOOLEAN]

(* Types, and the rows' locks: only a transaction under way holds any, and *)
(* no two hold one row.                                                    *)
TypeOK ==
  /\ status \in [Rel -> Statuses] /\ failing \subseteq Rel
  /\ from \in [Rel -> Rel \cup {NoRel}] /\ manifest \in [Rel -> SUBSET Key]
  /\ rules \in [Rel -> Contents]
  /\ gate \subseteq Rel /\ passed \subseteq Rel
  /\ log \in Rel
  /\ draft \in Refs /\ edits \in 0..MaxEdits /\ saved \in [Draft -> SUBSET Edits]
  /\ at \in [Admin -> Stages] /\ req \in [Admin -> Requests]
  /\ locks \in [Admin -> SUBSET Rel]
  /\ \A a \in Admin : locks[a] # {} => at[a] = "locked"
  /\ \A a, o \in Admin : a # o => locks[a] \cap locks[o] = {}

(* However activations, rollbacks and revalidations overlap, there is one  *)
(* ACTIVE release, the one of the newest activation row: what a request    *)
(* decided on a status it read earlier never undoes an activation.  With   *)
(* two, or none, jobs would pin another catalog than the one shown, or be  *)
(* refused.  (activate, revalidateRelease.)                                *)
OneActive == Active = {log}

(* Part of it: no second release is ever ACTIVE.                           *)
ActiveIsLast == Active \subseteq {log}

(* Content w may follow content v of a rule: an edit, and if v is one of   *)
(* the same draft a later one.                                             *)
Succeeds(v, w) ==
  v = w \/ (w # 0 /\ \A d \in Draft : {v, w} \subseteq saved[d] => v < w)

(* The transaction of a publication of kind K has read what it replaces.   *)
Replaces(a, K) == at[a] = "locked" /\ req[a].by = K

(* A publication never puts an edit live in the place of a later edit of   *)
(* the same draft, nor takes a rule back to the bootstrap, although it was *)
(* compiled on an older reading of the ACTIVE release and of the drafts.   *)
(* Between two drafts of a rule there is no such order.  (publishChanges.) *)
PublishKeepsLaterEdits ==
  \A a \in Admin : Replaces(a, "publish") =>
    \A k \in Key : Succeeds(rules[req[a].prev][k], rules[req[a].rel][k])

(* So that a live edit stays until a later one is published; the code does *)
(* not have it: a published draft stays READY.                             *)
PublishNeverRegresses ==
  \A a \in Admin : Replaces(a, "publish") =>
    \A k \in Key : rules[req[a].prev][k] <= rules[req[a].rel][k]

(* What a publication puts live was compiled on the release it replaces,   *)
(* and passed a replay against that very release, whatever was replayed or *)
(* activated by hand meanwhile, by clients with stale pages too.           *)
(* (publishChanges, latestReplayGate.)                                     *)
PublishIsReplayed ==
  \A a \in Admin : Replaces(a, "publish") =>
    from[req[a].rel] = req[a].prev /\ req[a].rel \in passed

(* The same of clients with stale pages: the code does not have it.        *)
StaleIsReplayed ==
  \A a \in Admin : Replaces(a, "stale") =>
    from[req[a].rel] = req[a].prev /\ req[a].rel \in passed

=============================================================================
