----------------------- MODULE SourceFightLeaseProofs -----------------------
(***************************************************************************)
(* Theorems about SourceFightLease, for any number of callers.  The lease  *)
(* alone does not keep fetches apart: late heartbeats, deletions and       *)
(* completions of callers that are almost done may take it from its owner. *)
(* They do so only once the package is stored, and that is the invariant.  *)
(***************************************************************************)
EXTENDS SourceFightLease, TLAPS

Mine(c) == Start(c) \/ Ask(c) \/ Claim(c) \/ LookAgain(c) \/ Reload(c) \/ Clear(c)
           \/ Wait(c) \/ LastLook(c) \/ Confirm(c) \/ CloseKey(c) \/ Seal(c) \/ Work(c)
           \/ Store(c) \/ Complete(c) \/ Mark(c) \/ Release(c) \/ Drop(c) \/ Settle(c)
           \/ Reuse(c) \/ TimeOut(c) \/ Throw(c) \/ Beat(c) \/ Die(c)

(* A step is one of some caller, or the key lapses. *)
LEMMA StepOfSomeone ==
  ASSUME Next
  PROVE  (\E c \in Caller : Mine(c)) \/ Lapse
BY DEF Next, Step, Acquire, Own, Mine

(* No step of a caller moves another one, nor takes a stored package away. *)
LEMMA MovesAlone ==
  ASSUME TypeOK, NEW c \in Caller, Mine(c)
  PROVE  /\ \E at : pc' = [pc EXCEPT ![c] = at]
         /\ (package' = package) \/ (Store(c) /\ package' = TRUE)
<1>1. pc = [pc EXCEPT ![c] = pc[c]]
  BY DEF TypeOK
<1>2. QED
  BY <1>1 DEF Mine, Start, Ask, Claim, LookAgain, Reload, Clear, Wait, LastLook, Confirm,
     CloseKey, Seal, Work, Store, Complete, Mark, Release, Drop, Settle, Reuse, TimeOut,
     Throw, Beat, Die, Finds, Moves, Goes

(* Only the end of the work can leave a marker that nothing backs.          *)
LEMMA WhoMarks ==
  ASSUME TypeOK, NEW c \in Caller, Mine(c)
  PROVE  IF Mark(c) THEN package' = package /\ unbacked' = (unbacked \/ ~package)
                    ELSE unbacked' = unbacked
BY DEF Mine, Start, Ask, Claim, LookAgain, Reload, Clear, Wait, LastLook, Confirm,
   CloseKey, Seal, Work, Store, Complete, Mark, Release, Drop, Settle, Reuse, TimeOut,
   Throw, Beat, Die, Finds, Moves, Goes

----------------------------------------------------------------------------
(* Rows, keys and callers keep their types, whatever fails. *)
THEOREM LeaseTypeCorrect == Spec => []TypeOK
<1>1. Init => TypeOK
  BY DEF Init, TypeOK, Absent
<1>2. TypeOK /\ [Next]_vars => TypeOK'
  <2> SUFFICES ASSUME TypeOK, [Next]_vars PROVE TypeOK'
    OBVIOUS
  <2>1. CASE UNCHANGED vars
    BY <2>1 DEF vars, TypeOK
  <2>2. CASE Lapse
    BY <2>2 DEF Lapse, TypeOK
  <2>3. ASSUME NEW c \in Caller, Mine(c) PROVE TypeOK'
    <3>1. CASE Start(c) \/ Ask(c) \/ LookAgain(c) \/ Reload(c) \/ Wait(c) \/ LastLook(c)
               \/ TimeOut(c)
      BY <3>1 DEF Start, Ask, LookAgain, Reload, Wait, LastLook, TimeOut, Finds, Moves,
         Goes, TypeOK, Absent, Ready, Owned
    <3>2. CASE Claim(c) \/ Clear(c) \/ Seal(c) \/ Store(c) \/ Mark(c) \/ Drop(c) \/ Beat(c)
      BY <3>2 DEF Claim, Clear, Seal, Store, Mark, Drop, Beat, Moves, Goes, TypeOK
    <3>3. CASE Confirm(c) \/ CloseKey(c) \/ Work(c) \/ Complete(c) \/ Release(c) \/ Settle(c)
               \/ Reuse(c) \/ Throw(c)
      BY <3>3 DEF Confirm, CloseKey, Work, Complete, Release, Settle, Reuse, Throw, Finds,
         Moves, Goes, TypeOK
    <3>4. CASE Die(c)
      BY <3>4 DEF Die, Moves, Goes, TypeOK
    <3>5. QED
      BY <2>3, <3>1, <3>2, <3>3, <3>4 DEF Mine
  <2>4. QED
    BY <2>1, <2>2, <2>3, StepOfSomeone
<1>3. QED
  BY <1>1, <1>2, PTL DEF Spec

----------------------------------------------------------------------------
(* Where a caller that fetches what is missing can only be when the package*)
(* is stored.                                                              *)
Supplied == {"closing", "sealing", "reusing", "completing", "marking", "marked",
              "leaving", "done"}

SuppliedIsStored == \A c \in Live : pc[c] \in Supplied => package

LEMMA SuppliedStep ==
  ASSUME TypeOK, SuppliedIsStored, [Next]_vars
  PROVE  SuppliedIsStored'
<1> USE CallersAssumption
<1>1. CASE UNCHANGED vars
  BY <1>1 DEF vars, SuppliedIsStored
<1>2. CASE Lapse
  BY <1>2 DEF Lapse, SuppliedIsStored
<1>3. ASSUME NEW c \in Caller, Mine(c) PROVE SuppliedIsStored'
  <2>1. CASE package
    BY <1>3, <2>1, MovesAlone DEF SuppliedIsStored
  <2>2. CASE ~package /\ Store(c)
    BY <2>2 DEF Store, SuppliedIsStored
  <2>3. CASE ~package /\ ~Store(c)
    <3>1. c \in Live => pc[c] \notin Supplied
      BY <2>3 DEF SuppliedIsStored
    <3>2. c \in Live => pc'[c] \notin Supplied
      <4>1. CASE Start(c) \/ Ask(c) \/ Claim(c) \/ LookAgain(c) \/ Reload(c) \/ Clear(c)
        BY <2>3, <3>1, <4>1 DEF Start, Ask, Claim, LookAgain, Reload, Clear, Finds, Moves, Goes,
           Supplied, TypeOK, Absent, Ready, Owned
      <4>2. CASE Wait(c) \/ LastLook(c) \/ Confirm(c) \/ CloseKey(c) \/ Seal(c) \/ Work(c)
        BY <2>3, <3>1, <4>2 DEF Wait, LastLook, Confirm, CloseKey, Seal, Work, Finds, Moves, Goes,
           Supplied, TypeOK
      <4>3. CASE Complete(c) \/ Mark(c) \/ Release(c) \/ Drop(c) \/ Settle(c) \/ Reuse(c)
        BY <2>3, <3>1, <4>3 DEF Complete, Mark, Release, Drop, Settle, Reuse, Moves, Goes,
           Supplied, TypeOK
      <4>4. CASE TimeOut(c) \/ Throw(c) \/ Beat(c) \/ Die(c)
        BY <2>3, <3>1, <4>4 DEF TimeOut, Throw, Beat, Die, Moves, Goes, Supplied, TypeOK
      <4>5. QED
        BY <1>3, <2>3, <4>1, <4>2, <4>3, <4>4 DEF Mine
    <3>3. QED
      BY <1>3, <2>3, <3>2, MovesAlone DEF SuppliedIsStored, TypeOK
  <2>4. QED
    BY <2>1, <2>2, <2>3
<1>4. QED
  BY <1>1, <1>2, <1>3, StepOfSomeone

(* Whoever fetches what is missing and does not fail leaves with a stored  *)
(* package, also after stalls and next to callers that must not fetch.     *)
THEOREM DoneCallersAreServed == Spec => []DoneMeansStored
<1>1. Init => SuppliedIsStored
  BY CallersAssumption DEF Init, SuppliedIsStored, Supplied
<1>2. TypeOK /\ SuppliedIsStored /\ [Next]_vars => SuppliedIsStored'
  BY SuppliedStep
<1>3. SuppliedIsStored => DoneMeansStored
  BY DEF SuppliedIsStored, Supplied, DoneMeansStored
<1>4. QED
  BY <1>1, <1>2, <1>3, LeaseTypeCorrect, PTL DEF Spec

----------------------------------------------------------------------------
(* What the singleflight needs: nobody stalls for longer than a lease.      *)
Prompt == "stall" \notin Faults

(* While nothing is stored and no marker says otherwise, at most one caller *)
(* holds the lease, the key is there for as long, and nobody believes in a  *)
(* package.                                                                *)
Believing == {"reloading", "clearing", "closing", "sealing", "reusing", "marked"}

OneHolder == \A c, d \in Caller : Holding(c) /\ Holding(d) => c = d
HeldKey   == \A c \in Caller : Holding(c) => key # Absent
NoMarker  == key # Ready /\ \A c \in Caller : pc[c] \notin Believing

Unpaid == ~package /\ ~unbacked => OneHolder /\ HeldKey /\ NoMarker
Paid   == Backed => Fetching = {}

LeaseInv == TypeOK /\ Unpaid /\ Paid

LEMMA UnpaidStep ==
  ASSUME Prompt, LeaseInv, [Next]_vars
  PROVE  Unpaid'
<1> SUFFICES ASSUME ~package', ~unbacked' PROVE (OneHolder /\ HeldKey /\ NoMarker)'
  BY DEF Unpaid
<1> USE DEF LeaseInv
<1>1. CASE UNCHANGED vars
  BY <1>1 DEF vars, Unpaid, OneHolder, HeldKey, NoMarker, Holding
<1>2. CASE Lapse
  BY <1>2 DEF Lapse, Prompt, Unpaid, OneHolder, HeldKey, NoMarker, Holding, Absent, Ready
<1>3. ASSUME NEW c \in Caller, Mine(c) PROVE (OneHolder /\ HeldKey /\ NoMarker)'
  <2>0. ~package /\ ~Store(c)
    BY <1>3, MovesAlone DEF Store
  <2>1. ~package /\ ~Store(c) /\ ~Mark(c) /\ OneHolder /\ HeldKey /\ NoMarker
    BY <1>3, <2>0, WhoMarks DEF Unpaid
  <2>2. pc[c] \notin Believing
    BY <2>1 DEF NoMarker
  <2>3. key \in {Absent} \cup {Owned(d) : d \in Caller}
    BY <2>1 DEF NoMarker, TypeOK
  <2>4. CASE Start(c) \/ Ask(c) \/ LookAgain(c) \/ Wait(c) \/ LastLook(c) \/ TimeOut(c)
    BY <2>1, <2>3, <2>4 DEF Start, Ask, LookAgain, Wait, LastLook, TimeOut, Finds, Moves, Goes,
       Believing, OneHolder, HeldKey, NoMarker, Holding, TypeOK, Absent, Ready, Owned
  <2>5. CASE Claim(c)
    <3>1. CASE key = Absent
      BY <2>1, <2>5, <3>1 DEF Claim, Goes, Believing, OneHolder, HeldKey, NoMarker, Holding,
         TypeOK, Absent, Ready, Owned
    <3>2. CASE key # Absent
      BY <2>1, <2>5, <3>2 DEF Claim, Moves, Goes, Believing, OneHolder, HeldKey, NoMarker,
         Holding, TypeOK
    <3>3. QED
      BY <3>1, <3>2
  <2>6. CASE Confirm(c) \/ Work(c) \/ Complete(c)
    BY <2>1, <2>6 DEF Confirm, Work, Complete, Finds, Moves, Goes, Believing, OneHolder,
       HeldKey, NoMarker, Holding, TypeOK
  <2>7. CASE Throw(c) \/ Release(c) \/ Settle(c)
    BY <2>1, <2>2, <2>7 DEF Throw, Release, Settle, Moves, Goes, Believing, OneHolder, HeldKey,
       NoMarker, Holding, TypeOK
  <2>8. CASE Drop(c)
    BY <2>1, <2>8 DEF Drop, Goes, Believing, OneHolder, HeldKey, NoMarker, Holding, TypeOK,
       Absent, Ready
  <2>9. CASE Beat(c)
    BY <2>1, <2>9 DEF Beat, OneHolder, HeldKey, NoMarker, Holding, Absent, Ready, Owned
  <2>10. CASE Die(c)
    <3>1. CASE Moves(c, "failed")
      BY <2>1, <3>1 DEF Moves, Goes, Believing, OneHolder, HeldKey, NoMarker, Holding, TypeOK
    <3>2. CASE key' = Owned(c) /\ Goes(c, "failed")
      BY <2>1, <3>2 DEF Goes, Believing, OneHolder, HeldKey, NoMarker, Holding, TypeOK,
         Absent, Ready, Owned
    <3>3. QED
      BY <2>10, <3>1, <3>2 DEF Die
  <2>11. ~(Reload(c) \/ Clear(c) \/ CloseKey(c) \/ Seal(c) \/ Reuse(c))
    BY <2>2 DEF Reload, Clear, CloseKey, Seal, Reuse, Believing
  <2>12. QED
    BY <1>3, <2>1, <2>4, <2>5, <2>6, <2>7, <2>8, <2>9, <2>10, <2>11 DEF Mine
<1>4. QED
  BY <1>1, <1>2, <1>3, StepOfSomeone

(* Where a caller begins to fetch, and where one of several may end it.    *)
LEMMA WhoFetches ==
  ASSUME TypeOK, NEW c \in Caller, Mine(c), pc[c] # "fetching"
  PROVE  /\ pc'[c] = "fetching" => Work(c) /\ ~package
         /\ package' = package
<1>1. CASE Start(c) \/ Ask(c) \/ Claim(c) \/ LookAgain(c) \/ Reload(c) \/ Clear(c)
  BY <1>1 DEF Start, Ask, Claim, LookAgain, Reload, Clear, Finds, Moves, Goes, TypeOK,
     Absent, Ready, Owned
<1>2. CASE Wait(c) \/ LastLook(c) \/ Confirm(c) \/ CloseKey(c) \/ Seal(c) \/ Work(c) \/ Store(c)
  BY <1>2 DEF Wait, LastLook, Confirm, CloseKey, Seal, Work, Store, Finds, Moves, Goes, TypeOK
<1>3. CASE Complete(c) \/ Mark(c) \/ Release(c) \/ Drop(c) \/ Settle(c) \/ Reuse(c)
  BY <1>3 DEF Complete, Mark, Release, Drop, Settle, Reuse, Moves, Goes, TypeOK
<1>4. CASE TimeOut(c) \/ Throw(c) \/ Beat(c) \/ Die(c)
  BY <1>4 DEF TimeOut, Throw, Beat, Die, Moves, Goes, TypeOK
<1>5. QED
  BY <1>1, <1>2, <1>3, <1>4 DEF Mine

(* The fetches of a step: one begins or ends, or nothing changes.  Once an *)
(* unbacked marker is set, nothing counts any more.                        *)
LEMMA FetchStep ==
  ASSUME LeaseInv, [Next]_vars
  PROVE  \/ UNCHANGED <<Counted, Backed>>
         \/ \E c \in Caller : Once!Begin(c) \/ Once!End(c)
<1> USE DEF LeaseInv
<1>1. CASE UNCHANGED vars
  BY <1>1 DEF vars, Counted, Backed, Fetching
<1>2. CASE Lapse
  BY <1>2 DEF Lapse, Counted, Backed, Fetching
<1>3. ASSUME NEW c \in Caller, Mine(c)
      PROVE  UNCHANGED <<Counted, Backed>> \/ Once!Begin(c) \/ Once!End(c)
  <2>0. PICK at : pc' = [pc EXCEPT ![c] = at]
    BY <1>3, MovesAlone
  <2>1. CASE unbacked
    <3>1. unbacked'
      BY <1>3, <2>1, WhoMarks
    <3>2. QED
      BY <2>1, <3>1 DEF Counted, Backed
  <2>2. CASE ~unbacked /\ unbacked'
    <3>1. Mark(c) /\ ~package /\ package' = package
      BY <1>3, <2>2, WhoMarks
    <3>2. Fetching = {}
      BY <2>2, <3>1 DEF Mark, Unpaid, OneHolder, Holding, Fetching
    <3>3. QED
      BY <2>2, <3>1, <3>2 DEF Counted, Backed
  <2>3. CASE ~unbacked /\ ~unbacked' /\ pc[c] = "fetching"
    <3>1. Fetching = {c} /\ ~package
      BY <2>3 DEF Unpaid, Paid, Backed, OneHolder, Holding, Fetching
    <3>2. CASE at = "fetching"
      <4>1. Fetching' = Fetching
        BY <2>3, <2>0, <3>2 DEF Fetching, TypeOK
      <4>2. package' = package
        BY <1>3, <2>0, <3>2, MovesAlone DEF Store, Goes, TypeOK
      <4>3. QED
        BY <2>3, <4>1, <4>2 DEF Counted, Backed
    <3>3. CASE at # "fetching"
      <4>1. Fetching' = {}
        BY <3>1, <2>0, <3>3 DEF Fetching, TypeOK
      <4>2. QED
        BY <1>3, <2>3, <3>1, <4>1, MovesAlone DEF Once!End, Counted, Backed
    <3>4. QED
      BY <3>2, <3>3
  <2>4. CASE ~unbacked /\ ~unbacked' /\ pc[c] # "fetching" /\ pc'[c] = "fetching"
    <3>1. Work(c) /\ ~package /\ package' = package
      BY <1>3, <2>4, WhoFetches
    <3>2. Fetching = {} /\ Fetching' = {c}
      BY <2>4, <3>1 DEF Work, Moves, Goes, Unpaid, OneHolder, Holding, Fetching, TypeOK
    <3>3. QED
      BY <2>4, <3>1, <3>2 DEF Once!Begin, Counted, Backed
  <2>5. CASE ~unbacked /\ ~unbacked' /\ pc[c] # "fetching" /\ pc'[c] # "fetching"
    <3>1. Fetching' = Fetching /\ package' = package
      BY <1>3, <2>0, <2>5, WhoFetches DEF Fetching, TypeOK
    <3>2. QED
      BY <2>5, <3>1 DEF Counted, Backed
  <2>6. QED
    BY <2>1, <2>2, <2>3, <2>4, <2>5 DEF TypeOK
<1>4. QED
  BY <1>1, <1>2, <1>3, StepOfSomeone

LEMMA LeaseInvariant == ASSUME Prompt PROVE Spec => []LeaseInv
<1>1. Init => LeaseInv
  <2> SUFFICES ASSUME Init PROVE LeaseInv
    OBVIOUS
  <2>1. Unpaid /\ Paid
    BY DEF Init, Unpaid, Paid, Backed, OneHolder, HeldKey, NoMarker, Believing, Holding,
       Absent, Ready
  <2>2. TypeOK
    BY DEF Init, TypeOK, Absent
  <2>3. QED
    BY <2>1, <2>2 DEF LeaseInv
<1>2. LeaseInv /\ TypeOK' /\ [Next]_vars => LeaseInv'
  <2> SUFFICES ASSUME LeaseInv, TypeOK', [Next]_vars PROVE LeaseInv'
    OBVIOUS
  <2>1. Unpaid'
    BY UnpaidStep, Prompt
  <2>2. Paid'
    BY FetchStep DEF LeaseInv, TypeOK, Paid, Backed, Counted, Once!Begin, Once!End
  <2>3. QED
    BY <2>1, <2>2 DEF LeaseInv
<1>3. QED
  BY <1>1, <1>2, LeaseTypeCorrect, PTL DEF Spec

(* The lease, its callers and their failures implement FetchOnce: one      *)
(* fetch at a time, and none of what is stored, for as long as no owner     *)
(* leaves a ready marker without a package.                                 *)
THEOREM ImplementsFetchOnce == ASSUME Prompt PROVE Spec => FetchedOnce
<1>1. Init => Once!FetchInit
  BY DEF Init, Once!FetchInit, Fetching, Counted, Backed
<1>2. LeaseInv /\ [Next]_vars => [Once!FetchNext]_(Once!fetchVars)
  BY FetchStep DEF Once!FetchNext, Once!fetchVars
<1>3. QED
  BY <1>1, <1>2, LeaseInvariant, Prompt, PTL DEF Spec, FetchedOnce, Once!FetchSpec
=============================================================================
