------------------------- MODULE EvidenceAssignment -------------------------
(***************************************************************************)
(* What a batch of evidence slots promises, without jobs, messages and     *)
(* faults: a slot ends once, with a fight no other slot has or with none;  *)
(* when all have ended the usable fights are chosen, once; and only what   *)
(* was chosen from can become final.                                       *)
(***************************************************************************)
CONSTANTS Batch, Slot, Fight, Nothing

VARIABLES
  ended,   (* per batch, the slots that have ended                         *)
  holds,   (* per batch and slot, the fight that is its evidence           *)
  usable,  (* per batch, the slots whose evidence has all that is needed   *)
  frozen,  (* the batches with a manifest                                  *)
  chosen,  (* per batch, the fights of its manifest                        *)
  final    (* the batches that are finalized                               *)

assignmentVars == <<ended, holds, usable, frozen, chosen, final>>

AssignmentInit ==
  /\ ended = [b \in Batch |-> {}] /\ usable = [b \in Batch |-> {}]
  /\ holds = [b \in Batch |-> [s \in Slot |-> Nothing]]
  /\ frozen = {} /\ chosen = [b \in Batch |-> {}] /\ final = {}

Take(b, s, k) ==
  /\ s \notin ended[b] /\ \A t \in Slot : holds[b][t] # k
  /\ ended' = [ended EXCEPT ![b] = @ \cup {s}]
  /\ holds' = [holds EXCEPT ![b][s] = k]
  /\ usable' \in {usable, [usable EXCEPT ![b] = @ \cup {s}]}
  /\ UNCHANGED <<frozen, chosen, final>>

GoWithout(b, s) ==
  /\ s \notin ended[b]
  /\ ended' = [ended EXCEPT ![b] = @ \cup {s}]
  /\ UNCHANGED <<holds, usable, frozen, chosen, final>>

Choose(b) ==
  /\ b \notin frozen /\ ended[b] = Slot
  /\ frozen' = frozen \cup {b}
  /\ chosen' = [chosen EXCEPT ![b] = {holds[b][s] : s \in usable[b]}]
  /\ UNCHANGED <<ended, holds, usable, final>>

Conclude(b) ==
  /\ b \in frozen
  /\ final' = final \cup {b}
  /\ UNCHANGED <<ended, holds, usable, frozen, chosen>>

AssignmentNext ==
  \E b \in Batch :
    \/ \E s \in Slot : GoWithout(b, s) \/ \E k \in Fight : Take(b, s, k)
    \/ Choose(b) \/ Conclude(b)

AssignmentSpec == AssignmentInit /\ [][AssignmentNext]_assignmentVars
=============================================================================
