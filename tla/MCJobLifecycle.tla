--------------------------- MODULE MCJobLifecycle ---------------------------
(* Instances of JobLifecycle for TLC: producers, messages, workers and     *)
(* controllers are interchangeable.                                        *)
EXTENDS JobLifecycle, TLC

AnyParty == Permutations(Producer) \cup Permutations(Message)
              \cup Permutations(Worker) \cup Permutations(Controller)
=============================================================================
