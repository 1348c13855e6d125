SPECIFICATION Spec
CONSTANTS
  Producer = {p1, p2}
  Message = {m1, m2}
  Worker = {v1, v2}
  Controller = {o1}
  Kinds = {"kill", "supersede"}
  None = None
  Faults = {"crash", "callFails", "queueError", "replyLost", "age", "season"}
SYMMETRY AnyParty
INVARIANTS TypeOK
PROPERTIES GuardStopsCancelled
CHECK_DEADLOCK FALSE
