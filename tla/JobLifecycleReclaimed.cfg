SPECIFICATION Spec
CONSTANTS
  Producer = {p1, p2}
  Message = {m1, m2}
  Worker = {v1, v2}
  Controller = {o1}
  Kinds = {"kill"}
  None = None
  Faults = {}
SYMMETRY AnyParty
PROPERTIES GuardAlwaysStopsCancelled
CHECK_DEADLOCK FALSE
