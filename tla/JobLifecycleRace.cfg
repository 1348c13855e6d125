SPECIFICATION Spec
CONSTANTS
  Producer = {p1}
  Message = {m1}
  Worker = {v1}
  Controller = {o1}
  Kinds = {"cancel"}
  None = None
  Faults = {}
SYMMETRY AnyParty
PROPERTIES CancelStopsPublication
CHECK_DEADLOCK FALSE
