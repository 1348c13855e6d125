SPECIFICATION Spec
CONSTANTS
  Producer = {p1}
  Message = {m1}
  Worker = {v1}
  Controller = {o1}
  Kinds = {"kill"}
  None = None
  Faults = {}
SYMMETRY AnyParty
PROPERTIES TerminalStays
CHECK_DEADLOCK FALSE
