SPECIFICATION Spec
CONSTANTS
  Producer = {p1}
  Message = {m1}
  Worker = {v1}
  Controller = {}
  Kinds = {}
  None = None
  Faults = {}
SYMMETRY AnyParty
INVARIANTS NothingHeldAtEnd
CHECK_DEADLOCK FALSE
