SPECIFICATION Spec
CONSTANTS
  Caller = {c1, c2, c3}
  Live = {c1, c2}
  Faults = {}
INVARIANTS OneFetch
CHECK_DEADLOCK FALSE
