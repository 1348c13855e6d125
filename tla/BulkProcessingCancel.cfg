SPECIFICATION FairSpec
CONSTANTS
  Admin = {a1, a2}
  N = 3
  Full = {1, 3}
  Incompatible = {}
  BatchSize = 2
  Deletable = {}
  Budget = 8
  Cost = 1
  MaxRequests = 2
  MaxFaults = 0
PROPERTIES CancelEnds
CHECK_DEADLOCK FALSE
