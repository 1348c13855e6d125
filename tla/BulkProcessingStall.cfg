SPECIFICATION FairSpec
CONSTANTS
  Admin = {a1}
  N = 3
  Full = {1, 3}
  Incompatible = {}
  BatchSize = 2
  Deletable = {}
  Budget = 8
  Cost = 1
  MaxRequests = 0
  MaxFaults = 0
PROPERTIES Finishes
CHECK_DEADLOCK FALSE
