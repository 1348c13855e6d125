SPECIFICATION FairSpec
CONSTANTS
  Admin = {a1}
  N = 3
  Full = {1, 3}
  Incompatible = {}
  BatchSize = 2
  Deletable = {2}
  Budget = 1
  Cost = 1
  MaxRequests = 2
  MaxFaults = 1
INVARIANTS TypeOK SpendBounded ClosedMeansSettled LateBounded
PROPERTIES DispatchesWhileRunning RequestsApplied
CHECK_DEADLOCK FALSE
