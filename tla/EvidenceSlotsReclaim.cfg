SPECIFICATION FairSpec
CONSTANTS
  b1 = b1
  b2 = b2
  k1 = k1
  k2 = k2
  k3 = k3
  None = None
  N = 2
  Key = {k1, k2, k3}
  Chains <- NoneOrThree
  Batch = {b1}
  Attempts = 2
  Outcomes = {"facts", "bare", "failed"}
  MaxFaults = 0
PROPERTIES ReleasedIsReclaimed
CHECK_DEADLOCK FALSE
