SPECIFICATION FairSpec
CONSTANTS
  Caller = {c1, c2, c3}
  Live = {c1, c2}
  Faults = {"crash", "throw", "timeout"}
INVARIANTS TypeOK DoneMeansStored
PROPERTIES FetchedOnce EveryCallerEnds
CHECK_DEADLOCK FALSE
