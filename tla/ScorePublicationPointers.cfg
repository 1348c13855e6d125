SPECIFICATION Spec
CONSTANTS
  p1 = p1  p2 = p2  p3 = p3  p4 = p4  p5 = p5
  skill = skill  survival = survival
  None = None
  Publisher = {p1, p2, p3, p4, p5}
  Recalculation = {p1, p2, p3, p4, p5}
  Metric = {}
  DimensionOf <- Dimensions
  FingerprintOf <- OneContract
  Serial = FALSE
SYMMETRY AnyPublisher
INVARIANTS NeverSuperseded
CHECK_DEADLOCK FALSE
