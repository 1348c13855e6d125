SPECIFICATION Spec
CONSTANTS
  p1 = p1  p2 = p2  p3 = p3  p4 = p4  p5 = p5
  skill = skill  survival = survival
  None = None
  Publisher = {p1, p2, p3}
  Recalculation = {}
  Metric = {skill, survival}
  DimensionOf <- OneDimension
  FingerprintOf <- OneContract
  Serial = TRUE
PROPERTIES CoverageKept
CHECK_DEADLOCK FALSE
