SPECIFICATION Spec
CONSTANTS
  p1 = p1  p2 = p2  p3 = p3  p4 = p4  p5 = p5
  skill = skill  survival = survival
  None = None
  Publisher = {p1, p2, p3}
  Recalculation = {p2}
  Metric = {skill, survival}
  DimensionOf <- Dimensions
  FingerprintOf <- TwoContracts
  Serial = FALSE
INVARIANTS TypeOK ShownIsPublic
PROPERTIES RefreshKeepsDimensions PublicationHeals
CHECK_DEADLOCK FALSE
