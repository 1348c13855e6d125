SPECIFICATION Spec
CONSTANTS
  j1 = j1  j2 = j2  j3 = j3  w1 = w1  w2 = w2  None = None
  Job = {j1, j2}
  Wcl = {j1, j2}
  Window = {w1, w2}
  Epochs = 1
  EpochOf <- Drifting
  Limit = 2
  Est = 1
  Reserve = 1
  Points = 2
  Sweeps = FALSE
  Operators = FALSE
  Lossy = FALSE
PROPERTIES GrantFitsSnapshot
CHECK_DEADLOCK FALSE
