SPECIFICATION Spec
CONSTANTS
  j1 = j1  j2 = j2  j3 = j3  w1 = w1  w2 = w2  None = None
  Job = {j1}
  Wcl = {j1}
  Window = {w1, w2}
  Epochs = 2
  EpochOf <- Stable
  Limit = 1
  Est = 1
  Reserve = 0
  Points = 1
  Sweeps = TRUE
  Operators = TRUE
  Lossy = TRUE
INVARIANTS TypeOK CountersAgree
CHECK_DEADLOCK FALSE
