SPECIFICATION FairSpec
CONSTANTS
  j1 = j1  j2 = j2  j3 = j3  w1 = w1  w2 = w2  None = None
  Job = {j1}
  Wcl = {j1}
  Window = {w1}
  Epochs = 1
  EpochOf <- Single
  Limit = 1
  Est = 1
  Reserve = 1
  Points = 2
  Sweeps = FALSE
  Operators = FALSE
  Lossy = FALSE
PROPERTIES OrphansReclaimed
CHECK_DEADLOCK FALSE
