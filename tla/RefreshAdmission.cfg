SPECIFICATION Spec
CONSTANTS
  j1 = j1  j2 = j2  j3 = j3  w1 = w1  w2 = w2  None = None
  Job = {j1, j2, j3}
  Wcl = {j1, j2, j3}
  Window = {w1}
  Epochs = 1
  EpochOf <- Single
  Limit = 2
  Est = 1
  Reserve = 1
  Points = 4
  Sweeps = FALSE
  Operators = FALSE
  Lossy = FALSE
INVARIANTS ReservationHasSlot
PROPERTIES PoolRefined GrantFitsSnapshot
SYMMETRY AnyOfThree
CHECK_DEADLOCK FALSE
