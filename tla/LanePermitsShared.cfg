SPECIFICATION Spec
CONSTANTS
  j1 = j1  j2 = j2  j3 = j3
  e1 = e1  e2 = e2  e3 = e3
  None = None  t1 = t1  t2 = t2  t3 = t3  t4 = t4
  Job = {j1, j2}
  Exec = {e1, e2, e3}
  JobOf <- Repeated
  Token = {t1, t2, t3, t4}
  Settings = {1, 2}
  HardMax = 8
  Cap = 2
  TTL = 3
  RenewEvery = 1
  Skew = 1
  Timely = TRUE
INVARIANTS HolderKeepsPermit
