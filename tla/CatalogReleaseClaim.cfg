SPECIFICATION Spec
CONSTANTS
  a1 = a1  a2 = a2  k1 = k1  d1 = d1  d2 = d2
  Admin = {a1, a2}
  Key = {k1}
  Draft = {d1, d2}
  KeyOf <- OneKey
  MaxRel = 3
  MaxEdits = 2
  Refused = {}
  Drift = FALSE
  Claims = TRUE
INVARIANTS StaleIsReplayed
SYMMETRY AnyOrder
