SPECIFICATION Spec
CONSTANTS
  r1 = r1
  r2 = r2
  x1 = x1
  r3 = r3
  u1 = u1
  m1 = m1
  m2 = m2
  m3 = m3
  c1 = c1
  c2 = c2
  Request = {r1, r2, x1, r3, u1}
  Model = {m1, m2, m3}
  ModelOf <- MC_ModelOf
  Deployed = {m1, m2}
  Unreadable = {x1}
  Call = {c1, c2}
  MaxBatch = 3
SYMMETRY MC_Symmetry
INVARIANTS
  TypeOK
  OneResultEach
  RaiseIsCaused
  HealthCounts
CHECK_DEADLOCK FALSE
