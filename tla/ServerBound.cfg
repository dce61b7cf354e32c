SPECIFICATION Spec
CONSTANTS
  r1 = r1
  r2 = r2
  r3 = r3
  r4 = r4
  s1 = s1
  c1 = c1
  c2 = c2
  m1 = m1
  m2 = m2
  Request = {r1, r2, r3, r4}
  Client = {c1, c2}
  Model = {m1}
  ClientOf <- MC_ClientOf
  ModelOf <- MC_ModelOf
  MaxInflight <- MC_OneInflight
  MaxQueue = 1
  OverflowPolicy = "reject_newest"
  MaxRetries = 1
  MaxConcurrent = 1
  Pipeline = TRUE
  Predictive = FALSE
  Strategies = {"aware", "plain"}
  DispatchMayRaise = TRUE
  CanAge = {}
  CanFallSilent = {c1}
  Hung = {}
INVARIANT QueueBound
PROPERTY UsesScheduler
SYMMETRY MC_Symmetry
CHECK_DEADLOCK FALSE
