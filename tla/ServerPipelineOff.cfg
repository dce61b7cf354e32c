SPECIFICATION SteadySpec
CONSTANTS
  r1 = r1
  r2 = r2
  r3 = r3
  r4 = r4
  s1 = s1
  c1 = c1
  c2 = c2
  m1 = m1
  m2 = m2
  Request = {r1, r2, s1}
  Client = {c1, c2}
  Model = {m1, m2}
  ClientOf <- MC_ClientOf
  ModelOf <- MC_ModelOf
  MaxInflight <- MC_TwoInflight
  MaxQueue = 2
  OverflowPolicy = "drop_oldest"
  MaxRetries = 1
  MaxConcurrent = 2
  Pipeline = FALSE
  Predictive = FALSE
  Strategies = {"aware"}
  DispatchMayRaise = FALSE
  CanAge = {r1, r2, s1}
  CanFallSilent = {c1}
  Hung = {}
INVARIANT LegacyLimit
