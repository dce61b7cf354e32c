SPECIFICATION FairSpec
CONSTANTS
  r1 = r1
  r2 = r2
  r3 = r3
  r4 = r4
  s1 = s1
  c1 = c1
  c2 = c2
  m1 = m1
  m2 = m2
  Request = {r1, r2, s1}
  Client = {c1, c2}
  Model = {m1, m2}
  ClientOf <- MC_ClientOf
  ModelOf <- MC_ModelOf
  MaxInflight <- MC_OneInflight
  MaxQueue = 1
  OverflowPolicy = "drop_oldest"
  MaxRetries = 1
  MaxConcurrent = 1
  Pipeline = TRUE
  Predictive = TRUE
  Strategies = {"aware", "plain"}
  DispatchMayRaise = TRUE
  CanAge = {r1, r2}
  CanFallSilent = {}
  Hung = {m1}
PROPERTIES
  Settles
  OthersServed
CHECK_DEADLOCK FALSE
