SPECIFICATION LegacySpec
CONSTANTS
  r1 = r1
  r2 = r2
  r3 = r3
  c1 = c1
  c2 = c2
  m1 = m1
  m2 = m2
  Request = {r1, r2, r3}
  Client = {c1, c2}
  Model = {m1, m2}
  ClientOf <- MC_ClientOf
  ModelOf <- MC_ModelOf
  MaxQueue = 2
  OverflowPolicy = "drop_oldest"
  MaxOut = 2
  Urgency = {0, 1}
  AgeWeight = 2
  LatencyBudget <- MC_LatencyBudget
  TTL = 1
  MaxTime = 2
  MaxCounter = 4
PROPERTY DrainsHighestScored
