SPECIFICATION Spec
CONSTANTS
  r1 = r1
  r2 = r2
  r3 = r3
  c1 = c1
  c2 = c2
  m1 = m1
  Request = {r1, r2, r3}
  Client = {c1, c2}
  Model = {m1}
  ClientOf <- MC_ClientOf
  ModelOf <- MC_ModelOf
  MaxQueue = 2
  OverflowPolicy = "drop_oldest"
  MaxOut = 1
  Strategies = {"priority_tiered", "tiered_deadline", "deadline_aware"}
  NumTiers = 2
  Priority = {0, 2}
  Urgency = {0, 1}
  AgeWeight = 2
  LatencyBudget <- MC_LatencyBudget
  TTL = 1
  MaxTime = 2
INVARIANTS
  TypeOK
  TotalMatches
PROPERTIES
  HandOutOrder
  DropsFromTheBottom
  Refines
