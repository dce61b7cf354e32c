SPECIFICATION Spec
CONSTANTS
  r1 = r1
  r2 = r2
  r3 = r3
  r4 = r4
  c1 = c1
  c2 = c2
  c3 = c3
  m1 = m1
  m2 = m2
  Request = {r1, r2, r3, r4}
  Client = {c1, c2, c3}
  Model = {m1, m2}
  ClientOf <- MC_ClientOf
  ModelOf <- MC_ModelOf
  MaxQueue = 2
  OverflowPolicy = "drop_oldest"
  MaxOut = 1
  Strategies = {"round_robin", "batch_optimized"}
  MaxBatch = 2
  MaxWait = 1
  TTL = 1
  MaxAge = 2
INVARIANTS
  TypeOK
  TotalMatches
PROPERTIES
  TimerKept
  TurnKept
  DropsOldestButRetries
  NoStarvation
  Refines
