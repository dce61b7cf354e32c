SPECIFICATION Spec
CONSTANTS
  m1 = m1
  m2 = m2
  t1 = t1
  t2 = t2
  Model = {m1, m2}
  Task = {t1, t2}
  MaxObs = 2
  MaxBreaks = 1
INVARIANTS
  TypeOK
  EachOnceInOrder
  ConsumedWasReturned
PROPERTIES
  TimeoutIsHonest
  Answered
CHECK_DEADLOCK FALSE
