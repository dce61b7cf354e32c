SPECIFICATION Spec
CONSTANTS
  k1 = k1
  k2 = k2
  Key = {k1, k2}
  Byte = {1, 2}
  Array <- MC_Array
  MaxTensors = 3
INVARIANTS
  TypeOK
  SlicesMatch
  PythonIsUnderstood
  ModelSeesObservation
  ClientSeesResult
CHECK_DEADLOCK FALSE
