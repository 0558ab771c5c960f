SPECIFICATION Spec
CONSTANTS
  Jobs = {j1, j2}
  Workers = {v1, v2}
  MaxAttempts = 2
  Batch = 2
  Lease = 2
  Timeout = 1
  Mishaps = 1
  MaxClaims = 3
SYMMETRY QueueSymmetry
INVARIANTS
  TypeOK
  DoneMeansFinal
  UndisturbedParking
  OneWorkerWhileCovered
PROPERTIES
  FinalFeeStays
  FinishedStays
