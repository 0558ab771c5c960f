SPECIFICATION Spec
CONSTANTS
  Jobs = {j1, j2}
  Workers = {v1, v2}
  MaxAttempts = 1
  Batch = 4
  Lease = 3
  Timeout = 2
  Mishaps = 0
  MaxClaims = 3
SYMMETRY QueueSymmetry
INVARIANTS
  RunsOnOneWorker
CHECK_DEADLOCK FALSE
