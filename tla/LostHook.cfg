SPECIFICATION Spec
CONSTANTS
  Jobs = {j1}
  Workers = {v1, v2}
  MaxAttempts = 1
  Batch = 1
  Lease = 2
  Timeout = 1
  Mishaps = 1
  MaxClaims = 3
INVARIANTS
  ParkedJobParksFee
