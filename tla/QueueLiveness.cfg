SPECIFICATION FairSpec
CONSTANTS
  Jobs = {j1, j2}
  Workers = {v1, v2}
  MaxAttempts = 1
  Batch = 2
  Lease = 2
  Timeout = 1
  Mishaps = 1
  MaxClaims = 3
PROPERTIES
  EveryJobFinishes
