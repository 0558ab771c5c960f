SPECIFICATION FairSpec
CONSTANTS
  Processes = {p1, p2}
  Releases <- ThreeReleases
  SeedTrails = {1}
  Days = 2
  Deploys = 2
  Mishaps = 2
INVARIANTS
  TypeOK
  AppliedOnce
  ServesOwnSchema
  OneSeeder
PROPERTIES
  ServesInTheEnd
CHECK_DEADLOCK FALSE
