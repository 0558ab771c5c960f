SPECIFICATION FairSpec
CONSTANTS
  Tokens = {t1}
  Users = {u1}
  Requests = {r1, r2}
  TTL = 2
  MaxTime = 2
  Slots = {1, 2, 3, 4, 5}
  Workers = {v1}
  MaxAttempts = 2
  Mishaps = 2
  Losses = 1
INVARIANTS
  TypeOK
  SeenWhileAlive
  LogoutRecordedOnce
  ChainSurvives
  ChainsPerMishap
PROPERTIES
  ExpiredIsRevoked
CHECK_DEADLOCK FALSE
