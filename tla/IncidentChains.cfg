SPECIFICATION FairSpec
CONSTANTS
  Parties = {p1}
  Requests = {r1}
  Workers = {v1, v2}
  Matters = {"overdue"}
  OverdueMatters = {}
  Severities = {"major"}
  PartyMoves <- NoMoves
  MaxAttempts = 2
  MaxIncidents = 1
  Mishaps = 1
INVARIANTS
  TypeOK
  ChainMatchesCount
  NobodyForgotten
PROPERTIES
  ResolvedStays
  EveryIncidentIsHandedOff
CHECK_DEADLOCK FALSE
