SPECIFICATION Spec
CONSTANTS
  Parties = {p1}
  Requests = {r1, r2}
  Workers = {}
  Matters = {"overdue"}
  OverdueMatters = {"overdue"}
  Severities = {"critical"}
  PartyMoves <- AllMoves
  MaxAttempts = 1
  MaxIncidents = 1
  Mishaps = 0
INVARIANTS
  CriticalStopsParty
CHECK_DEADLOCK FALSE
