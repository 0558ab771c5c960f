SPECIFICATION Spec
CONSTANTS
  Parties = {p1}
  Requests = {r1}
  Workers = {v1}
  Matters = {"overdue"}
  OverdueMatters = {"overdue"}
  Severities = {"critical"}
  PartyMoves <- OneMove
  MaxAttempts = 1
  MaxIncidents = 2
  Mishaps = 0
INVARIANTS
  OneUnresolvedPerMatter
CHECK_DEADLOCK FALSE
