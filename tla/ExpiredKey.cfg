SPECIFICATION Spec
CONSTANTS
  w1 = w1
  t1 = t1
  Parties = {p1, p2}
  Windows = {w1}
  Trails = {t1}
  Requests = {r1, r2}
  Keys = {k1}
  NoWindow = NoWindow
  NoKey = NoKey
  NoParty = NoParty
  Size <- AllSolo
  WindowOf <- OneDay
  TrailOf <- OneTrail
  DailyQuota <- TwoSeats
  KeysOf <- AllKeys
  Checkpoints = {}
  Mandatory = {}
  TrailStatuses = {"open"}
  OpenQuotas = {}
  TimedWindows = {}
SYMMETRY DispatchSymmetry
INVARIANTS
  ExpiredKeyIsUnused
CHECK_DEADLOCK FALSE
