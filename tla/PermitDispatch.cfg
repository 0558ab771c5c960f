SPECIFICATION Spec
CONSTANTS
  w1 = w1
  t1 = t1
  Parties = {p1, p2}
  Windows = {w1}
  Trails = {t1}
  Requests = {r1, r2}
  Keys = {k1}
  NoWindow = NoWindow
  NoKey = NoKey
  NoParty = NoParty
  Size <- AllPairs
  WindowOf <- OneDay
  TrailOf <- OneTrail
  DailyQuota <- TwoSeats
  KeysOf <- AllKeys
  Checkpoints = {1}
  Mandatory = {1}
  TrailStatuses = {"open", "suspended"}
  OpenQuotas = {2}
  TimedWindows = {w1}
SYMMETRY DispatchSymmetry
INVARIANTS
  TypeOK
  SeatConservation
  NoOverbooking
  ReleaseNeverFails
  KeyStandsForReservation
  ReservedPartyIsReady
  WithdrawnPartyOwesNothing
  EffectsExactlyOnce
PROPERTIES
  ImplementsLedger
  LegalLifecycle
  SettledFeeIsFinal
CHECK_DEADLOCK FALSE
