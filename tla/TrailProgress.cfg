SPECIFICATION FairSpec
CONSTANTS
  Parties = {1, 2}
  Start <- OneAfterAnother
  Reporting = {1}
  Requests = {r1, r2}
  Sweepers = {s1}
  Plans <- ShortPlans
  Additions <- TwoAdditions
  Grace = 2
  Limit = 1
  Second = 2
  MaxTime = 7
  Mishaps = 1
INVARIANTS
  TypeOK
  CompletedReportedPlan
PROPERTIES
  StrandedForGood
  AlarmLeadsByASecond
  MissedIsRaised
CHECK_DEADLOCK FALSE
