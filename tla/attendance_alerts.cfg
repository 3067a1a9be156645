SPECIFICATION FairAlertsSpec
CONSTANTS
  p1 = p1
  p2 = p2
  u1 = u1
  w1 = w1
  w2 = w2
  r1 = r1
  r2 = r2
  mother = mother
  Policies <- TwoPolicies
  Users <- OneUser
  Evaluators <- TwoEvaluators
  Records <- TwoRecords
  ScopeOf <- SameScope
  Guardians <- OneGuardian
  WithEmail <- OneGuardian
  WithPhone <- OneGuardian
  SMSEnabled = FALSE
  WarningCount = 2
  CriticalCount = 3
  WarningPercent = 5000
  CriticalPercent = 7500
  MaxChanges = 3
PROPERTIES
  AcknowledgedIsNotRaisedAgain
  AlertsCatchUp
