SPECIFICATION FairSpec
CONSTANTS
  n1 = n1
  n2 = n2
  w1 = w1
  w2 = w2
  o1 = o1
  o2 = o2
  Notifications <- TwoNotifications
  Deliverable <- OneDeliverable
  Workers <- TwoWorkers
  Operators <- OneOperator
  MaxAttempts = 2
  MaxRetries = 1
  MaxQueued = 2
  MaxCrashes = 1
  MaxLost = 1
  MaxOperatorRetries = 2
INVARIANTS
  TypeOK
  GatewayBudget
  ClaimIsExclusive
  DuplicateNeedsCause
  SentIsTruthful
  DeadLetterIsExhausted
PROPERTIES
  EveryNotificationSettles
  ImplementsLifecycle
CHECK_DEADLOCK FALSE
