SPECIFICATION FairSpec
CONSTANTS
  n1 = n1
  n2 = n2
  w1 = w1
  w2 = w2
  o1 = o1
  o2 = o2
  Notifications <- OneNotification
  Deliverable <- OneDeliverable
  Workers <- TwoWorkers
  Operators <- NoOperators
  MaxAttempts = 2
  MaxRetries = 1
  MaxQueued = 1
  MaxCrashes = 1
  MaxLost = 0
  MaxOperatorRetries = 0
PROPERTIES
  StaleClaimIsRecovered
CHECK_DEADLOCK FALSE
