SPECIFICATION FairSpec
CONSTANTS
  u1 = u1
  w1 = w1
  w2 = w2
  e1 = e1
  Users <- OneUser
  Workers <- TwoWorkers
  Events <- OneEvent
  Minimum = 1
  MaxRetries = 1
  MaxQueue = 1
  MaxChanges = 4
  MaxFaults = 1
INVARIANTS
  OneActivePerRule
PROPERTIES
  SignalsCatchUp
