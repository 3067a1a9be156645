SPECIFICATION Spec
CONSTANTS
  j1 = j1
  j2 = j2
  w1 = w1
  w2 = w2
  u1 = u1
  u2 = u2
  Jobs <- TwoJobs
  Files <- TwoFiles
  FileOf <- OneFile
  Workers <- TwoWorkers
  Users <- TwoUsers
  Offered <- EveryRequest
  MaxRetries = 1
  MaxQueued = 2
  MaxCrashes = 1
  MaxLost = 1
  MaxCalls = 3
SYMMETRY Symmetry
INVARIANTS
  FileImportedOnce
  ClaimIsExclusive
  OutcomeIsTruthful
CHECK_DEADLOCK FALSE
