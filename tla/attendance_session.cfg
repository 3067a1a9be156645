SPECIFICATION SessionSpec
CONSTANTS
  u1 = u1
  u2 = u2
  e1 = e1
  e2 = e2
  c1 = c1
  c2 = c2
  Callers <- TwoCallers
  Enrollments <- TwoEnrollments
  Classes <- TwoClasses
  EvidenceRequired = TRUE
  MaxRevisions = 3
  MaxMoved = 1
SYMMETRY Symmetry
INVARIANTS
  ExcuseIsCoherent
  RevisionTrail
  FinalizedIsComplete
CHECK_DEADLOCK FALSE
