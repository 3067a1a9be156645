SPECIFICATION Spec
CONSTANTS
  u1 = u1
  u2 = u2
  w1 = w1
  w2 = w2
  e1 = e1
  e2 = e2
  c1 = c1
  c2 = c2
  Users <- TwoUsers
  Workers <- TwoWorkers
  Enrollments <- TwoEnrollments
  Classes <- TwoClasses
  Maxima <- TwoMaxima
  Values <- OneValue
  AbsenceIsZero = TRUE
  MaxQueue = 1
  MaxMoved = 1
SYMMETRY Symmetry
INVARIANTS
  ReviewedIsComplete
  ResultIsCurrent
CONSTRAINT OneConcern
CHECK_DEADLOCK FALSE
