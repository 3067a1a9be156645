SPECIFICATION Spec
CONSTANTS
  s1 = s1
  s2 = s2
  c1 = c1
  c2 = c2
  c3 = c3
  c4 = c4
  u1 = u1
  u2 = u2
  Students <- TwoStudents
  Classes <- FourClasses
  SchoolOf <- Schools
  YearOf <- TwoYears
  Users <- TwoUsers
  Offered <- Every
  Importing = TRUE
  Ingesting = TRUE
  MaxRows = 2
  MaxCalls = 3
  MaxCapacity = 1
  MaxDate = 2
SYMMETRY Symmetry
CONSTRAINT TwoFamilies
INVARIANTS
  StatusFollowsEnrollments
  NoClassOverbooked
PROPERTIES
  ClosedStaysClosed
CHECK_DEADLOCK FALSE
