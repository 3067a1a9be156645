SPECIFICATION Spec
CONSTANTS
  admin = admin
  deputy = deputy
  guideTeacher = guideTeacher
  counselor = counselor
  receiver = receiver
  besat = besat
  other = other
  e1 = e1
  e2 = e2
  noSchool = noSchool
  Blank = Blank
  Users <- MCUsers
  Schools = {besat, other}
  Configured = {besat}
  NoSchool = noSchool
  Grants <- MCGrants
  FirstRoles <- MCFirstRoles
  Requests = {r1, r2}
  MaxChanges = 5
  Enrollments = {e1, e2}
  SchoolOf <- MCSchoolOf
  Guides = {g1}
  FirstCase <- MCFirstCase
  MaxReferrals = 1
  SignalEnrollment = e1
  MaxSignals = 2
SYMMETRY Symmetry
CONSTRAINT EndsWithLastChange
INVARIANTS
  DecisionTrail
  AudiencesServedTogether
  OneCaseEach
CHECK_DEADLOCK FALSE
