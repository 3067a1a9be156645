SPECIFICATION ReportsSpec
CONSTANTS
  Users = {u1, u2}
  Contents <- TwoContents
  Blank = "blank"
  MaxArchives = 2
  MaxCrashes = 1
  Items <- ThreeItems
  MaxRetries = 1
  MaxDeaths = 1
  ahmadi = ahmadi
  alavi = alavi
  otherAlavi = otherAlavi
  s1 = s1
  s2 = s2
  s3 = s3
  c1 = c1
  c2 = c2
  Students <- ThreeNames
  Surname <- Names
  Assessments = {"a1", "a2"}
  Marks = {10, 20}
  MaxChanges = 2
  CardRetries = 1
  Enrollments = {s1, s2, s3}
  Classes = {c1, c2}
  Months = {1, 2, 3}
  DomainOf <- TwoDomains
  Weight <- Weights
  Forms <- FiveForms
  FinalPercent = 100
  Epsilon = 50
  MaxEntered = 3
SYMMETRY Symmetry
CONSTRAINT LittleAtOnce
INVARIANTS
  RenderedAsApproved
  BatchTellsTheTruth
  CardIsTruthful
  ContextIsOwn
  PagesAgree
PROPERTIES
  ArchiveIsFrozen
  RaisingNeverLowers
CHECK_DEADLOCK FALSE
