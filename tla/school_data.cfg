SPECIFICATION DataSpec
CONSTANTS
  s1 = s1
  s2 = s2
  Schools = {s1, s2}
  Codes <- TwoCodes
  NationalIds <- TwoIds
  Persons <- TwoPersons
  Grades <- TwoGrades
  EvaluationMonths <- Months1
  Catalogs <- TheCatalogs
  Current = "v2"
  MaxRows = 3
  MaxOperations = 4
  Workbooks <- Files
  Uploads <- Uploaded
  Directories <- Mounted
SYMMETRY SchoolsAreAlike
CONSTRAINT IsFollowed
PROPERTIES
  ReimportChangesNothing
  SummaryTellsTheTruth
  ListedAreEnrolled
  ElsewhereIsUntouched
CHECK_DEADLOCK FALSE
