SPECIFICATION FilesSpec
CONSTANTS
  FileOrder <- Order
  Contents <- Versions
  Scanners = {"request", "ingest"}
  Ingestor = "ingest"
  Classes <- OneClass
  Students = {"s1"}
  Months = {"m"}
  Blank = Blank
  MaxScans = 2
  MaxChanges = 2
  ExamFiles = {"exam"}
  GradeOf <- Grades
CONSTRAINT OneChangeAtOnce
INVARIANTS
  OverlapIsFlagged
  SourceIsChosen
  ExamsAreWhole
CHECK_DEADLOCK FALSE
