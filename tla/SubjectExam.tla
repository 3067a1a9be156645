---------------------------- MODULE SubjectExam ----------------------------
(***************************************************************************)
(* The ingest of the directory after its scan: the school workbooks, of    *)
(* which only the outcome is of interest here (DirectIngest says what is   *)
(* written), the workbooks of the summer exams, row by row, each in a      *)
(* transaction of its own, and then the photos, which are left out.  A     *)
(* replaced exam workbook retires the rows of the one before.              *)
(*                                                                         *)
(* An exam workbook is read three times: for its checksum, for what its    *)
(* cells say, and for the values of its formulas.  It may be replaced in   *)
(* between.                                                                *)
(***************************************************************************)
EXTENDS DataDirectory, Integers

CONSTANTS ExamFiles,    \* the exact names of the exam workbooks
          GradeOf       \* the grade each of them is for

(* A row of an exam workbook: the grade is Blank where the sheet has no    *)
(* such column, and a cell is a number, or "blank", "text", or "formula"   *)
(* when a formula has no cached value.                                     *)
(* A checksum tells the contents of a file apart; `row` stands for the     *)
(* sheet and the number of a row, which no two rows of a workbook share.   *)
DecimalFields == {"percentage", "t_score", "score"}
IntegerFields == {"question_count", "rank"}

ExamRows == [row : Nat, id : {Blank} \cup [student : Students \cup {"none"}, digits : Nat],
             grade : {Blank} \cup Nat,
             cells : [DecimalFields \cup IntegerFields ->
                        [kind : {"number"}, value : Int, places : Nat, digits : Nat]
                          \cup [kind : {"blank", "text", "formula"}]]]

ASSUME ExamAssumption ==
  \A f \in SourceFiles : \A content \in Contents[f] :
    /\ content.exam \in Seq(ExamRows)
    /\ \A i, j \in DOMAIN content.exam : content.exam[i].row = content.exam[j].row => i = j
    /\ \A other \in Contents[f] : other.checksum = content.checksum => other = content

VARIABLES
  known,     \* the students of the organization, by identity
  results,   \* the rows of the exams, the retired ones among them
  ingest,    \* how far the ingest is, and what its summary says so far
  torn       \* history: files and checksums under which something else was read

examVars == <<known, results, ingest, torn>>

IdleIngest == [pc |-> "idle", todo |-> {}, manifests |-> <<>>, known |-> {},
               checksum |-> Blank, content |-> Blank, rows |-> <<>>, next |-> 1,
               summary |-> {}]

ExamInit ==
  /\ known = Students
  /\ results = {}
  /\ ingest = IdleIngest
  /\ torn = {}

-----------------------------------------------------------------------------
(* One row. *)

Highest == [percentage |-> 100, t_score |-> -1, score |-> 20]   \* -1: no limit
WholeLimit == 2147483647
StoredBelow == 100000000     \* twelve digits, of which four are decimals

(* _numeric_source and _decimal_value: the error of a cell, if any. *)
CellError(cell, maximum) ==
  CASE cell.kind = "formula" -> {"formula_without_cached_value", "missing_value"}
    [] cell.kind = "blank" -> {"missing_value"}
    [] cell.kind = "text" -> {"invalid_number"}
    [] cell.kind = "number" /\ (cell.value < 0 \/ (maximum # -1 /\ cell.value > maximum)) ->
         {"out_of_range"}
    [] cell.kind = "number" /\ cell.value >= 0 /\ (maximum = -1 \/ cell.value <= maximum) ->
         IF cell.places > 4 THEN {"too_many_decimals"}
         ELSE IF cell.digits > 12 THEN {"too_large"} ELSE {}

(* _integer_value *)
WholeError(cell) ==
  LET error == CellError(cell, -1)
  IN  CASE error # {} -> error
        [] error = {} /\ cell.places > 0 -> {"not_integer"}
        [] error = {} /\ cell.places = 0 -> IF cell.value > WholeLimit THEN {"too_large"} ELSE {}

RowErrors(f, row) ==
  UNION {CellError(row.cells[d], Highest[d]) : d \in DecimalFields}
    \cup UNION {WholeError(row.cells[i]) : i \in IntegerFields}
    \cup (IF NationalId(row.id) = Blank THEN {"invalid_national_id"} ELSE {})
    \cup (IF row.grade \notin {Blank, GradeOf[f]} THEN {"grade_mismatch"} ELSE {})

(* _normalise_row: the student is linked whatever the errors are; the      *)
(* manifest, when the scan has recorded the same content.                  *)
Result(f, checksum, row, students, recorded) ==
  LET errors == RowErrors(f, row)
      student == IF NationalId(row.id) \in students THEN NationalId(row.id) ELSE Blank
  IN  [file |-> f, checksum |-> checksum, row |-> row.row,
       student |-> student, grade |-> IF row.grade = Blank THEN GradeOf[f] ELSE row.grade,
       status |-> CASE errors # {} -> "INVALID"
                    [] errors = {} /\ student = Blank -> "UNMATCHED"
                    [] OTHER -> "VALID",
       linked |-> f \in DOMAIN recorded /\ recorded[f] = checksum,
       live |-> TRUE]

(* A number that passes the checks and does not fit its column. *)
TooWide(row) == \E d \in DecimalFields :
  CellError(row.cells[d], Highest[d]) = {} /\ row.cells[d].value >= StoredBelow

SameKey(r, q) == r.file = q.file /\ r.checksum = q.checksum /\ r.row = q.row

(* What a report shows of a student: _configured_provider *)
SummerResults(s, grade) ==
  {r \in results : r.live /\ r.student = s /\ r.grade = grade}

-----------------------------------------------------------------------------
(* run(), after the scan.  The manifests are read once; what is recorded   *)
(* of a file later names only the fields of the ingest.                    *)
LoadManifests ==
  /\ scans[Ingestor].pc = "scanned"
  /\ scans' = [scans EXCEPT ![Ingestor] = [@ EXCEPT !.pc = "ingesting"]]
  /\ ingest' = [IdleIngest EXCEPT
       !.pc = "workbooks",
       !.manifests = [f \in {g \in SourceFiles : Scanned(g)} |-> manifests[f].checksum],
       !.todo = {f \in SourceFiles : folder[f] # Blank /\ folder[f].kind = "comprehensive"}]
  /\ UNCHANGED <<folder, manifests, sourceRows, conflicts, selections, undisturbed, counts,
                 known, results, torn>>

(* One school workbook; a file that has gone is an error like any other. *)
IngestWorkbook ==
  /\ ingest.pc = "workbooks" /\ ingest.todo # {}
  /\ LET f == FirstFile(ingest.todo)
         outcome == IF folder[f] = Blank THEN "FAILED" ELSE folder[f].outcome
     IN  manifests' = IF f \in DOMAIN ingest.manifests
                      THEN [manifests EXCEPT ![f] = [@ EXCEPT !.ingest = outcome]] ELSE manifests
  /\ ingest' = [ingest EXCEPT !.todo = @ \ {FirstFile(@)}]
  /\ UNCHANGED <<folder, sourceRows, conflicts, selections, scans, undisturbed, counts,
                 known, results, torn>>

(* ingest_subject_exam_workbooks: the names that are there, and the        *)
(* students as they are now.                                               *)
StartExams ==
  /\ ingest.pc = "workbooks" /\ ingest.todo = {}
  /\ ingest' = [ingest EXCEPT
       !.pc = "exams", !.known = known,
       !.todo = {f \in SourceFiles : f \in ExamFiles /\ folder[f] # Blank}]
  /\ UNCHANGED <<dirVars, known, results, torn>>

(* What the summary says of a file, and whether it could be read. *)
NoteFile(read, verdict) ==
  ingest.summary \cup {[file |-> FirstFile(ingest.todo), checksum |-> ingest.checksum,
                        read |-> read, status |-> verdict]}

EndIngest ==
  /\ ingest' = IdleIngest
  /\ scans' = [scans EXCEPT ![Ingestor] = IdleScan]

(* The checksum of the file as it is now.  One that has gone since the     *)
(* names were listed ends the run.                                         *)
DigestExam ==
  /\ ingest.pc = "exams" /\ ingest.todo # {}
  /\ LET content == folder[FirstFile(ingest.todo)]
     IN  IF content = Blank THEN EndIngest
         ELSE /\ ingest' = [ingest EXCEPT !.pc = "digested", !.checksum = content.checksum]
              /\ UNCHANGED scans
  /\ UNCHANGED <<folder, manifests, sourceRows, conflicts, selections, undisturbed, counts,
                 known, results, torn>>

(* A file that cannot be read leaves the rows of the one before alone.     *)
SkipExam == ingest' = [ingest EXCEPT !.pc = "exams", !.todo = @ \ {FirstFile(@)},
                                     !.summary = NoteFile(FALSE, "PARTIAL")]

Unreadable(content) == content = Blank \/ (content # Blank /\ ~content.readable)

(* The cells as they are written. *)
OpenExam ==
  /\ ingest.pc = "digested"
  /\ LET content == folder[FirstFile(ingest.todo)]
     IN  IF Unreadable(content) THEN SkipExam
         ELSE ingest' = [ingest EXCEPT !.pc = "opened", !.content = content]
  /\ UNCHANGED <<dirVars, known, results, torn>>

(* The rows are those of the first reading, with the values of the second  *)
(* where that has one in the same place.                                   *)
WithValues(row, other) ==
  [row |-> row.row, id |-> row.id, grade |-> row.grade,
   cells |-> [d \in DecimalFields \cup IntegerFields |->
                IF other.cells[d].kind \in {"blank", "formula"} THEN row.cells[d]
                ELSE other.cells[d]]]

InPlaceOf(row, content) == {other \in Range(content.exam) : other.row = row.row}

ExamRowsOf(raw, evaluated) ==
  [i \in DOMAIN raw.exam |->
     LET row == raw.exam[i]
     IN  IF InPlaceOf(row, evaluated) = {} THEN row
         ELSE WithValues(row, CHOOSE other \in InPlaceOf(row, evaluated) : TRUE)]

(* The values of the formulas; a sheet that is not there any more is an    *)
(* error, a row is not.                                                    *)
ParseExam ==
  /\ ingest.pc = "opened"
  /\ LET f == FirstFile(ingest.todo)
         raw == ingest.content
         evaluated == folder[f]
     IN  \/ /\ \/ Unreadable(evaluated)
               \/ /\ ~Unreadable(evaluated)
                  /\ \E i \in DOMAIN raw.exam : InPlaceOf(raw.exam[i], evaluated) = {}
            /\ SkipExam
            /\ UNCHANGED torn
         \/ /\ ~Unreadable(evaluated)
            /\ ingest' = [ingest EXCEPT !.pc = "parsed", !.rows = ExamRowsOf(raw, evaluated),
                                        !.next = 1]
            /\ torn' = IF raw.checksum = ingest.checksum /\ evaluated = raw THEN torn
                       ELSE torn \cup {<<f, ingest.checksum>>}
  /\ UNCHANGED <<dirVars, known, results>>

Retire(f, checksum) ==
  {IF r.file = f /\ r.checksum # checksum THEN [r EXCEPT !.live = FALSE] ELSE r : r \in results}

RetireRows ==
  /\ ingest.pc = "parsed"
  /\ results' = Retire(FirstFile(ingest.todo), ingest.checksum)
  /\ ingest' = [ingest EXCEPT !.pc = "writing"]
  /\ UNCHANGED <<dirVars, known, torn>>

(* all_objects.update_or_create: a row that was retired is restored. *)
WriteResult ==
  /\ ingest.pc = "writing" /\ ingest.next \in DOMAIN ingest.rows
  /\ LET f == FirstFile(ingest.todo)
         row == ingest.rows[ingest.next]
         new == Result(f, ingest.checksum, row, ingest.known, ingest.manifests)
     IN  results' = IF TooWide(row) THEN results
                    ELSE {r \in results : ~SameKey(r, new)} \cup {new}
  /\ ingest' = [ingest EXCEPT !.next = @ + 1]
  /\ UNCHANGED <<dirVars, known, torn>>

(* Plausible bug: rows that could not be written are not counted.          *)
IgnoreWriteErrors(rows) == "COMPLETED"
FileStatus(rows) ==
  IF \E i \in DOMAIN rows : TooWide(rows[i]) THEN "PARTIAL" ELSE "COMPLETED"

FinishExam ==
  /\ ingest.pc = "writing" /\ ingest.next \notin DOMAIN ingest.rows
  /\ ingest' = [ingest EXCEPT !.pc = "exams", !.todo = @ \ {FirstFile(@)},
                              !.summary = NoteFile(TRUE, FileStatus(ingest.rows))]
  /\ UNCHANGED <<dirVars, known, results, torn>>

(* The manifests are marked from the summary, file by file, once every     *)
(* exam is in.                                                             *)
MarkExams ==
  /\ ingest.pc = "exams" /\ ingest.todo = {}
  /\ manifests' = [f \in SourceFiles |->
       LET notes == {n \in ingest.summary : n.file = f}
       IN  IF notes # {} /\ f \in DOMAIN ingest.manifests
           THEN [manifests[f] EXCEPT !.ingest = (CHOOSE n \in notes : TRUE).status]
           ELSE manifests[f]]
  /\ ingest' = [ingest EXCEPT !.pc = "photos"]
  /\ UNCHANGED <<folder, sourceRows, conflicts, selections, scans, undisturbed, counts,
                 known, results, torn>>

CrashIngest ==
  /\ ingest.pc \notin {"idle", "done"}
  /\ EndIngest
  /\ UNCHANGED <<folder, manifests, sourceRows, conflicts, selections, undisturbed, counts,
                 known, results, torn>>

(* Students are created and deleted by the other parts of the system. *)
ChangeStudents(s) ==
  /\ counts.changes < MaxChanges
  /\ known' = IF s \in known THEN known \ {s} ELSE known \cup {s}
  /\ counts' = [counts EXCEPT !.changes = @ + 1]
  /\ UNCHANGED <<folder, manifests, sourceRows, conflicts, selections, scans, undisturbed,
                 results, ingest, torn>>
=============================================================================
