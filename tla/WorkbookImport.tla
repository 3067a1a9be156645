--------------------------- MODULE WorkbookImport ---------------------------
(***************************************************************************)
(* The import of a comprehensive school workbook by an import job: it is   *)
(* read, validated against nothing but itself and the reference data,      *)
(* compared with the tables, and applied to them in one transaction, or    *)
(* the job fails with the tables untouched.                                *)
(***************************************************************************)
EXTENDS SchoolRecords

CONSTANT Uploads   \* the files that may be uploaded

ASSUME UploadsAssumption == Uploads \subseteq DOMAIN Workbooks

VARIABLES
  compared, \* the jobs that have compared their workbook with the tables, what
            \*   they have found unchanged, and the tables written since
  report    \* the result of the import job just processed, and its workbook

Kinds == {"class", "student", "enrollment", "evaluation"}

-----------------------------------------------------------------------------
(* Reading. *)

(* _metric_columns: the framework version whose codes begin the header     *)
(* row; after those of the current version the row must be empty.          *)
IsPrefixOf(s, t) == Len(s) <= Len(t) /\ SubSeq(t, 1, Len(s)) = s
FrameworkOf(headers) ==
  IF headers = Catalogs[Current] THEN {Current}
  ELSE {v \in Versions \ {Current} : IsPrefixOf(Catalogs[v], headers)}

(* An evaluation row belongs to a local code: its own, or the one that the *)
(* running number stands for, twelve months to each student.               *)
LocalCode(row) ==
  IF row.local # 0 THEN row.local
  ELSE IF row.seq > 0 THEN ((row.seq - 1) \div 12) + 1 ELSE 0

IsRecorded(row) == DOMAIN row.metrics # {} \/ row.note # Empty

-----------------------------------------------------------------------------
(* Validation: what is accepted, and the kinds of errors found.            *)

ClassStep(found, row) ==
  LET wrong ==
        (IF row.code = Empty \/ row.code \in found.codes THEN {"class"} ELSE {})
        \cup (IF row.grade \in Grades THEN {} ELSE {"grade"})
        \cup (IF row.capacity \in 1 .. 1000 THEN {} ELSE {"capacity"})
  IN  [codes |-> found.codes \cup {row.code},
       errors |-> found.errors \cup wrong,
       rows |-> IF wrong # {} THEN found.rows
                ELSE Append(found.rows,
                       [row EXCEPT !.title = IF @ = Empty THEN row.code ELSE @])]

ValidClasses(w) ==
  FoldLeft(ClassStep, [codes |-> {}, errors |-> {}, rows |-> <<>>], w.classes)

(* _normalize_student_number: a repeated number gets the local code, and   *)
(* what that makes is not compared again.                                  *)
StudentNumber(row, local, used) ==
  LET candidate == IF row.number = <<>> THEN <<row.nid>> ELSE row.number
  IN  IF candidate \in used THEN Append(candidate, local) ELSE candidate

(* A row without a local code is given its number in the sheet, which      *)
(* begins at 5.                                                            *)
StudentStep(codes, found, row) ==
  LET local == IF row.local = 0 THEN found.seen + 5 ELSE row.local
      isWrong ==
        \/ local \in {x.local : x \in ToSet(found.rows)}
        \/ row.nid = Unreadable
        \/ row.nid \in {x.nid : x \in ToSet(found.rows)}
        \/ row.person = Unreadable
        \/ row.class \notin codes
      used == {x.number : x \in ToSet(found.rows)}
  IN  [seen |-> found.seen + 1,
       errors |-> found.errors \cup IF isWrong THEN {"student"} ELSE {},
       rows |-> IF isWrong THEN found.rows
                ELSE Append(found.rows,
                       [row EXCEPT !.local = local, !.number = StudentNumber(row, local, used)])]

ValidStudents(w, codes) ==
  FoldLeft(LAMBDA found, row : StudentStep(codes, found, row),
           [seen |-> 0, errors |-> {}, rows |-> <<>>], w.students)

(* The visible identity of an evaluation row must be that of the student   *)
(* its local code leads to.  A mismatch is an error, but the row is kept.  *)
IdentityErrors(row, student) ==
  (IF row.nid \in {Empty, student.nid} THEN {} ELSE {"evaluation_identity"})
  \cup (IF row.class \in {Empty, student.class} THEN {} ELSE {"evaluation_class"})
  \cup (IF row.person \in {Empty, student.person} THEN {} ELSE {"evaluation_name"})

EvaluationStep(version, students, found, row) ==
  LET local == LocalCode(row)
      owner == {x \in students : x.local = local}
      wrong ==
        \/ row.month \notin EvaluationMonths
        \/ \E x \in ToSet(found.rows) : x.local = local /\ x.month = row.month
        \/ \E m \in DOMAIN row.metrics :
             m \notin Metrics(version) \/ Normalized(row.metrics[m]) = {}
  IN  IF ~IsRecorded(row) THEN found
      ELSE IF owner = {} THEN [found EXCEPT !.errors = @ \cup {"evaluation"}]
      ELSE [errors |-> found.errors \cup UNION {IdentityErrors(row, x) : x \in owner}
                       \cup IF wrong THEN {"evaluation"} ELSE {},
            rows |-> IF wrong THEN found.rows
                     ELSE Append(found.rows,
                            [local |-> local, month |-> row.month, note |-> row.note,
                             scores |-> [m \in DOMAIN row.metrics |->
                                           CHOOSE v \in Normalized(row.metrics[m]) : TRUE]])]

ValidEvaluations(w, version, students) ==
  FoldLeft(LAMBDA found, row : EvaluationStep(version, students, found, row),
           [errors |-> {}, rows |-> <<>>], w.evaluations)

(* validate_flexible_hardened_comprehensive_workbook *)
Validated(w) ==
  LET version == CHOOSE v \in FrameworkOf(w.headers) : TRUE
      classes == ValidClasses(w)
      codes == {x.code : x \in ToSet(classes.rows)}
      students == ValidStudents(w, codes)
      evaluations == ValidEvaluations(w, version, ToSet(students.rows))
      overfull == \E x \in ToSet(classes.rows) :
                    Cardinality({y \in ToSet(students.rows) : y.class = x.code}) > x.capacity
  IN  [classes |-> classes.rows, students |-> students.rows, evaluations |-> evaluations.rows,
       version |-> version,
       errors |-> classes.errors \cup students.errors \cup evaluations.errors
                  \cup IF overfull THEN {"capacity"} ELSE {}]

IsReadable(w) ==
  /\ FrameworkOf(w.headers) # {}
  /\ w.classes # <<>> /\ w.students # <<>>

ValidatedFile == [f \in Uploads |-> Validated(Workbooks[f])]

-----------------------------------------------------------------------------
(* Application: one transaction, which a ValueError or ValidationError     *)
(* rolls back.  counts are those that the upserts keep.                    *)

Counted(acc, kind, how) == [acc EXCEPT !.counts[kind][how] = @ + 1]
Refused(acc, why) == [acc EXCEPT !.refused = why]

ApplyClass(s, acc, item) ==
  LET key == <<s, item.code>>
      row == [live |-> TRUE, title |-> item.title, grade |-> item.grade, capacity |-> item.capacity]
  IN  [Counted(acc, "class", IF acc.t.class[key] = Absent THEN "created" ELSE "updated")
         EXCEPT !.t.class[key] = row]

ApplyStudent(acc, item) ==
  LET row == [live |-> TRUE, person |-> item.person, active |-> TRUE]
  IN  [Counted(acc, "student", IF acc.t.student[item.nid] = Absent THEN "created" ELSE "updated")
         EXCEPT !.t.student[item.nid] = row]

(* Plausible bug: the school of the row is not looked at.                  *)
NeverElsewhere(e, s) == FALSE

(* The student's row that was saved last is used again, whatever became of *)
(* it, unless it is an active one of another school.                       *)
IsElsewhere(e, s) == IsActive(e) /\ e.school # s

ApplyEnrollment(s, acc, item) ==
  LET isNew == Of(acc.t, item.nid) = {}
      isElsewhere == ~isNew /\ IsElsewhere(NewestOf(acc.t, item.nid), s)
      row == [id |-> IF isNew THEN NewId(acc.t) ELSE NewestOf(acc.t, item.nid).id,
              student |-> item.nid, school |-> s, class |-> item.class,
              grade |-> acc.t.class[<<s, item.class>>].grade,
              number |-> item.number, status |-> "active"]
  IN  IF acc.refused # "no" THEN acc
      ELSE IF isElsewhere THEN Refused(acc, "elsewhere")
      ELSE IF StudentIsTaken(acc.t, row) \/ NumberIsTaken(acc.t, row) THEN Refused(acc, "unique")
      ELSE [Counted(acc, "enrollment", IF isNew THEN "created" ELSE "updated")
              EXCEPT !.t = SaveEnrollment(@, row)]

(* Plausible bug: seats are not counted.                                   *)
CheckNoCapacity(s, classes, acc) == acc

CheckCapacity(s, classes, acc) ==
  IF \E x \in classes : Cardinality(ActiveIn(acc.t, s, x.code)) > x.capacity
    THEN Refused(acc, "capacity") ELSE acc

LiveEvaluations(t, e, month, version) ==
  {v \in t.evaluation : v.live /\ v.enrollment = e.id /\ v.month = month /\ v.version = version}

(* An evaluation that was deleted stays so, and a new one is made.         *)
ApplyEvaluation(p, acc, item) ==
  LET nid == (CHOOSE x \in ToSet(p.students) : x.local = item.local).nid
      e == NewestOf(acc.t, nid)
      old == LiveEvaluations(acc.t, e, item.month, p.version)
      had == IF old = {} THEN NoScores ELSE (CHOOSE v \in old : TRUE).scores
      row == [enrollment |-> e.id, month |-> item.month, version |-> p.version, live |-> TRUE,
              note |-> item.note, scores |-> Scored(had, item.scores)]
  IN  IF acc.refused # "no" THEN acc
      ELSE [Counted(acc, "evaluation", IF old = {} THEN "created" ELSE "updated")
              EXCEPT !.t = Replace(@, old, row)]

ApplyClasses(s, acc, rows) == FoldLeft(LAMBDA a, x : ApplyClass(s, a, x), acc, rows)
ApplyStudents(acc, rows) == FoldLeft(ApplyStudent, acc, rows)
ApplyEnrollments(s, acc, rows) == FoldLeft(LAMBDA a, x : ApplyEnrollment(s, a, x), acc, rows)
ApplyEvaluations(p, acc) == FoldLeft(LAMBDA a, x : ApplyEvaluation(p, a, x), acc, p.evaluations)

(* apply_comprehensive_workbook *)
Applied(t, p, s) ==
  LET begin == [t |-> t, refused |-> "no",
                counts |-> [k \in Kinds |-> [created |-> 0, updated |-> 0]]]
      students == ApplyStudents(ApplyClasses(s, begin, p.classes), p.students)
      enrolled == ApplyEnrollments(s, students, p.students)
  IN  ApplyEvaluations(p, CheckCapacity(s, ToSet(p.classes), enrolled))

(* _snapshot_change_counts: what the file would leave as it is, judged     *)
(* before it is applied.                                                   *)
ClassIsUnchanged(t, s, x) ==
  t.class[<<s, x.code>>] =
    [live |-> TRUE, title |-> x.title, grade |-> x.grade, capacity |-> x.capacity]
StudentIsUnchanged(t, x) ==
  t.student[x.nid] = [live |-> TRUE, person |-> x.person, active |-> TRUE]
(* Plausible bug: a new student number is no change.                       *)
EnrollmentIsInItsClass(t, p, s, x) ==
  Of(t, x.nid) # {} /\ \E e \in {NewestOf(t, x.nid)} :
    IsActive(e) /\ e.school = s /\ e.class = x.class
EnrollmentIsUnchanged(t, p, s, x) ==
  /\ Of(t, x.nid) # {}
  /\ t.class[<<s, x.class>>] # Absent
  /\ LET e == NewestOf(t, x.nid)
     IN  /\ IsActive(e) /\ e.school = s /\ e.class = x.class /\ e.number = x.number
         /\ \A y \in ToSet(p.classes) : y.code = x.class => e.grade = y.grade
(* Plausible bug: metrics the workbook leaves out are a change.            *)
EvaluationIsTheSame(t, p, x) ==
  LET nid == (CHOOSE y \in ToSet(p.students) : y.local = x.local).nid
  IN  /\ Of(t, nid) # {}
      /\ \E v \in LiveEvaluations(t, NewestOf(t, nid), x.month, p.version) :
           v.note = x.note /\ v.scores = x.scores
EvaluationIsUnchanged(t, p, x) ==
  LET nid == (CHOOSE y \in ToSet(p.students) : y.local = x.local).nid
  IN  /\ Of(t, nid) # {}
      /\ \E v \in LiveEvaluations(t, NewestOf(t, nid), x.month, p.version) :
           /\ v.note = x.note
           /\ \A m \in DOMAIN x.scores : m \in DOMAIN v.scores /\ v.scores[m] = x.scores[m]

HowMany(rows, Test(_)) == Cardinality({i \in DOMAIN rows : Test(rows[i])})

Unchanged(t, p, s) ==
  [class |-> HowMany(p.classes, LAMBDA x : ClassIsUnchanged(t, s, x)),
   student |-> HowMany(p.students, LAMBDA x : StudentIsUnchanged(t, x)),
   enrollment |-> HowMany(p.students, LAMBDA x : EnrollmentIsUnchanged(t, p, s, x)),
   evaluation |-> HowMany(p.evaluations, LAMBDA x : EvaluationIsUnchanged(t, p, x))]

(* apply_hardened_comprehensive_workbook: the summary of a completed job.  *)
AtLeastZero(n) == IF n > 0 THEN n ELSE 0
Summary(unchanged, counts) ==
  [k \in Kinds |->
     [created |-> counts[k].created,
      updated |-> AtLeastZero(counts[k].updated - unchanged[k]),
      unchanged |-> unchanged[k]]]

NoSummary == [k \in Kinds |-> [created |-> 0, updated |-> 0, unchanged |-> 0]]
NoReport == [file |-> Empty, school |-> Empty, outcome |-> "none", summary |-> NoSummary]

-----------------------------------------------------------------------------
(* process_import_job with the pipeline of comprehensive workbooks, after  *)
(* the claim of the job (module ImportJob).                                *)
Reports(f, s, outcome, summary) ==
  report' = [file |-> f, school |-> s, outcome |-> outcome, summary |-> summary]

(* The tables of which some row differs after the step. *)
Written == {k \in Kinds : db'[k] # db[k]}
Overtake(jobs) == {[c EXCEPT !.overtaken = @ \cup Written] : c \in jobs}

Refuse ==
  /\ Counts
  /\ \E f \in Uploads, s \in Schools :
       \/ /\ ~IsReadable(Workbooks[f])
          /\ Reports(f, s, "unreadable", NoSummary)
       \/ /\ IsReadable(Workbooks[f]) /\ ValidatedFile[f].errors # {}
          /\ Reports(f, s, "invalid", NoSummary)
  /\ UNCHANGED <<db, compared>>

(* _snapshot_change_counts reads without locks.  A school has a job for    *)
(* each content.                                                           *)
Compare ==
  /\ Counts
  /\ \E f \in Uploads, s \in Schools :
       /\ IsReadable(Workbooks[f]) /\ ValidatedFile[f].errors = {}
       /\ \A c \in compared : <<c.file, c.school>> # <<f, s>>
       /\ compared' = compared \cup
            {[file |-> f, school |-> s, overtaken |-> {},
              unchanged |-> Unchanged(db, ValidatedFile[f], s)]}
  /\ report' = NoReport
  /\ UNCHANGED db

(* The rows that the upserts write are locked until the transaction ends.  *)
Apply ==
  /\ \E c \in compared :
       LET result == Applied(db, ValidatedFile[c.file], c.school)
       IN  /\ \/ /\ result.refused # "no"
                /\ Reports(c.file, c.school, result.refused, NoSummary)
                /\ UNCHANGED db
             \/ /\ result.refused = "no"
                /\ Len(result.t.enrollment) <= MaxRows
                /\ db' = result.t
                /\ Reports(c.file, c.school, "completed", Summary(c.unchanged, result.counts))
           /\ compared' = Overtake(compared \ {c})
  /\ UNCHANGED operations

(* The worker dies, or the time limit of the task is reached. *)
Die ==
  /\ \E c \in compared : compared' = compared \ {c}
  /\ report' = NoReport
  /\ UNCHANGED <<db, operations>>

Import == Refuse \/ Compare \/ Apply \/ Die
=============================================================================
