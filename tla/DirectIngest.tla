---------------------------- MODULE DirectIngest ----------------------------
(***************************************************************************)
(* The ingest of a directory of school workbooks without import jobs: one  *)
(* transaction for each file, with the rows found by earlier files kept in *)
(* memory from file to file.  What a file says is compared with the rows   *)
(* that are there, the first source wins, and every difference is an       *)
(* issue; so is every row that cannot be used.                             *)
(***************************************************************************)
EXTENDS SchoolRecords

CONSTANT Directories   \* what may be mounted: sequences of files

ASSUME DirectoriesAssumption == Directories \subseteq Seq(DOMAIN Workbooks)

VARIABLE
  run   \* the run under way: its school, whether there is a user to record
        \*   evaluations for, the files left, what it keeps in memory, and the
        \*   last file with its status

NoRow == [id |-> 0]

(* _IngestState *)
EmptyCache ==
  [class |-> [c \in Codes |-> Absent],
   student |-> [n \in NationalIds |-> Absent],
   enrollment |-> [n \in NationalIds |-> NoRow]]

NoFile == [file |-> Empty, status |-> "none"]
NoIngest == [school |-> Empty, hasActor |-> FALSE, files |-> <<>>, cache |-> EmptyCache, last |-> NoFile]

-----------------------------------------------------------------------------
(* One file.  acc holds the tables and the memory so far, the enrollments  *)
(* of the file by local code, the issues, and whether a statement has      *)
(* failed, after which nothing more is done.                               *)
Issue(acc, code) == [acc EXCEPT !.issues = @ \cup {code}]
IssueIf(acc, isSo, code) == IF isSo THEN Issue(acc, code) ELSE acc
Broken(acc) == [acc EXCEPT !.failed = TRUE]

Found(cached, stored) == IF cached # Absent THEN cached ELSE stored

(* save(update_fields) of a row in memory fails when the table has no such *)
(* row, which happens when the file that created it was rolled back.       *)
IngestClass(s, acc, row) ==
  LET key == <<s, row.code>>
      stored == acc.t.class[key]
      existing == Found(acc.cache.class[row.code], stored)
      capacity == IF row.capacity = NotANumber THEN 30 ELSE IF row.capacity < 1 THEN 1 ELSE row.capacity
      differs == \/ existing.grade # row.grade
                 \/ row.title # Empty /\ existing.title # row.title
                 \/ existing.capacity # capacity
      noted == IssueIf(acc, row.capacity = NotANumber, "class_capacity")
      new == [live |-> TRUE, grade |-> row.grade, capacity |-> capacity,
              title |-> IF row.title = Empty THEN row.code ELSE row.title]
  IN  IF acc.failed \/ row.code = Empty THEN acc
      ELSE IF row.grade \notin Grades THEN Issue(acc, "class_reference")
      ELSE IF existing = Absent THEN
        [noted EXCEPT !.t.class[key] = new, !.cache.class[row.code] = new]
      ELSE IF stored = Absent THEN Broken(IssueIf(noted, differs, "class_conflict"))
      ELSE [IssueIf(noted, differs, "class_conflict")
              EXCEPT !.t.class[key].live = TRUE,
                     !.cache.class[row.code] = [existing EXCEPT !.live = TRUE]]

IngestStudent(acc, row) ==
  LET stored == acc.t.student[row.nid]
      existing == Found(acc.cache.student[row.nid], stored)
      new == [live |-> TRUE, person |-> row.person, active |-> TRUE]
      noted == IssueIf(acc, row.person # existing.person, "student_conflict")
  IN  IF row.nid = Unreadable THEN Issue(acc, "student_identity")
      ELSE IF existing = Absent THEN
        IF row.person = Unreadable THEN Issue(acc, "student_write")
        ELSE [acc EXCEPT !.t.student[row.nid] = new, !.cache.student[row.nid] = new]
      ELSE IF stored = Absent THEN Broken(noted)
      ELSE [noted EXCEPT !.t.student[row.nid] = [stored EXCEPT !.live = TRUE, !.active = TRUE],
                         !.cache.student[row.nid] = [existing EXCEPT !.live = TRUE, !.active = TRUE]]

IsWritten(acc, nid) == nid # Unreadable /\ acc.cache.student[nid] # Absent

FreshId(acc) ==
  Min({0} \cup Ids(acc.t) \cup {acc.cache.enrollment[n].id : n \in NationalIds}) - 1

(* An active row of another class, or of another school, is kept and used; *)
(* any other is rewritten from memory, unless the class that memory holds  *)
(* is not in the table.                                                    *)
IngestEnrollment(s, acc, row) ==
  LET section == acc.cache.class[row.class]
      cached == acc.cache.enrollment[row.nid]
      isKnown == cached # NoRow \/ Of(acc.t, row.nid) # {}
      existing == IF cached # NoRow THEN cached ELSE NewestOf(acc.t, row.nid)
      isElsewhere == isKnown /\ IsActive(existing)
                     /\ <<existing.school, existing.class>> # <<s, row.class>>
      written == [id |-> IF isKnown THEN existing.id ELSE FreshId(acc), student |-> row.nid,
                  school |-> s, class |-> row.class, grade |-> section.grade,
                  number |-> IF row.number = <<>> THEN <<row.nid>> ELSE row.number,
                  status |-> "active"]
      used(a, e) == [a EXCEPT !.cache.enrollment[row.nid] = e, !.local[row.local] = e]
  IN  IF row.class = Empty \/ section = Absent THEN Issue(acc, "enrollment_class")
      ELSE IF isElsewhere THEN used(Issue(acc, "enrollment_conflict"), existing)
      ELSE IF \/ acc.t.class[<<s, row.class>>] = Absent
              \/ NumberIsTaken(acc.t, written) \/ StudentIsTaken(acc.t, written)
        THEN Issue(acc, "enrollment_write")
      ELSE used([acc EXCEPT !.t = SaveEnrollment(@, written)], written)

IngestStudentRow(s, acc, row) ==
  LET known == IngestStudent(acc, row)
  IN  IF acc.failed THEN acc
      ELSE IF known.failed \/ ~IsWritten(known, row.nid) THEN known
      ELSE IngestEnrollment(s, known, row)

(* _read_comprehensive: evaluations that record nothing are passed over.   *)
IsShown(row) == DOMAIN row.metrics # {} \/ row.note # Empty

(* .first() of the evaluations of a month, deleted ones included, in no    *)
(* particular order: how.pickDeleted says which comes first.  Bringing     *)
(* back a deleted one beside a live one breaks the transaction.            *)
IngestEvaluation(how, acc, row) ==
  LET cached == IF row.nid \in NationalIds /\ acc.cache.student[row.nid] # Absent
                  THEN acc.cache.enrollment[row.nid] ELSE NoRow
      e == IF cached # NoRow THEN cached
           ELSE IF row.local = 0 THEN NoRow ELSE acc.local[row.local]
      known == {m \in DOMAIN row.metrics : m \in Metrics(Current)}
      usable == {m \in known : Normalized(row.metrics[m]) # {}}
      noted == IssueIf(IssueIf(acc, known # DOMAIN row.metrics, "metric_code"),
                       usable # known, "metric_value")
      scores == [m \in usable |-> CHOOSE v \in Normalized(row.metrics[m]) : TRUE]
      rows == {v \in acc.t.evaluation :
                 v.enrollment = e.id /\ v.month = row.month /\ v.version = Current}
      live == {v \in rows : v.live}
      first == IF (how.pickDeleted /\ rows # live) \/ live = {} THEN rows \ live ELSE live
      saved(old, had) ==
        [noted EXCEPT !.t = Replace(@, old, [enrollment |-> e.id, month |-> row.month,
                                             version |-> Current, live |-> TRUE,
                                             note |-> row.note, scores |-> Scored(had, scores)])]
  IN  IF acc.failed \/ ~IsShown(row) THEN acc
      ELSE IF e = NoRow THEN Issue(acc, "evaluation_identity")
      ELSE IF row.month \notin EvaluationMonths THEN Issue(acc, "evaluation_month")
      ELSE IF ~how.hasActor THEN Issue(acc, "evaluation_actor")
      ELSE IF \E m \in known : row.metrics[m] = NotANumber THEN Broken(noted)
      ELSE IF rows = {} THEN saved({}, NoScores)
      ELSE IF live # {} /\ first # live THEN Broken(noted)
      ELSE LET v == CHOOSE x \in first : TRUE IN saved({v}, v.scores)

IngestClasses(s, acc, rows) == FoldLeft(LAMBDA a, x : IngestClass(s, a, x), acc, rows)
IngestStudents(s, acc, rows) == FoldLeft(LAMBDA a, x : IngestStudentRow(s, a, x), acc, rows)
IngestEvaluations(how, acc, rows) ==
  FoldLeft(LAMBDA a, x : IngestEvaluation(how, a, x), acc, rows)

LocalCodes(w) == {x.local : x \in ToSet(w.students) \cup ToSet(w.evaluations)}

(* _ingest_comprehensive *)
Ingested(t, cache, s, w, how) ==
  LET begin == [t |-> t, cache |-> cache, failed |-> FALSE, issues |-> {},
                local |-> [i \in LocalCodes(w) |-> NoRow]]
      students == IngestStudents(s, IngestClasses(s, begin, w.classes), w.students)
  IN  IngestEvaluations(how, students, w.evaluations)

(* The foreign keys are looked at when the transaction commits.            *)
Commits(acc) ==
  /\ ~acc.failed
  /\ \A v \in acc.t.evaluation : \E e \in Enrollments(acc.t) : e.id = v.enrollment

-----------------------------------------------------------------------------
StartIngest ==
  /\ run = NoIngest
  /\ Counts
  /\ \E s \in Schools, hasActor \in BOOLEAN, files \in Directories :
       run' = [NoIngest EXCEPT !.school = s, !.hasActor = hasActor, !.files = files]
  /\ UNCHANGED db

IngestFile ==
  /\ run.files # <<>>
  /\ \E pickDeleted \in BOOLEAN :
       LET f == Head(run.files)
           how == [pickDeleted |-> pickDeleted, hasActor |-> run.hasActor]
           result == Ingested(db, run.cache, run.school, Workbooks[f], how)
           status == IF ~Commits(result) THEN "failed"
                     ELSE IF result.issues = {} THEN "completed" ELSE "partial"
       IN  /\ Len(result.t.enrollment) <= MaxRows
           /\ db' = IF status = "failed" THEN db ELSE result.t
           /\ run' = [run EXCEPT
                !.files = Tail(@), !.cache = result.cache,
                !.last = [file |-> f, status |-> status]]
  /\ UNCHANGED operations

(* The run is over, or its process dies between two files. *)
EndRun ==
  /\ run # NoIngest
  /\ run' = NoIngest
  /\ UNCHANGED <<db, operations>>
=============================================================================
