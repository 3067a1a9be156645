----------------------------- MODULE SchoolData -----------------------------
(***************************************************************************)
(* Import jobs, the ingest of a directory, and requests, on one set of     *)
(* tables.  What a job writes, and a file of the ingest, is written in one *)
(* transaction each.                                                       *)
(***************************************************************************)
EXTENDS WorkbookImport, DirectIngest

dataVars == <<db, operations, compared, report, run>>

Scores == UNION {[M -> 0 .. 5] : M \in SUBSET UNION {Metrics(v) : v \in Versions}}
DataTypeOK ==
  /\ \A k \in Schools \X Codes :
       \/ db.class[k] = Absent
       \/ db.class[k].live \in BOOLEAN /\ db.class[k].grade \in Grades /\ db.class[k].capacity \in 1 .. 1000
  /\ \A n \in NationalIds :
       db.student[n] = Absent \/ db.student[n] \in [live : BOOLEAN, person : Persons, active : BOOLEAN]
  /\ \A i, j \in DOMAIN db.enrollment :
       LET e == db.enrollment[i]
       IN  /\ e.student \in NationalIds /\ e.school \in Schools /\ e.class \in Codes
           /\ e.grade \in Grades /\ e.status \in {"active", "closed"}
           /\ e.id = db.enrollment[j].id => i = j
  /\ \A v \in db.evaluation : v.scores \in Scores /\ v.month \in EvaluationMonths /\ v.version \in Versions
  /\ operations \in 0 .. MaxOperations

DataInit ==
  /\ db = EmptyTables
  /\ operations = 0
  /\ compared = {}
  /\ report = NoReport
  /\ run = NoIngest

OtherThanImports ==
  /\ (StartIngest \/ IngestFile \/ EndRun) \/ (SchoolRequests /\ UNCHANGED run)
  /\ report' = NoReport
  /\ compared' = Overtake(compared)

DataNext == (Import /\ UNCHANGED run) \/ OtherThanImports

DataSpec == DataInit /\ [][DataNext]_dataVars

-----------------------------------------------------------------------------
IsImport == report'.outcome # "none"
IsIngested == Len(run'.files) < Len(run.files)
IsCompleted == report'.outcome = "completed"

Content(t) == [t EXCEPT !.enrollment = ToSet(@)]

(* A completed import can be repeated: the same workbook completes again,  *)
(* changes no row, and reports that nothing was created or updated         *)
(* (_snapshot_change_counts).                                              *)
ReimportChangesNothing ==
  [][IsImport /\ IsCompleted =>
       LET p == ValidatedFile[report'.file]
           again == Applied(db', p, report'.school)
           summary == Summary(Unchanged(db', p, report'.school), again.counts)
       IN  /\ again.refused = "no"
           /\ Content(again.t) = Content(db')
           /\ \A k \in Kinds : summary[k].created = 0 /\ summary[k].updated = 0]_dataVars

(* The summary of an import tells what has become of a table, although it  *)
(* is put together from counts of the upserts and from a comparison made   *)
(* before them: what was created always, and what was updated unless       *)
(* something else has written, between the comparison and the upserts, a   *)
(* table that the comparison read for it.                                  *)
Changed(kind) ==
  CASE kind = "class" -> Cardinality({k \in Schools \X Codes :
                           db.class[k] # Absent /\ db.class[k] # db'.class[k]})
    [] kind = "student" -> Cardinality({n \in NationalIds :
                           db.student[n] # Absent /\ db.student[n] # db'.student[n]})
    [] kind = "enrollment" -> Cardinality({e \in Enrollments(db) : e \notin Enrollments(db')})
    [] kind = "evaluation" -> Cardinality(db.evaluation \ db'.evaluation)

Created(kind) ==
  CASE kind = "class" -> Cardinality({k \in Schools \X Codes :
                           db.class[k] = Absent /\ db'.class[k] # Absent})
    [] kind = "student" -> Cardinality({n \in NationalIds :
                           db.student[n] = Absent /\ db'.student[n] # Absent})
    [] kind = "enrollment" -> Len(db'.enrollment) - Len(db.enrollment)
    [] kind = "evaluation" -> Cardinality(db'.evaluation) - Cardinality(db.evaluation)

Reads(kind) == IF kind = "evaluation" THEN {"enrollment", "evaluation"} ELSE {kind}

SummaryTellsTheTruth ==
  [][IsImport /\ IsCompleted =>
       \A c \in compared, k \in Kinds :
         <<c.file, c.school>> = <<report'.file, report'.school>> =>
           /\ report'.summary[k].created = Created(k)
           /\ c.overtaken \cap Reads(k) = {} => report'.summary[k].updated = Changed(k)]_dataVars

(* After a completed import every student of the workbook has one active   *)
(* enrollment, in the class the workbook gives, and no class of the        *)
(* workbook has more students than seats.                                  *)
ListedAreEnrolled ==
  [][IsImport /\ IsCompleted =>
       LET p == ValidatedFile[report'.file]
       IN  /\ \A x \in ToSet(p.students) :
                \E e \in Of(db', x.nid) :
                  /\ {o \in Of(db', x.nid) : IsActive(o)} = {e}
                  /\ <<e.school, e.class>> = <<report'.school, x.class>>
           /\ \A x \in ToSet(p.classes) :
                Cardinality(ActiveIn(db', report'.school, x.code)) <= x.capacity]_dataVars

(* What one school reads leaves the active enrollments of another as they  *)
(* are, and their evaluations too, with two exceptions of the ingest: it   *)
(* writes the evaluations of a student whom its file names wherever he is  *)
(* enrolled, and it may bring back the row it remembers of an enrollment   *)
(* that has moved to the other school since.                               *)
Named(w) == {x.nid : x \in ToSet(w.students) \cup ToSet(w.evaluations)}
IsRemembered(e) == run.cache.enrollment[e.student] \notin {NoRow, e}

StaysElsewhere ==
  IsImport \/ IsIngested =>
    LET s == IF IsIngested THEN run.school ELSE report'.school
        named == IF IsIngested THEN Named(Workbooks[run'.last.file]) ELSE {}
        of(t, e) == {v \in t.evaluation : v.enrollment = e.id}
    IN  \A e \in Enrollments(db) :
          IsActive(e) /\ e.school # s =>
            /\ e \in Enrollments(db') \/ (IsIngested /\ IsRemembered(e))
            /\ of(db', e) = of(db, e) \/ e.student \in named

ElsewhereIsUntouched == [][StaysElsewhere]_dataVars
=============================================================================
