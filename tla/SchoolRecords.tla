--------------------------- MODULE SchoolRecords ---------------------------
(***************************************************************************)
(* The tables that both ways of reading school workbooks write: classes,   *)
(* students, enrollments, monthly evaluations with their metric scores;    *)
(* and what requests do to them meanwhile.  One academic year.             *)
(*                                                                         *)
(* A workbook is what its cells say once texts are trimmed and digits      *)
(* translated.  A cell that cannot be read as what it should be is         *)
(* Unreadable, an empty one is Empty.                                      *)
(***************************************************************************)
EXTENDS Integers, SequencesExt

CONSTANTS
  Schools, Codes, NationalIds,
  Persons,      \* name, gender and date of birth of a student, as one value
  Grades, EvaluationMonths,
  Catalogs,     \* METRIC_CATALOGS: the codes of each framework version
  Current,      \* FRAMEWORK_VERSION
  Workbooks,    \* what each file holds
  MaxRows,      \* bound: enrollments ever created
  MaxOperations \* bound: import jobs, runs of the ingest, and requests, together

Empty == "empty"
Unreadable == "unreadable"
NotANumber == -1   \* a cell that Decimal reads as NaN

(* A sheet has any number of lines; a line has the columns that are read.  *)
IsSheet(rows) == rows \in Seq(ToSet(rows))
IsWorkbook(w) ==
  /\ IsSheet(w.classes) /\ IsSheet(w.students) /\ IsSheet(w.evaluations)
  /\ \A x \in ToSet(w.classes) : DOMAIN x = {"code", "title", "grade", "capacity"}
  /\ \A x \in ToSet(w.students) :
       /\ DOMAIN x = {"local", "nid", "number", "person", "class"}
       /\ x.nid \in NationalIds \cup {Unreadable}

ASSUME SchoolRecordsAssumption ==
  /\ Current \in DOMAIN Catalogs
  /\ \A v \in DOMAIN Catalogs : Catalogs[v] # <<>>
  /\ IsFiniteSet(NationalIds)
  /\ \A f \in DOMAIN Workbooks : IsWorkbook(Workbooks[f])
  /\ MaxRows \in Nat /\ MaxOperations \in Nat

VARIABLES
  db,        \* the tables
  operations \* counts against the bound

Absent == [live |-> FALSE, title |-> Empty]

Versions == DOMAIN Catalogs
Metrics(v) == ToSet(Catalogs[v])

(* The number of an enrollment is the text of a cell, with the suffix that *)
(* makes a repeated one unique.                                            *)
EmptyTables ==
  [class |-> [k \in Schools \X Codes |-> Absent],
   student |-> [n \in NationalIds |-> Absent],
   enrollment |-> <<>>,     \* in the order of updated_at
   evaluation |-> {}]

-----------------------------------------------------------------------------
(* Reading the tables; t is db, or what a transaction has made of it.      *)
Enrollments(t) == ToSet(t.enrollment)
IsActive(e) == e.status = "active"

Of(t, n) == {e \in Enrollments(t) : e.student = n}
NewestOf(t, n) ==
  t.enrollment[Max({i \in DOMAIN t.enrollment : t.enrollment[i].student = n})]
ActiveIn(t, s, c) ==
  {e \in Enrollments(t) : e.school = s /\ e.class = c /\ IsActive(e)}

(* uq_active_enrollment_student_year, uq_active_student_number_school_year *)
StudentIsTaken(t, e) ==
  \E x \in Enrollments(t) : x.id # e.id /\ IsActive(x) /\ x.student = e.student
NumberIsTaken(t, e) ==
  \E x \in Enrollments(t) :
    x.id # e.id /\ IsActive(x) /\ x.school = e.school /\ x.number = e.number

-----------------------------------------------------------------------------
(* Writing them: save() brings the row to the end of the order of          *)
(* updated_at, and inserts one that is not there.                          *)
Without(rows, id) ==
  LET at == {i \in DOMAIN rows : rows[i].id = id}
  IN  IF at = {} THEN rows ELSE RemoveAt(rows, CHOOSE i \in at : TRUE)

SaveEnrollment(t, e) == [t EXCEPT !.enrollment = Append(Without(@, e.id), e)]

(* The ingest of a directory numbers its rows below zero.                  *)
Ids(t) == {e.id : e \in Enrollments(t)}
NewId(t) == Max({0} \cup Ids(t)) + 1

Replace(t, old, new) == [t EXCEPT !.evaluation = (@ \ old) \cup {new}]

(* update_or_create, or the bulk upsert, of the scores of one evaluation.  *)
Scored(old, scores) ==
  [m \in DOMAIN old \cup DOMAIN scores |-> IF m \in DOMAIN scores THEN scores[m] ELSE old[m]]

NoScores == [m \in {} |-> 0]

(* A score of 0 to 5, or one of 20 that is four times such a score.        *)
Normalized(v) == IF v \in 0 .. 5 THEN {v}
                 ELSE IF v \in 6 .. 20 /\ v % 4 = 0 THEN {v \div 4}
                 ELSE {}

-----------------------------------------------------------------------------
(* Requests. *)
Counts ==
  /\ operations < MaxOperations
  /\ operations' = operations + 1

Request(t) == Counts /\ db' = t

(* The enrollment services close a row, and open another for a new class.  *)
Closed(t, e) == SaveEnrollment(t, [e EXCEPT !.status = "closed"])

Leave ==
  \E e \in {x \in Enrollments(db) : IsActive(x)} :
    Request([Closed(db, e) EXCEPT !.student[e.student].active = FALSE])

HasSeat(s, c) ==
  /\ db.class[<<s, c>>].live
  /\ Cardinality(ActiveIn(db, s, c)) < db.class[<<s, c>>].capacity

MoveTo ==
  \E e \in {x \in Enrollments(db) : IsActive(x)}, s \in Schools, c \in Codes :
    LET class == db.class[<<s, c>>]
        opened == [e EXCEPT !.id = NewId(db), !.school = s, !.class = c, !.grade = class.grade]
        t == Closed(db, e)
    IN  /\ Len(db.enrollment) < MaxRows
        /\ HasSeat(s, c) /\ <<s, c>> # <<e.school, e.class>>
        /\ s = e.school => class.grade = e.grade
        /\ ~NumberIsTaken(t, opened)
        /\ Request(SaveEnrollment(t, opened))

(* On the day an enrollment began its class is changed in the row itself.  *)
ChangeFirstClass ==
  \E e \in {x \in Enrollments(db) : IsActive(x)} : \E c \in Codes \ {e.class} :
    /\ HasSeat(e.school, c) /\ db.class[<<e.school, c>>].grade = e.grade
    /\ Request(SaveEnrollment(db, [e EXCEPT !.class = c]))

(* A class that no enrollment refers to may be deleted.                    *)
RemoveClass ==
  \E k \in Schools \X Codes :
    /\ db.class[k].live
    /\ \A e \in Enrollments(db) : <<e.school, e.class>> # k
    /\ Request([db EXCEPT !.class[k].live = FALSE])

(* upsert_manual_evaluation: the live evaluation, or else a deleted one,   *)
(* which keeps the scores it had; or else a new one.                       *)
EnterByHand ==
  \E e \in {x \in Enrollments(db) : IsActive(x)}, m \in EvaluationMonths,
     i \in DOMAIN Catalogs[Current], value \in 0 .. 1 :
    LET rows == {v \in db.evaluation : v.enrollment = e.id /\ v.month = m /\ v.version = Current}
        live == {v \in rows : v.live}
        entry == [metric \in {Catalogs[Current][i]} |-> value]
        new(old, had) ==
          Request(Replace(db, old, [enrollment |-> e.id, month |-> m, version |-> Current,
                                    live |-> TRUE, note |-> Empty, scores |-> Scored(had, entry)]))
    IN  IF rows = {} THEN new({}, NoScores)
        ELSE \E v \in IF live # {} THEN live ELSE rows : new({v}, v.scores)

DeleteEvaluation ==
  \E v \in {x \in db.evaluation : x.live} :
    Request(Replace(db, {v}, [v EXCEPT !.live = FALSE]))

SchoolRequests ==
  Leave \/ MoveTo \/ ChangeFirstClass \/ RemoveClass \/ EnterByHand \/ DeleteEvaluation
=============================================================================
