----------------------------- MODULE Enrollment -----------------------------
(***************************************************************************)
(* Enrollments of students in classes (students app): create, change of    *)
(* class, transfer to another school and withdrawal or graduation; the     *)
(* capacity of a class (organizations app) and its update; the imports     *)
(* that write enrollments: of a comprehensive workbook, of a workbook of   *)
(* enrollments and of a data directory.                                    *)
(*                                                                         *)
(* A request is one READ COMMITTED transaction.  It takes its row locks    *)
(* one after the other and keeps them to the end; its checks read what is  *)
(* committed, and others see its writes when it commits.                   *)
(***************************************************************************)
EXTENDS Integers, FiniteSets

CONSTANTS
  Students, Classes,
  SchoolOf, YearOf,  \* the school and the academic year of a class
  Users,             \* requests running at the same time
  Offered,           \* which requests are made
  Importing,         \* whether workbooks are imported
  Ingesting,         \* whether a data directory is ingested
  MaxRows,           \* bound: enrollments ever created
  MaxCalls,          \* bound: requests ever made
  MaxCapacity,       \* bound: capacity of a class
  MaxDate            \* bound: days of an academic year

ASSUME EnrollmentAssumption ==
  /\ Offered \subseteq {"create", "change", "transfer", "status", "update"}
  /\ Importing \in BOOLEAN /\ Ingesting \in BOOLEAN
  /\ IsFiniteSet(Classes)
  /\ MaxRows \in Nat /\ MaxCalls \in Nat /\ MaxCapacity \in Nat /\ MaxDate \in Nat \ {0}
  /\ "nobody" \notin Students /\ "nowhere" \notin Classes

VARIABLES
  enrollment,     \* Enrollment rows, in the order of their creation
  capacity,       \* ClassSection.capacity
  studentStatus,  \* Student.status
  request,        \* the transaction of each request
  job,            \* the transaction of a workbook import
  unsynced,       \* history: students about whom a request was under way when
                  \*   another transaction committed, whom a workbook of
                  \*   enrollments has enrolled, or whom an ingest has left
                  \*   without an active enrollment
  ingested,       \* history: a data directory was ingested
  calls           \* counts against the bound

tables == <<enrollment, capacity, studentStatus>>
vars == <<tables, request, job, unsynced, ingested, calls>>

Rows  == 1 .. MaxRows
Dates == 1 .. MaxDate
Closed == {"transferred", "withdrawn", "graduated"}
Nobody == "nobody"
Nowhere == "nowhere"

NoRow == [student |-> Nobody, class |-> Nowhere, status |-> "absent", from |-> 0, to |-> 0]
(* left_on is set exactly when the enrollment is closed, and not before    *)
(* enrolled_on.                                                            *)
Enrollments ==
  {e \in [student : Students, class : Classes, status : Closed \cup {"active"},
          from : Dates, to : 0 .. MaxDate] :
     IF e.status = "active" THEN e.to = 0 ELSE e.from <= e.to}

Idle == [op |-> "none", step |-> "idle", student |-> Nobody, row |-> 0, class |-> Nowhere,
         date |-> 0, status |-> "active", seen |-> "active", decided |-> "keep"]
Requests ==
  [op : {"none", "create", "change", "transfer", "status", "update"},
   step : {"idle", "row", "class", "check", "commit"},
   student : Students \cup {Nobody}, row : 0 .. MaxRows, class : Classes \cup {Nowhere},
   date : 0 .. MaxDate, status : Closed \cup {"active"},
   seen : Closed \cup {"active"}, decided : Closed \cup {"active", "keep"}]

NoJob == [step |-> "idle"]
Jobs == [step : {"rows"}, class : Classes]
        \cup [step : {"commit"}, class : Classes, student : Students]

TypeOK ==
  /\ enrollment \in [Rows -> Enrollments \cup {NoRow}]
  /\ capacity \in [Classes -> 0 .. MaxCapacity]
  /\ studentStatus \in [Students -> Closed \cup {"active"}]
  /\ request \in [Users -> Requests]
  /\ job \in Jobs \cup {NoJob}
  /\ unsynced \subseteq Students
  /\ ingested \in BOOLEAN
  /\ calls \in 0 .. MaxCalls

Init ==
  /\ enrollment = [r \in Rows |-> NoRow]
  /\ capacity = [c \in Classes |-> MaxCapacity]
  /\ studentStatus = [s \in Students |-> "active"]
  /\ request = [u \in Users |-> Idle]
  /\ job = NoJob
  /\ unsynced = {}
  /\ ingested = FALSE
  /\ calls = 0

-----------------------------------------------------------------------------
(* Reading the tables; t is enrollment, or what it will be. *)
Of(t, s)     == {r \in Rows : t[r].student = s}
ActiveIn(t, c) == {r \in Rows : t[r].class = c /\ t[r].status = "active"}

(* uq_active_enrollment_student_year *)
OneActive(t) ==
  \A q, r \in Rows :
    /\ t[q].status = "active" /\ t[r].status = "active"
    /\ t[q].student = t[r].student
    /\ YearOf[t[q].class] = YearOf[t[r].class]
    => q = r

HasRoom(c) == Cardinality(ActiveIn(enrollment, c)) < capacity[c]

(* What _sync_student_status may decide on: ACTIVE if any enrollment is,   *)
(* else the status of one that was left last.                              *)
Desired(t, s) ==
  IF \E r \in Of(t, s) : t[r].status = "active"
    THEN {"active"}
    ELSE {t[r].status : r \in {q \in Of(t, s) : \A p \in Of(t, s) : t[p].to <= t[q].to}}

Overlap(s, others) ==
  unsynced' = IF \E v \in others : request[v].student = s
                  THEN unsynced \cup {s} ELSE unsynced

FreeRows ==
  {r \in Rows : /\ enrollment[r].status = "absent"
                /\ \A q \in 1 .. r - 1 : enrollment[q].status # "absent"}

(* The row locks: a request holds its enrollment after "row" and its class *)
(* after "class"; an import holds its class and then the enrollments of    *)
(* its student.                                                            *)
HoldsRow(u, r) == request[u].row = r /\ request[u].step \in {"class", "check", "commit"}
HoldsClass(u, c) == request[u].class = c

RowIsFree(r) ==
  /\ \A u \in Users : ~HoldsRow(u, r)
  /\ ~(job.step = "commit" /\ enrollment[r].student = job.student)
ClassIsFree(c) ==
  /\ \A u \in Users : ~HoldsClass(u, c)
  /\ ~(job # NoJob /\ job.class = c)

-----------------------------------------------------------------------------
(* A request begins, on a copy of its row that is read without a lock.     *)
(* What else it was sent is chosen in the step that first looks at it.     *)
Begin(u, q) ==
  /\ request[u] = Idle
  /\ q.op \in Offered
  /\ calls < MaxCalls
  /\ calls' = calls + 1
  /\ request' = [request EXCEPT ![u] = q]
  /\ UNCHANGED <<tables, job, unsynced, ingested>>

AskCreate(u, s) ==
  Begin(u, [Idle EXCEPT !.op = "create", !.step = "class", !.student = s,
                        !.seen = studentStatus[s]])

AskUpdate(u) == Begin(u, [Idle EXCEPT !.op = "update", !.step = "class"])

AskAbout(u, op, r) ==
  /\ enrollment[r].status # "absent"
  /\ Begin(u, [Idle EXCEPT !.op = op, !.step = "row", !.student = enrollment[r].student,
                           !.row = r, !.seen = studentStatus[enrollment[r].student]])

(* Plausible bug: the status is checked on the copy read without a lock,   *)
(* so that the locked row is taken as it is.                               *)
LockRowUnchecked(u) ==
  /\ request[u].step = "row"
  /\ RowIsFree(request[u].row)
  /\ request' = [request EXCEPT ![u].step = IF request[u].op = "status" THEN "check" ELSE "class"]
  /\ UNCHANGED <<tables, job, unsynced, ingested, calls>>

(* _locked_enrollment: its student is joined from a snapshot that may be   *)
(* as old as the wait for the lock.  A closed enrollment is refused.       *)
LockRow(u) ==
  LET q == request[u] IN
  /\ q.step = "row"
  /\ RowIsFree(q.row)
  /\ enrollment[q.row].status = "active"
  /\ \E seen \in {q.seen, studentStatus[q.student]} :
       request' = [request EXCEPT ![u].step = IF q.op = "status" THEN "check" ELSE "class",
                                  ![u].seen = seen]
  /\ UNCHANGED <<tables, job, unsynced, ingested, calls>>

LockClass(u, c) ==
  /\ request[u].step = "class"
  /\ ClassIsFree(c)
  /\ request' = [request EXCEPT ![u].step = "check", ![u].class = c]
  /\ UNCHANGED <<tables, job, unsynced, ingested, calls>>

Moves(q) ==
  LET old == enrollment[q.row] IN
  /\ q.class # old.class
  /\ YearOf[q.class] = YearOf[old.class]
  /\ IF q.op = "change" THEN SchoolOf[q.class] = SchoolOf[old.class] /\ q.date >= old.from
                        ELSE SchoolOf[q.class] # SchoolOf[old.class] /\ q.date > old.from

LeftOn(q) == q.date - 1

(* What q may make of the enrollments: a move on the first day changes the *)
(* row, a later one closes it and opens another.                           *)
OnFirstDay(q) == q.op = "change" /\ q.date = enrollment[q.row].from

After(q) ==
  CASE q.op = "create" ->
         {[enrollment EXCEPT ![r] =
             [student |-> q.student, class |-> q.class, status |-> q.status, from |-> q.date,
              to |-> IF q.status = "active" THEN 0 ELSE q.date]] : r \in FreeRows}
    [] q.op = "status" ->
         {[enrollment EXCEPT ![q.row].status = q.status, ![q.row].to = q.date]}
    [] q.op # "status" /\ OnFirstDay(q) ->
         {[enrollment EXCEPT ![q.row].class = q.class]}
    [] OTHER ->
         {[enrollment EXCEPT ![q.row].status = "transferred", ![q.row].to = LeftOn(q),
             ![r] = [student |-> q.student, class |-> q.class, status |-> "active",
                     from |-> q.date, to |-> 0]] : r \in FreeRows}

(* Plausible bug: off by one, a full class still has room for a student.   *)
AllowedPastCapacity(q) ==
  CASE q.op = "create"               -> Cardinality(ActiveIn(enrollment, q.class)) <= capacity[q.class]
    [] q.op \in {"change", "transfer"} -> HasRoom(q.class) /\ Moves(q) /\ q.status = "active"
    [] q.op = "status"               -> /\ q.status \in {"withdrawn", "graduated"}
                                        /\ q.date >= enrollment[q.row].from
    [] OTHER                         -> FALSE

Allowed(q) ==
  CASE q.op = "create"               -> HasRoom(q.class)
    [] q.op \in {"change", "transfer"} -> HasRoom(q.class) /\ Moves(q) /\ q.status = "active"
    [] q.op = "status"               -> /\ q.status \in {"withdrawn", "graduated"}
                                        /\ q.date >= enrollment[q.row].from
    [] OTHER                         -> FALSE

(* The checks pass, the rows are written and _sync_student_status decides  *)
(* by what is committed now and by its own writes.                         *)
Check(u, st, d) ==
  LET q == [request[u] EXCEPT !.step = "commit", !.status = st, !.date = d] IN
  /\ request[u].step = "check"
  /\ Allowed(q)
  /\ \E t \in After(q) :
       /\ OneActive(t)
       /\ \E s \in Desired(t, q.student) :
            request' = [request EXCEPT ![u] = [q EXCEPT !.decided =
              IF s = q.seen \/ (q.op = "change" /\ OnFirstDay(q)) THEN "keep" ELSE s]]
  /\ UNCHANGED <<tables, job, unsynced, ingested, calls>>

(* Plausible bug: the student's status is not written. *)
CommitWithoutSync(u) ==
  LET q == request[u] IN
  /\ q.step = "commit"
  /\ \E t \in After(q) : OneActive(t) /\ enrollment' = t
  /\ request' = [request EXCEPT ![u] = Idle]
  /\ UNCHANGED <<capacity, studentStatus, job, unsynced, ingested, calls>>

Commit(u) ==
  LET q == request[u] IN
  /\ q.step = "commit"
  /\ \E t \in After(q) : OneActive(t) /\ enrollment' = t
  /\ studentStatus' = IF q.decided = "keep"
                        THEN studentStatus ELSE [studentStatus EXCEPT ![q.student] = q.decided]
  /\ Overlap(q.student, Users \ {u})
  /\ request' = [request EXCEPT ![u] = Idle]
  /\ UNCHANGED <<capacity, job, ingested, calls>>

(* ClassSectionViewSet.perform_update: not below the active enrollments.   *)
Resize(u, n) ==
  LET c == request[u].class IN
  /\ request[u].op = "update" /\ request[u].step = "check"
  /\ Cardinality(ActiveIn(enrollment, c)) <= n
  /\ capacity' = [capacity EXCEPT ![c] = n]
  /\ request' = [request EXCEPT ![u] = Idle]
  /\ UNCHANGED <<enrollment, studentStatus, job, unsynced, ingested, calls>>

(* A check refuses the request, the unique constraint or PostgreSQL's      *)
(* deadlock detection stops it, or its process dies: all is rolled back.   *)
Rollback(u) ==
  /\ request[u] # Idle
  /\ request' = [request EXCEPT ![u] = Idle]
  /\ UNCHANGED <<tables, job, unsynced, ingested, calls>>

-----------------------------------------------------------------------------
(* apply_comprehensive_workbook, for a workbook with one class and one     *)
(* student: locks the class, then the student's enrollments of the year.   *)
ImportLocksClass(c) ==
  /\ Importing
  /\ job = NoJob
  /\ ClassIsFree(c)
  /\ job' = [step |-> "rows", class |-> c]
  /\ UNCHANGED <<tables, request, unsynced, ingested, calls>>

ImportLocksRows(s) ==
  /\ job.step = "rows"
  /\ \A r \in Of(enrollment, s) : RowIsFree(r)
  /\ job' = [step |-> "commit", class |-> job.class, student |-> s]
  /\ UNCHANGED <<tables, request, unsynced, ingested, calls>>

(* The student's row that an import reuses: the one updated last, which is *)
(* any of them here; a new one if there is none.  An ACTIVE one of another *)
(* school stops the import.                                                *)
Reusable(s, c, r) ==
  LET rows == {q \in Of(enrollment, s) : YearOf[enrollment[q].class] = YearOf[c]} IN
  r \in IF rows = {} THEN FreeRows ELSE rows

Imported(s, c, r) ==
  [enrollment EXCEPT ![r] = [student |-> s, class |-> c, status |-> "active",
                             from |-> 1, to |-> 0]]

ImportCommits(n) ==
  LET s == job.student
      c == job.class
  IN
  /\ job.step = "commit"
  /\ \E r \in Rows :
       /\ Reusable(s, c, r)
       /\ enrollment[r].status = "active" => SchoolOf[enrollment[r].class] = SchoolOf[c]
       /\ OneActive(Imported(s, c, r))
       /\ Cardinality(ActiveIn(Imported(s, c, r), c)) <= n
       /\ enrollment' = Imported(s, c, r)
  /\ capacity' = [capacity EXCEPT ![c] = n]
  /\ studentStatus' = [studentStatus EXCEPT ![s] = "active"]
  /\ job' = NoJob
  /\ Overlap(s, Users)
  /\ UNCHANGED <<request, ingested, calls>>

ImportRollsBack ==
  /\ job # NoJob
  /\ job' = NoJob
  /\ UNCHANGED <<tables, request, unsynced, ingested, calls>>

(* The retry of an old workbook of enrollments, with one row: its classes  *)
(* are locked and counted and the rows saved in one transaction, which     *)
(* leaves the student alone.  New ones can no longer be uploaded.          *)
ImportEnrollments(s, c) ==
  /\ Importing
  /\ ClassIsFree(c)
  /\ HasRoom(c)
  /\ \E d \in Dates :
       \E t \in After([Idle EXCEPT !.op = "create", !.student = s, !.class = c, !.date = d]) :
         OneActive(t) /\ enrollment' = t
  /\ unsynced' = unsynced \cup {s}
  /\ UNCHANGED <<capacity, studentStatus, request, job, ingested, calls>>

(* DirectDataIngestor._upsert_enrollment, one class and one student of a    *)
(* workbook that counts nobody.  It locks nothing first, but its UPDATEs   *)
(* of the class and of the enrollment wait for the locks of others; an     *)
(* ACTIVE enrollment in another class is kept as it is.                    *)
Ingest(s, c) ==
  /\ Ingesting
  /\ ClassIsFree(c)
  /\ \E r \in Rows :
       /\ Reusable(s, c, r)
       /\ RowIsFree(r)
       /\ IF enrollment[r].status = "active" /\ enrollment[r].class # c
            THEN UNCHANGED enrollment
            ELSE OneActive(Imported(s, c, r)) /\ enrollment' = Imported(s, c, r)
  /\ studentStatus' = [studentStatus EXCEPT ![s] = "active"]
  /\ Overlap(s, Users)
  /\ ingested' = TRUE
  /\ UNCHANGED <<capacity, request, job, calls>>

(* It leaves the enrollments as they are when the workbook does not define *)
(* the class, the number is taken or full_clean refuses the row, and when  *)
(* the run remembers an enrollment as ACTIVE in another class, which may   *)
(* have been closed since.  The student, saved ACTIVE before, is committed *)
(* all the same.                                                           *)
OnlyClosed(s) ==
  Of(enrollment, s) # {} /\ \A r \in Of(enrollment, s) : enrollment[r].status # "active"

IngestStudentOnly(s) ==
  /\ Ingesting
  /\ studentStatus' = [studentStatus EXCEPT ![s] = "active"]
  /\ unsynced' = IF OnlyClosed(s) \/ \E u \in Users : request[u].student = s
                   THEN unsynced \cup {s} ELSE unsynced
  /\ ingested' = TRUE
  /\ UNCHANGED <<enrollment, capacity, request, job, calls>>

-----------------------------------------------------------------------------
Ask(u) ==
  \/ \E s \in Students : AskCreate(u, s)
  \/ \E op \in {"change", "transfer", "status"}, r \in Rows : AskAbout(u, op, r)
  \/ AskUpdate(u)

RequestStep(u) ==
  \/ LockRow(u)
  \/ \E c \in Classes : LockClass(u, c)
  \/ \E st \in Closed \cup {"active"}, d \in Dates : Check(u, st, d)
  \/ Commit(u)
  \/ \E n \in 0 .. MaxCapacity : Resize(u, n)
  \/ Rollback(u)

ImportStep ==
  \/ \E c \in Classes : ImportLocksClass(c)
  \/ \E s \in Students : ImportLocksRows(s)
  \/ \E n \in 0 .. MaxCapacity : ImportCommits(n)
  \/ ImportRollsBack
  \/ \E s \in Students, c \in Classes : ImportEnrollments(s, c)

Next ==
  \/ \E u \in Users : Ask(u) \/ RequestStep(u)
  \/ ImportStep
  \/ \E s \in Students : IngestStudentOnly(s) \/ \E c \in Classes : Ingest(s, c)

Spec == Init /\ [][Next]_vars
-----------------------------------------------------------------------------
(* A class never has more active enrollments than its capacity: not when   *)
(* several requests want the last seat, nor when the capacity is lowered   *)
(* at the same time.  The ingest of a data directory counts nobody.        *)
NoClassOverbooked ==
  ~ingested => \A c \in Classes : Cardinality(ActiveIn(enrollment, c)) <= capacity[c]

(* Student.status follows the enrollments, through requests, imports and   *)
(* ingests, unless transactions about the student overlapped, a workbook   *)
(* of enrollments, which does not set it, enrolled the student, or an      *)
(* ingest made ACTIVE a student to whom it left closed enrollments only.   *)
StatusFollowsEnrollments ==
  \A s \in Students \ unsynced :
    Of(enrollment, s) # {} => studentStatus[s] \in Desired(enrollment, s)

(* An enrollment that has been closed is never written again by a request, *)
(* and what closes it is decided once; only an import opens it again.      *)
ClosedStaysClosed ==
  [][request' # request =>
       \A r \in Rows : enrollment[r].status \in Closed => enrollment'[r] = enrollment[r]]_vars
=============================================================================
