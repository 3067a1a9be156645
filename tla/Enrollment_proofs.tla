------------------------- MODULE Enrollment_proofs --------------------------
(***************************************************************************)
(* Proofs about Enrollment.                                                *)
(*                                                                         *)
(* A request holds its locks to the end of its transaction, so that what   *)
(* it checked still holds when it commits: the enrollment it locked is     *)
(* ACTIVE and nobody else's (RowsInHand), its class is nobody else's       *)
(* (ClassesInHand) and still has the seat it counted (SeatIsKept).  The    *)
(* status of a student is read without a lock; it is right at the end only *)
(* where nobody else committed anything about the student meanwhile, which *)
(* is what unsynced remembers (SeenIsCurrent, DecisionStands).             *)
(***************************************************************************)
EXTENDS Enrollment, FiniteSetTheorems, TLAPS

ByRow     == {"change", "transfer", "status"}
Reserving == {"create", "change", "transfer"}
Locked    == {"class", "check", "commit"}

(* What request q is about, and which steps it can be at.                  *)
SubjectOf(q) ==
  /\ q.op \in ByRow => /\ q.row \in Rows
                       /\ enrollment[q.row].status # "absent"
                       /\ enrollment[q.row].student = q.student
  /\ q.op = "create" => q.student \in Students /\ q.row = 0
  /\ q.op \in {"none", "update"} => q.student = Nobody /\ q.row = 0
  /\ q.step = "row" => q.op \in ByRow
  /\ q.step = "commit" => q.op \in Reserving \cup {"status"} /\ q.date \in Dates
  /\ q.step \in {"check", "commit"} /\ q.op # "status" => q.class \in Classes

(* An enrollment that q has locked stays ACTIVE, and before q commits its  *)
(* date has been compared with the first day of the enrollment.            *)
InHand(q) ==
  q.op \in ByRow /\ q.step \in Locked =>
    /\ enrollment[q.row].status = "active"
    /\ job.step = "commit" => job.student # q.student
    /\ q.step = "commit" =>
         /\ q.date >= enrollment[q.row].from
         /\ q.op = "transfer" => q.date > enrollment[q.row].from
         /\ q.op = "status" => q.status \in {"withdrawn", "graduated"}

Subject == \A u \in Users : SubjectOf(request[u])
RowsInHand ==
  /\ \A u \in Users : InHand(request[u])
  /\ \A u, v \in Users, r \in Rows : HoldsRow(u, r) /\ HoldsRow(v, r) => u = v

(* A class is locked by one transaction at a time.                         *)
ClassesInHand ==
  /\ \A u, v \in Users : request[u].class = request[v].class /\ request[u].class # Nowhere => u = v
  /\ job # NoJob => \A u \in Users : request[u].class # job.class

(* A request that has counted the seats of its class still finds one free. *)
SeatIsKept ==
  ~ingested => \A u \in Users :
    request[u].step = "commit" /\ request[u].op \in Reserving => HasRoom(request[u].class)

LockInv == TypeOK /\ Subject /\ RowsInHand /\ ClassesInHand

(* What q has been checked for when it writes.                             *)
Ready(q) ==
  /\ q \in Requests /\ q.op \in Reserving \cup {"status"} /\ q.date \in Dates
  /\ q.op = "create" => q.student \in Students /\ q.row = 0
  /\ q.op # "status" => q.class \in Classes
  /\ q.op \in ByRow =>
       /\ q.row \in Rows /\ enrollment[q.row].status = "active"
       /\ enrollment[q.row].student = q.student
       /\ q.date >= enrollment[q.row].from
       /\ q.op = "transfer" => q.date > enrollment[q.row].from
       /\ q.op = "status" => q.status \in {"withdrawn", "graduated"}

(* What request q may write: the row it has locked, which stays the same   *)
(* student's and is closed or, on its first day, moved; and one new row of *)
(* its student and class.                                                  *)
Written(q, t) ==
  /\ t \in [Rows -> Enrollments \cup {NoRow}]
  /\ \A r \in Rows :
       \/ t[r] = enrollment[r]
       \/ /\ q.op \in ByRow /\ r = q.row
          /\ t[r].student = enrollment[r].student /\ t[r].status # "absent"
          /\ t[r].status \in Closed \/ (q.op # "status" /\ t[r].class = q.class)
       \/ /\ enrollment[r].status = "absent" /\ q.op # "status"
          /\ t[r].student = q.student /\ t[r].class = q.class
  /\ q.op # "status" => \E n \in Rows :
       \A r \in Rows : t[r] # enrollment[r] /\ r # n => t[r].status \in Closed

(* The records of the student of q when q is through with table t,         *)
(* wherever they are in it: those it leaves alone, and those it writes.    *)
NewRecords(t, q) ==
  CASE q.op = "create" ->
         {[student |-> q.student, class |-> q.class, status |-> q.status, from |-> q.date,
           to |-> IF q.status = "active" THEN 0 ELSE q.date]}
    [] q.op = "status" -> {[t[q.row] EXCEPT !.status = q.status, !.to = q.date]}
    [] q.op = "change" /\ q.date = t[q.row].from -> {[t[q.row] EXCEPT !.class = q.class]}
    [] OTHER -> {[t[q.row] EXCEPT !.status = "transferred", !.to = LeftOn(q)],
                 [student |-> q.student, class |-> q.class, status |-> "active",
                  from |-> q.date, to |-> 0]}
OldRecords(t, q) == {t[r] : r \in Of(t, q.student) \ {q.row}}
Outcome(t, q) == OldRecords(t, q) \cup NewRecords(t, q)

(* Desired, of a set of records. *)
StatusOf(records) ==
  IF \E e \in records : e.status = "active"
    THEN {"active"}
    ELSE {e.status : e \in {f \in records : \A g \in records : g.to <= f.to}}

(* While nobody else commits anything about its student, what a request    *)
(* has seen of the student is current, and what it decided comes true.     *)
SeenIsCurrent ==
  \A u \in Users : request[u].student \in Students \ unsynced =>
    request[u].seen = studentStatus[request[u].student]

DecisionStands ==
  \A u \in Users : request[u].step = "commit" /\ request[u].student \notin unsynced =>
    (IF request[u].decided = "keep" THEN request[u].seen ELSE request[u].decided)
      \in StatusOf(Outcome(enrollment, request[u]))

StatusInv == SeenIsCurrent /\ DecisionStands /\ StatusFollowsEnrollments

-----------------------------------------------------------------------------
(* Writing the table. *)

LEMMA FreeRowsAreAbsent == \A r \in FreeRows : r \in Rows /\ enrollment[r].status = "absent"
  BY DEF FreeRows

LEMMA NoRowIsAbsent == NoRow.status = "absent" /\ NoRow.student = Nobody /\ NoRow.class = Nowhere
  BY DEF NoRow

LEMMA RowsOfATable ==
  ASSUME NEW t \in [Rows -> Enrollments \cup {NoRow}], NEW r \in Rows
  PROVE  /\ t[r].status = "absent" <=> t[r] = NoRow
         /\ t[r].status # "absent" =>
              /\ t[r] \in Enrollments
              /\ t[r].student \in Students /\ t[r].class \in Classes
              /\ t[r].status \in Closed \cup {"active"}
              /\ t[r].from \in Dates /\ t[r].to \in 0 .. MaxDate
              /\ t[r].status = "active" => t[r].to = 0
<1>1. t[r] \in Enrollments \cup {NoRow}
  OBVIOUS
<1>2. \A e \in Enrollments :
        /\ e.student \in Students /\ e.class \in Classes
        /\ e.status \in Closed \cup {"active"} /\ e.status # "absent"
        /\ e.from \in Dates /\ e.to \in 0 .. MaxDate
        /\ e.status = "active" => e.to = 0
  BY DEF Enrollments, Closed
<1> QED
  BY <1>1, <1>2, NoRowIsAbsent

(* What a request may make of the enrollments is well formed.              *)
LEMMA CreatedRow ==
  ASSUME EnrollmentAssumption,
         NEW s \in Students, NEW c \in Classes, NEW st \in Closed \cup {"active"}, NEW d \in Dates
  PROVE  [student |-> s, class |-> c, status |-> st, from |-> d,
          to |-> IF st = "active" THEN 0 ELSE d] \in Enrollments
<1> DEFINE e == [student |-> s, class |-> c, status |-> st, from |-> d,
                 to |-> IF st = "active" THEN 0 ELSE d]
<1>1. d \in 1 .. MaxDate /\ MaxDate \in Nat
  BY DEF Dates, EnrollmentAssumption
<1>2. e.to \in 0 .. MaxDate
  BY <1>1
<1>3. e \in [student : Students, class : Classes, status : Closed \cup {"active"},
             from : Dates, to : 0 .. MaxDate]
  BY <1>2
<1>4. IF e.status = "active" THEN e.to = 0 ELSE e.from <= e.to
  BY <1>1
<1> QED
  BY <1>3, <1>4 DEF Enrollments

LEMMA ClosedRow ==
  ASSUME EnrollmentAssumption,
         NEW e \in Enrollments, NEW st \in Closed, NEW d \in 0 .. MaxDate, d >= e.from
  PROVE  [e EXCEPT !.status = st, !.to = d] \in Enrollments
<1> DEFINE f == [e EXCEPT !.status = st, !.to = d]
<1>1. e \in [student : Students, class : Classes, status : Closed \cup {"active"},
             from : Dates, to : 0 .. MaxDate]
  BY DEF Enrollments
<1>2. f \in [student : Students, class : Classes, status : Closed \cup {"active"},
             from : Dates, to : 0 .. MaxDate]
  BY <1>1
<1>3. f.status = st /\ f.from = e.from /\ f.to = d /\ e.from \in Dates
  BY <1>1
<1>4. st # "active" /\ e.from <= d
  BY <1>3 DEF Closed, Dates, EnrollmentAssumption
<1> QED
  BY <1>2, <1>3, <1>4 DEF Enrollments

LEMMA MovedRow ==
  ASSUME NEW e \in Enrollments, NEW c \in Classes
  PROVE  [e EXCEPT !.class = c] \in Enrollments
<1> DEFINE f == [e EXCEPT !.class = c]
<1>1. /\ e \in [student : Students, class : Classes, status : Closed \cup {"active"},
                from : Dates, to : 0 .. MaxDate]
      /\ IF e.status = "active" THEN e.to = 0 ELSE e.from <= e.to
  BY DEF Enrollments
<1>2. f \in [student : Students, class : Classes, status : Closed \cup {"active"},
             from : Dates, to : 0 .. MaxDate]
  BY <1>1
<1>3. f.status = e.status /\ f.from = e.from /\ f.to = e.to
  BY <1>1
<1> QED
  BY <1>1, <1>2, <1>3 DEF Enrollments

LEMMA CreateWrites ==
  ASSUME EnrollmentAssumption, TypeOK,
         NEW q, q.op = "create", q.student \in Students, q.class \in Classes, q.date \in Dates,
         q.status \in Closed \cup {"active"}, NEW t \in After(q)
  PROVE  Written(q, t)
<1> DEFINE e == [student |-> q.student, class |-> q.class, status |-> q.status, from |-> q.date,
                 to |-> IF q.status = "active" THEN 0 ELSE q.date]
<1>1. PICK n \in FreeRows : t = [enrollment EXCEPT ![n] = e]
  BY DEF After, OnFirstDay
<1>2. n \in Rows /\ enrollment[n].status = "absent"
  BY FreeRowsAreAbsent
<1>3. e \in Enrollments
  BY CreatedRow
<1>4. t \in [Rows -> Enrollments \cup {NoRow}]
  BY <1>1, <1>2, <1>3 DEF TypeOK
<1>5. \A r \in Rows : t[r] = IF r = n THEN e ELSE enrollment[r]
  BY <1>1 DEF TypeOK
<1>6. e.student = q.student /\ e.class = q.class
  OBVIOUS
<1> HIDE DEF e
<1>7. ASSUME NEW r \in Rows, t[r] # enrollment[r]
      PROVE  /\ r = n /\ enrollment[r].status = "absent" /\ q.op # "status"
             /\ t[r].student = q.student /\ t[r].class = q.class
  BY <1>2, <1>5, <1>6, <1>7
<1> QED
  BY <1>2, <1>4, <1>7 DEF Written

LEMMA StatusWrites ==
  ASSUME EnrollmentAssumption, TypeOK,
         NEW q, q.op = "status", q.row \in Rows, enrollment[q.row].status = "active",
         q.status \in {"withdrawn", "graduated"}, q.date \in Dates,
         q.date >= enrollment[q.row].from, NEW t \in After(q)
  PROVE  Written(q, t)
<1> DEFINE e == [enrollment[q.row] EXCEPT !.status = q.status, !.to = q.date]
<1>1. t = [enrollment EXCEPT ![q.row] = e]
  BY DEF After
<1>2. enrollment[q.row] \in Enrollments
  BY RowsOfATable DEF TypeOK
<1>3. q.status \in Closed /\ q.date \in 0 .. MaxDate
  BY DEF Closed, Dates, EnrollmentAssumption
<1>4. e \in Enrollments
  BY <1>2, <1>3, ClosedRow
<1>5. e.student = enrollment[q.row].student /\ e.status = q.status
  BY <1>2 DEF Enrollments
<1> HIDE DEF e
<1>6. t \in [Rows -> Enrollments \cup {NoRow}]
  BY <1>1, <1>4 DEF TypeOK
<1>7. \A r \in Rows : t[r] = IF r = q.row THEN e ELSE enrollment[r]
  BY <1>1 DEF TypeOK
<1>8. q.status # "absent"
  BY <1>3 DEF Closed
<1>9. ASSUME NEW r \in Rows, t[r] # enrollment[r]
      PROVE  /\ q.op \in ByRow /\ r = q.row /\ t[r].student = enrollment[r].student
             /\ t[r].status # "absent" /\ t[r].status \in Closed
  BY <1>3, <1>5, <1>7, <1>8, <1>9 DEF ByRow
<1>10. \A r \in Rows :
          \/ t[r] = enrollment[r]
          \/ /\ q.op \in ByRow /\ r = q.row
             /\ t[r].student = enrollment[r].student /\ t[r].status # "absent"
             /\ t[r].status \in Closed \/ (q.op # "status" /\ t[r].class = q.class)
  BY <1>9
<1>11. ~(q.op # "status")
  OBVIOUS
<1> QED
  BY <1>6, <1>10, <1>11 DEF Written

LEMMA MoveWrites ==
  ASSUME EnrollmentAssumption, TypeOK,
         NEW q, q.op \in {"change", "transfer"}, q.row \in Rows,
         enrollment[q.row].status = "active", enrollment[q.row].student = q.student,
         q.class \in Classes, q.date \in Dates, q.date >= enrollment[q.row].from,
         q.op = "transfer" => q.date > enrollment[q.row].from, NEW t \in After(q)
  PROVE  Written(q, t)
<1> DEFINE old == enrollment[q.row]
<1>1. old \in Enrollments /\ old.from \in Dates /\ q.student \in Students
  BY RowsOfATable DEF TypeOK
<1>2. CASE OnFirstDay(q)
  <2> DEFINE e == [old EXCEPT !.class = q.class]
  <2>1. t = [enrollment EXCEPT ![q.row] = e]
    BY <1>2 DEF After
  <2>2. e \in Enrollments
    BY <1>1, MovedRow
  <2>3. e.student = old.student /\ e.status = old.status /\ e.class = q.class
    BY <1>1 DEF Enrollments
  <2> HIDE DEF e
  <2>4. t \in [Rows -> Enrollments \cup {NoRow}]
    BY <2>1, <2>2 DEF TypeOK
  <2>5. \A r \in Rows : t[r] = IF r = q.row THEN e ELSE enrollment[r]
    BY <2>1 DEF TypeOK
  <2> QED
    BY <2>3, <2>4, <2>5 DEF Written, ByRow
<1>3. CASE ~OnFirstDay(q)
  <2> DEFINE e == [old EXCEPT !.status = "transferred", !.to = LeftOn(q)]
             f == [student |-> q.student, class |-> q.class, status |-> "active",
                   from |-> q.date, to |-> 0]
  <2>1. PICK n \in FreeRows : t = [enrollment EXCEPT ![q.row].status = "transferred",
                                                     ![q.row].to = LeftOn(q), ![n] = f]
    BY <1>3 DEF After
  <2>2. n \in Rows /\ enrollment[n].status = "absent" /\ n # q.row
    BY FreeRowsAreAbsent
  <2>3. LeftOn(q) \in 0 .. MaxDate /\ LeftOn(q) >= old.from
    BY <1>1, <1>3 DEF LeftOn, OnFirstDay, Dates, EnrollmentAssumption
  <2>4. e \in Enrollments
    BY <1>1, <2>3, ClosedRow DEF Closed
  <2>5. f \in Enrollments
    <3>1. f = [student |-> q.student, class |-> q.class, status |-> "active", from |-> q.date,
               to |-> IF "active" = "active" THEN 0 ELSE q.date]
      OBVIOUS
    <3> QED
      BY <1>1, <3>1, CreatedRow
  <2>6. e.student = old.student /\ e.status = "transferred"
    BY <1>1 DEF Enrollments
  <2>7. f.student = q.student /\ f.class = q.class
    OBVIOUS
  <2>8. t = [[enrollment EXCEPT ![q.row] = e] EXCEPT ![n] = f]
    BY <2>1, <2>2 DEF TypeOK
  <2> HIDE DEF e, f
  <2>9. t \in [Rows -> Enrollments \cup {NoRow}]
    BY <2>2, <2>4, <2>5, <2>8 DEF TypeOK
  <2>10. \A r \in Rows : t[r] = IF r = n THEN f ELSE IF r = q.row THEN e ELSE enrollment[r]
    BY <2>2, <2>8 DEF TypeOK
  <2>11. ASSUME NEW r \in Rows, t[r] # enrollment[r], r # n
         PROVE  /\ q.op \in ByRow /\ r = q.row /\ t[r].student = enrollment[r].student
                /\ t[r].status # "absent" /\ t[r].status \in Closed
    BY <2>6, <2>10, <2>11 DEF ByRow, Closed
  <2>12. enrollment[n].status = "absent" /\ t[n].student = q.student /\ t[n].class = q.class
    BY <2>2, <2>7, <2>10
  <2>13. q.op # "status"
    OBVIOUS
  <2>14. \A r \in Rows :
           \/ t[r] = enrollment[r]
           \/ /\ q.op \in ByRow /\ r = q.row
              /\ t[r].student = enrollment[r].student /\ t[r].status # "absent"
              /\ t[r].status \in Closed \/ (q.op # "status" /\ t[r].class = q.class)
           \/ /\ enrollment[r].status = "absent" /\ q.op # "status"
              /\ t[r].student = q.student /\ t[r].class = q.class
    BY <2>11, <2>12, <2>13
  <2>15. \A r \in Rows : t[r] # enrollment[r] /\ r # n => t[r].status \in Closed
    BY <2>11
  <2> QED
    BY <2>2, <2>9, <2>14, <2>15 DEF Written
<1> QED
  BY <1>2, <1>3

LEMMA AfterIsWritten ==
  ASSUME EnrollmentAssumption, TypeOK, NEW q, Ready(q), NEW t \in After(q)
  PROVE  Written(q, t)
<1>1. CASE q.op = "create"
  BY <1>1, CreateWrites DEF Ready, Requests
<1>2. CASE q.op = "status"
  BY <1>2, StatusWrites DEF Ready, ByRow
<1>3. CASE q.op \in {"change", "transfer"}
  BY <1>3, MoveWrites DEF Ready, ByRow
<1> QED
  BY <1>1, <1>2, <1>3 DEF Ready, Reserving

LEMMA CommitIsReady ==
  ASSUME LockInv, NEW u \in Users, request[u].step = "commit"
  PROVE  Ready(request[u])
  BY DEF LockInv, TypeOK, Subject, SubjectOf, RowsInHand, InHand, Ready, ByRow, Locked, Reserving

LEMMA AllowedIsReady ==
  ASSUME LockInv, NEW u \in Users, request[u].step = "check",
         NEW st \in Closed \cup {"active"}, NEW d \in Dates,
         Allowed([request[u] EXCEPT !.step = "commit", !.status = st, !.date = d])
  PROVE  Ready([request[u] EXCEPT !.step = "commit", !.status = st, !.date = d])
<1> DEFINE p == request[u]
           q == [p EXCEPT !.step = "commit", !.status = st, !.date = d]
<1> USE DEF LockInv
<1>1. p \in Requests
  BY DEF TypeOK
<1>2. d \in 0 .. MaxDate
  BY DEF Dates
<1>3. /\ q.op = p.op /\ q.student = p.student /\ q.row = p.row /\ q.class = p.class
      /\ q.date = d /\ q.status = st /\ q.step = "commit" /\ q \in Requests
  BY <1>1, <1>2 DEF Requests
<1>4. Allowed(q)
  OBVIOUS
<1> HIDE DEF q
<1>5. q.op \in Reserving \cup {"status"}
  BY <1>4 DEF Allowed, Reserving
<1>6. q.op = "create" => q.student \in Students /\ q.row = 0
  BY <1>3 DEF Subject, SubjectOf
<1>7. q.op # "status" => q.class \in Classes
  BY <1>3 DEF Subject, SubjectOf
<1>8. ASSUME q.op \in ByRow
      PROVE  /\ q.row \in Rows /\ enrollment[q.row].status = "active"
             /\ enrollment[q.row].student = q.student
  BY <1>3, <1>8 DEF Subject, SubjectOf, RowsInHand, InHand, Locked
<1>9. ASSUME q.op \in ByRow
      PROVE  /\ q.date >= enrollment[q.row].from
             /\ q.op = "transfer" => q.date > enrollment[q.row].from
             /\ q.op = "status" => q.status \in {"withdrawn", "graduated"}
  <2>1. enrollment[q.row].from \in Int /\ q.date \in Int
    BY <1>3, <1>8, <1>9, RowsOfATable DEF TypeOK, Dates
  <2>2. CASE q.op = "status"
    BY <1>4, <2>2 DEF Allowed
  <2>3. CASE q.op \in {"change", "transfer"}
    BY <1>4, <2>1, <2>3 DEF Allowed, Moves
  <2> QED
    BY <1>9, <2>2, <2>3 DEF ByRow
<1>10. Ready(q)
  BY <1>3, <1>5, <1>6, <1>7, <1>8, <1>9 DEF Ready
<1> QED
  BY <1>10 DEF q

(* What _sync_student_status decides is a status.                          *)
LEMMA DesiredIsAStatus ==
  ASSUME EnrollmentAssumption,
         NEW t \in [Rows -> Enrollments \cup {NoRow}], NEW s \in Students
  PROVE  Desired(t, s) \subseteq Closed \cup {"active"}
<1>1. \A r \in Of(t, s) : t[r].status \in Closed \cup {"active"}
  <2>1. ASSUME NEW r \in Of(t, s)
        PROVE  t[r].status \in Closed \cup {"active"}
    <3>1. r \in Rows /\ t[r].student = s
      BY DEF Of
    <3>2. t[r] # NoRow
      BY <3>1, NoRowIsAbsent DEF EnrollmentAssumption, Nobody
    <3> QED
      BY <3>1, <3>2, RowsOfATable
  <2> QED
    BY <2>1
<1> QED
  BY <1>1 DEF Desired

(* An import writes one row of its student.                                *)
LEMMA ImportWrites ==
  ASSUME EnrollmentAssumption, TypeOK,
         NEW s \in Students, NEW c \in Classes, NEW r \in Rows, Reusable(s, c, r)
  PROVE  /\ Imported(s, c, r) \in [Rows -> Enrollments \cup {NoRow}]
         /\ Imported(s, c, r)[r].student = s /\ Imported(s, c, r)[r].class = c
         /\ Imported(s, c, r)[r].status = "active" /\ Imported(s, c, r)[r].to = 0
         /\ \A q \in Rows \ {r} : Imported(s, c, r)[q] = enrollment[q]
         /\ enrollment[r].status = "absent" \/ enrollment[r].student = s
<1> DEFINE e == [student |-> s, class |-> c, status |-> "active", from |-> 1, to |-> 0]
<1>1. 1 \in Dates
  BY DEF Dates, EnrollmentAssumption
<1>2. e \in Enrollments
  <2>1. e = [student |-> s, class |-> c, status |-> "active", from |-> 1,
             to |-> IF "active" = "active" THEN 0 ELSE 1]
    OBVIOUS
  <2> QED
    BY <1>1, <2>1, CreatedRow
<1>3. Imported(s, c, r) = [enrollment EXCEPT ![r] = e]
  BY DEF Imported
<1>4. e.student = s /\ e.class = c /\ e.status = "active" /\ e.to = 0
  OBVIOUS
<1>5. enrollment[r].status = "absent" \/ enrollment[r].student = s
  BY FreeRowsAreAbsent DEF Reusable, Of
<1> HIDE DEF e
<1> QED
  BY <1>2, <1>3, <1>4, <1>5 DEF TypeOK

-----------------------------------------------------------------------------
(* The locks: a step of one request, which changes nothing but what it     *)
(* holds.                                                                  *)

LEMMA IdleHoldsNothing ==
  /\ Idle \in Requests /\ SubjectOf(Idle) /\ InHand(Idle)
  /\ Idle.class = Nowhere /\ Idle.step = "idle" /\ Idle.student = Nobody /\ Idle.op = "none"
<1>1. 0 \in 0 .. MaxRows /\ 0 \in 0 .. MaxDate
  BY EnrollmentAssumption
<1> QED
  BY <1>1 DEF Idle, Requests, SubjectOf, InHand, ByRow, Locked

LEMMA OneRequest ==
  ASSUME LockInv, NEW u \in Users, NEW p \in Requests,
         request' = [request EXCEPT ![u] = p],
         UNCHANGED <<tables, job, unsynced, ingested>>, calls' \in 0 .. MaxCalls,
         SubjectOf(p), InHand(p),
         p.step \in Locked => \A v \in Users \ {u} : request[v].row = p.row => request[v].step \notin Locked \/ p.row \notin Rows,
         p.class # Nowhere => /\ \A v \in Users \ {u} : request[v].class # p.class
                              /\ job # NoJob => job.class # p.class
  PROVE  LockInv'
<1> USE DEF LockInv, tables
<1>1. \A v \in Users : request'[v] = IF v = u THEN p ELSE request[v]
  BY DEF TypeOK
<1>2. TypeOK'
  <2>1. request' \in [Users -> Requests]
    BY DEF TypeOK
  <2> QED
    BY <2>1 DEF TypeOK
<1>3. Subject'
  BY <1>1 DEF Subject, SubjectOf
<1>4. \A v \in Users : InHand(request[v])'
  BY <1>1 DEF RowsInHand, InHand
<1>5. ASSUME NEW v \in Users, NEW w \in Users, NEW r \in Rows, HoldsRow(v, r)', HoldsRow(w, r)'
      PROVE  v = w
  <2>1. /\ request'[v].row = r /\ request'[v].step \in Locked
        /\ request'[w].row = r /\ request'[w].step \in Locked
    BY <1>5 DEF HoldsRow, Locked
  <2>2. CASE v # u /\ w # u
    <3>1. HoldsRow(v, r) /\ HoldsRow(w, r)
      BY <1>1, <2>1, <2>2 DEF HoldsRow, Locked
    <3> QED
      BY <3>1 DEF RowsInHand
  <2>3. CASE v = u \/ w = u
    BY <1>1, <2>1, <2>3
  <2> QED
    BY <2>2, <2>3
<1>6. ClassesInHand'
  <2>1. ASSUME NEW v \in Users, NEW w \in Users,
               request'[v].class = request'[w].class, request'[v].class # Nowhere
        PROVE  v = w
    <3>1. CASE v # u /\ w # u
      BY <1>1, <2>1, <3>1 DEF ClassesInHand
    <3>2. CASE v = u \/ w = u
      BY <1>1, <2>1, <3>2
    <3> QED
      BY <3>1, <3>2
  <2>2. ASSUME job # NoJob, NEW v \in Users
        PROVE  request'[v].class # job.class
    <3>1. CASE v # u
      BY <1>1, <2>2, <3>1 DEF ClassesInHand
    <3>2. CASE v = u /\ p.class # Nowhere
      BY <1>1, <2>2, <3>2
    <3>3. CASE v = u /\ p.class = Nowhere
      <4>1. job.class \in Classes
        BY <2>2 DEF TypeOK, Jobs
      <4> QED
        BY <1>1, <3>3, <4>1, EnrollmentAssumption DEF Nowhere
    <3> QED
      BY <3>1, <3>2, <3>3
  <2> QED
    BY <2>1, <2>2 DEF ClassesInHand
<1> QED
  BY <1>2, <1>3, <1>4, <1>5, <1>6 DEF RowsInHand

LEMMA AskKeepsLocks ==
  ASSUME LockInv, NEW u \in Users, Ask(u)
  PROVE  LockInv'
<1> USE DEF LockInv
<1>0. Idle \in Requests /\ Idle.class = Nowhere
  BY IdleHoldsNothing
<1>1. ASSUME NEW s \in Students, AskCreate(u, s)
      PROVE  LockInv'
  <2> DEFINE p == [Idle EXCEPT !.op = "create", !.step = "class", !.student = s,
                               !.seen = studentStatus[s]]
  <2>1. request' = [request EXCEPT ![u] = p] /\ calls' = calls + 1 /\ calls < MaxCalls
        /\ UNCHANGED <<tables, job, unsynced, ingested>>
    BY <1>1 DEF AskCreate, Begin
  <2>2. calls' \in 0 .. MaxCalls
    BY <2>1, EnrollmentAssumption DEF TypeOK
  <2>3. studentStatus[s] \in Closed \cup {"active"}
    BY DEF TypeOK
  <2>4. p \in Requests
    BY <1>0, <2>3 DEF Requests
  <2>5. p.op = "create" /\ p.step = "class" /\ p.student = s /\ p.row = 0 /\ p.class = Nowhere
    BY DEF Idle
  <2> HIDE DEF p
  <2>6. SubjectOf(p) /\ InHand(p)
    BY <2>5 DEF SubjectOf, InHand, ByRow
  <2>7. p.row \notin Rows
    BY <2>5 DEF Rows
  <2> QED
    BY <2>1, <2>2, <2>4, <2>5, <2>6, <2>7, OneRequest
<1>2. ASSUME NEW op \in ByRow, NEW r \in Rows, AskAbout(u, op, r)
      PROVE  LockInv'
  <2> DEFINE s == enrollment[r].student
             p == [Idle EXCEPT !.op = op, !.step = "row", !.student = s, !.row = r,
                               !.seen = studentStatus[s]]
  <2>1. request' = [request EXCEPT ![u] = p] /\ calls' = calls + 1 /\ calls < MaxCalls
        /\ UNCHANGED <<tables, job, unsynced, ingested>> /\ enrollment[r].status # "absent"
    BY <1>2 DEF AskAbout, Begin
  <2>2. calls' \in 0 .. MaxCalls
    BY <2>1, EnrollmentAssumption DEF TypeOK
  <2>3. s \in Students
    BY <2>1, RowsOfATable DEF TypeOK
  <2>4. studentStatus[s] \in Closed \cup {"active"} /\ r \in 0 .. MaxRows
    BY <2>3, EnrollmentAssumption DEF TypeOK, Rows
  <2>5. p \in Requests
    BY <1>0, <2>3, <2>4 DEF Requests, ByRow
  <2>6. p.op = op /\ p.step = "row" /\ p.student = s /\ p.row = r /\ p.class = Nowhere
    BY DEF Idle
  <2> HIDE DEF p
  <2>7. SubjectOf(p) /\ InHand(p)
    BY <2>1, <2>6 DEF SubjectOf, InHand, ByRow, Locked
  <2>8. p.step \notin Locked
    BY <2>6 DEF Locked
  <2> QED
    BY <2>1, <2>2, <2>5, <2>6, <2>7, <2>8, OneRequest
<1>3. ASSUME AskUpdate(u)
      PROVE  LockInv'
  <2> DEFINE p == [Idle EXCEPT !.op = "update", !.step = "class"]
  <2>1. request' = [request EXCEPT ![u] = p] /\ calls' = calls + 1 /\ calls < MaxCalls
        /\ UNCHANGED <<tables, job, unsynced, ingested>>
    BY <1>3 DEF AskUpdate, Begin
  <2>2. calls' \in 0 .. MaxCalls
    BY <2>1, EnrollmentAssumption DEF TypeOK
  <2>3. p \in Requests
    BY <1>0 DEF Requests
  <2>4. p.op = "update" /\ p.step = "class" /\ p.student = Nobody /\ p.row = 0 /\ p.class = Nowhere
    BY DEF Idle
  <2> HIDE DEF p
  <2>5. SubjectOf(p) /\ InHand(p)
    BY <2>4 DEF SubjectOf, InHand, ByRow
  <2>6. p.row \notin Rows
    BY <2>4 DEF Rows
  <2> QED
    BY <2>1, <2>2, <2>3, <2>4, <2>5, <2>6, OneRequest
<1> QED
  BY <1>1, <1>2, <1>3 DEF Ask, ByRow

LEMMA LockRowKeepsLocks ==
  ASSUME LockInv, NEW u \in Users, LockRow(u)
  PROVE  LockInv'
<1> USE DEF LockInv
<1> DEFINE q == request[u]
<1>1. q \in Requests /\ q.step = "row" /\ q.op \in ByRow /\ SubjectOf(q)
  BY DEF LockRow, TypeOK, Subject, SubjectOf
<1>2. q.row \in Rows /\ enrollment[q.row].student = q.student /\ q.student \in Students
  BY <1>1, RowsOfATable DEF SubjectOf, TypeOK
<1>3. RowIsFree(q.row) /\ enrollment[q.row].status = "active"
  BY DEF LockRow
<1>4. PICK seen \in {q.seen, studentStatus[q.student]} :
        request' = [request EXCEPT ![u].step = IF q.op = "status" THEN "check" ELSE "class",
                                   ![u].seen = seen]
  BY DEF LockRow
<1> DEFINE p == [q EXCEPT !.step = IF q.op = "status" THEN "check" ELSE "class", !.seen = seen]
<1>5. request' = [request EXCEPT ![u] = p]
  BY <1>4 DEF TypeOK
<1>6. seen \in Closed \cup {"active"}
  BY <1>1, <1>2 DEF TypeOK, Requests
<1>7. /\ p \in Requests /\ p.op = q.op /\ p.row = q.row /\ p.student = q.student
      /\ p.class = q.class /\ p.step \in {"check", "class"} /\ (p.step = "check" => p.op = "status")
  BY <1>1, <1>6, ZenonT(60) DEF Requests
<1>8. calls' \in 0 .. MaxCalls /\ UNCHANGED <<tables, job, unsynced, ingested>>
  BY DEF LockRow, TypeOK
<1> HIDE DEF p
<1>9. SubjectOf(p)
  BY <1>1, <1>7 DEF SubjectOf
<1>10. InHand(p)
  BY <1>2, <1>3, <1>7 DEF InHand, RowIsFree
<1>11. \A v \in Users \ {u} : request[v].row = p.row => request[v].step \notin Locked
  BY <1>3, <1>7 DEF RowIsFree, HoldsRow, Locked
<1>12. p.class # Nowhere => /\ \A v \in Users \ {u} : request[v].class # p.class
                            /\ job # NoJob => job.class # p.class
  BY <1>7 DEF ClassesInHand
<1> QED
  BY <1>5, <1>7, <1>8, <1>9, <1>10, <1>11, <1>12, OneRequest

LEMMA LockClassKeepsLocks ==
  ASSUME LockInv, NEW u \in Users, NEW c \in Classes, LockClass(u, c)
  PROVE  LockInv'
<1> USE DEF LockInv
<1> DEFINE q == request[u]
           p == [q EXCEPT !.step = "check", !.class = c]
<1>1. q \in Requests /\ q.step = "class" /\ SubjectOf(q) /\ InHand(q)
  BY DEF LockClass, TypeOK, Subject, RowsInHand
<1>2. request' = [request EXCEPT ![u] = p] /\ ClassIsFree(c)
  BY DEF LockClass, TypeOK
<1>3. calls' \in 0 .. MaxCalls /\ UNCHANGED <<tables, job, unsynced, ingested>>
  BY DEF LockClass, TypeOK
<1>4. /\ p \in Requests /\ p.op = q.op /\ p.row = q.row /\ p.student = q.student
      /\ p.class = c /\ p.step = "check"
  BY <1>1 DEF Requests
<1> HIDE DEF p
<1>5. SubjectOf(p)
  BY <1>1, <1>4 DEF SubjectOf
<1>6. InHand(p)
  BY <1>1, <1>4 DEF InHand, Locked
<1>7. \A v \in Users \ {u} :
        request[v].row = p.row => request[v].step \notin Locked \/ p.row \notin Rows
  BY <1>1, <1>4 DEF RowsInHand, HoldsRow, Locked
<1>8. /\ \A v \in Users \ {u} : request[v].class # p.class
      /\ job # NoJob => job.class # p.class
  BY <1>2, <1>4 DEF ClassIsFree, HoldsClass
<1> QED
  BY <1>2, <1>3, <1>4, <1>5, <1>6, <1>7, <1>8, OneRequest

LEMMA CheckKeepsLocks ==
  ASSUME LockInv, NEW u \in Users, NEW st \in Closed \cup {"active"}, NEW d \in Dates,
         Check(u, st, d)
  PROVE  LockInv'
<1> USE DEF LockInv
<1> DEFINE o == request[u]
           q == [o EXCEPT !.step = "commit", !.status = st, !.date = d]
<1>1. o \in Requests /\ o.step = "check" /\ SubjectOf(o) /\ InHand(o) /\ Allowed(q)
  BY DEF Check, TypeOK, Subject, RowsInHand
<1>2. Ready(q)
  BY <1>1, AllowedIsReady
<1>3. /\ q.op = o.op /\ q.row = o.row /\ q.student = o.student /\ q.class = o.class
      /\ q.step = "commit" /\ q.seen = o.seen /\ q \in Requests
  BY <1>1, <1>2 DEF Requests, Ready
<1>4. q.student \in Students
  BY <1>2, RowsOfATable DEF Ready, TypeOK, Reserving, ByRow
<1>a. PICK t \in After(q) : \E s \in Desired(t, q.student) :
        request' = [request EXCEPT ![u] = [q EXCEPT !.decided =
          IF s = q.seen \/ (q.op = "change" /\ OnFirstDay(q)) THEN "keep" ELSE s]]
  BY DEF Check
<1>5. PICK s \in Desired(t, q.student) :
        request' = [request EXCEPT ![u] = [q EXCEPT !.decided =
          IF s = q.seen \/ (q.op = "change" /\ OnFirstDay(q)) THEN "keep" ELSE s]]
  BY <1>a
<1> DEFINE p == [q EXCEPT !.decided =
                   IF s = q.seen \/ (q.op = "change" /\ OnFirstDay(q)) THEN "keep" ELSE s]
<1>6. t \in [Rows -> Enrollments \cup {NoRow}]
  BY <1>2, AfterIsWritten, EnrollmentAssumption DEF Written
<1>7. s \in Closed \cup {"active"}
  BY <1>4, <1>6, DesiredIsAStatus, EnrollmentAssumption
<1>8. calls' \in 0 .. MaxCalls /\ UNCHANGED <<tables, job, unsynced, ingested>>
  BY DEF Check, TypeOK
<1> HIDE DEF q
<1>9. /\ p \in Requests /\ p.op = q.op /\ p.row = q.row /\ p.student = q.student /\ p.class = q.class
      /\ p.step = "commit" /\ p.date = q.date /\ p.status = q.status
  BY <1>3, <1>7 DEF Requests
<1>10. request' = [request EXCEPT ![u] = p]
  BY <1>5
<1> HIDE DEF p
<1>11. SubjectOf(p)
  BY <1>1, <1>2, <1>3, <1>9 DEF SubjectOf, Ready
<1>12. InHand(p)
  BY <1>1, <1>2, <1>3, <1>9 DEF InHand, Ready, Locked
<1>13. \A v \in Users \ {u} :
         request[v].row = p.row => request[v].step \notin Locked \/ p.row \notin Rows
  BY <1>1, <1>3, <1>9 DEF RowsInHand, HoldsRow, Locked
<1>14. p.class # Nowhere => /\ \A v \in Users \ {u} : request[v].class # p.class
                            /\ job # NoJob => job.class # p.class
  BY <1>3, <1>9 DEF ClassesInHand
<1> QED
  BY <1>8, <1>9, <1>10, <1>11, <1>12, <1>13, <1>14, OneRequest

LEMMA ResizeAndRollbackKeepLocks ==
  ASSUME LockInv, NEW u \in Users, Rollback(u) \/ \E n \in 0 .. MaxCapacity : Resize(u, n)
  PROVE  LockInv'
<1> USE DEF LockInv
<1>1. request' = [request EXCEPT ![u] = Idle] /\ UNCHANGED <<enrollment, job>>
  BY DEF Rollback, Resize, tables
<1>2. TypeOK'
  <2>1. request' \in [Users -> Requests]
    BY <1>1, IdleHoldsNothing DEF TypeOK
  <2>2. CASE Rollback(u)
    BY <2>1, <2>2 DEF Rollback, tables, TypeOK
  <2>3. ASSUME NEW n \in 0 .. MaxCapacity, Resize(u, n)
        PROVE  TypeOK'
    BY <2>1, <2>3 DEF Resize, TypeOK
  <2> QED
    BY <2>2, <2>3
<1>3. \A v \in Users : request'[v] = IF v = u THEN Idle ELSE request[v]
  BY <1>1 DEF TypeOK
<1>4. \A v \in Users : SubjectOf(request[v])' /\ InHand(request[v])'
  <2>1. SubjectOf(Idle)' /\ InHand(Idle)'
    BY IdleHoldsNothing DEF SubjectOf, InHand, Idle, ByRow, Locked
  <2>2. ASSUME NEW v \in Users, v # u
        PROVE  SubjectOf(request[v])' /\ InHand(request[v])'
    BY <1>1, <1>3, <2>2 DEF Subject, RowsInHand, SubjectOf, InHand
  <2>3. SubjectOf(request[u])' /\ InHand(request[u])'
    BY <1>3, <2>1 DEF SubjectOf, InHand
  <2> QED
    BY <2>2, <2>3
<1>5. \A v, w \in Users, r \in Rows : HoldsRow(v, r)' /\ HoldsRow(w, r)' => v = w
  BY <1>3, IdleHoldsNothing DEF RowsInHand, HoldsRow
<1>6. ClassesInHand'
  BY <1>1, <1>3, IdleHoldsNothing, EnrollmentAssumption DEF ClassesInHand, TypeOK, Jobs, Nowhere
<1> QED
  BY <1>2, <1>4, <1>5, <1>6 DEF Subject, RowsInHand

(* Writing enrollments does not disturb a request whose row is not written. *)
LEMMA OthersKeepHands ==
  ASSUME LockInv, NEW v \in Users, request'[v] = request[v], job' \in {job, NoJob},
         \A r \in Rows : enrollment[r].status # "absent" =>
           enrollment'[r].status # "absent" /\ enrollment'[r].student = enrollment[r].student,
         request[v].op \in ByRow /\ request[v].step \in Locked =>
           enrollment'[request[v].row] = enrollment[request[v].row]
  PROVE  SubjectOf(request[v])' /\ InHand(request[v])'
<1> USE DEF LockInv
<1>1. SubjectOf(request[v]) /\ InHand(request[v])
  BY DEF Subject, RowsInHand
<1>2. SubjectOf(request[v])'
  BY <1>1 DEF SubjectOf
<1>3. NoJob.step # "commit"
  BY DEF NoJob
<1>4. InHand(request[v])'
  BY <1>1, <1>3 DEF InHand
<1> QED
  BY <1>2, <1>4

(* Imports write while the requests keep what they hold.                   *)
LEMMA ImportsKeepHands ==
  ASSUME LockInv, TypeOK', request' = request, job' \in {job, NoJob},
         \A r \in Rows : enrollment[r].status # "absent" =>
           enrollment'[r].status # "absent" /\ enrollment'[r].student = enrollment[r].student,
         \A v \in Users, r \in Rows : HoldsRow(v, r) => enrollment'[r] = enrollment[r]
  PROVE  LockInv'
<1> USE DEF LockInv
<1>1. \A v \in Users : SubjectOf(request[v])' /\ InHand(request[v])'
  <2>1. ASSUME NEW v \in Users
        PROVE  SubjectOf(request[v])' /\ InHand(request[v])'
    <3>1. request[v].op \in ByRow /\ request[v].step \in Locked =>
            request[v].row \in Rows /\ HoldsRow(v, request[v].row)
      BY DEF Subject, SubjectOf, HoldsRow, Locked
    <3>2. request[v].op \in ByRow /\ request[v].step \in Locked =>
            enrollment'[request[v].row] = enrollment[request[v].row]
      BY <3>1
    <3> QED
      BY <3>2, OthersKeepHands
  <2> QED
    BY <2>1
<1>2. \A v, w \in Users, r \in Rows : HoldsRow(v, r)' /\ HoldsRow(w, r)' => v = w
  BY DEF RowsInHand, HoldsRow
<1>3. ClassesInHand'
  BY DEF ClassesInHand
<1> QED
  BY <1>1, <1>2, <1>3 DEF Subject, RowsInHand

LEMMA CommitKeepsLocks ==
  ASSUME LockInv, NEW u \in Users, Commit(u)
  PROVE  LockInv'
<1> USE DEF LockInv
<1> DEFINE q == request[u]
<1>1. q \in Requests /\ q.step = "commit" /\ SubjectOf(q) /\ InHand(q) /\ Ready(q)
  BY CommitIsReady DEF Commit, TypeOK, Subject, RowsInHand
<1>2. Written(q, enrollment')
  BY <1>1, AfterIsWritten, EnrollmentAssumption DEF Commit
<1>3. request' = [request EXCEPT ![u] = Idle] /\ job' = job
  BY DEF Commit
<1>4. \A v \in Users : request'[v] = IF v = u THEN Idle ELSE request[v]
  BY <1>3 DEF TypeOK
<1>5. q.student \in Students
  BY <1>1, RowsOfATable DEF Ready, TypeOK, Reserving, ByRow
<1>6. TypeOK'
  <2>1. enrollment' \in [Rows -> Enrollments \cup {NoRow}]
    BY <1>2 DEF Written
  <2>2. request' \in [Users -> Requests]
    BY <1>3, IdleHoldsNothing DEF TypeOK
  <2>3. studentStatus' \in [Students -> Closed \cup {"active"}]
    <3>1. q.decided \in Closed \cup {"active", "keep"}
      BY <1>1 DEF Requests
    <3> QED
      BY <1>5, <3>1 DEF Commit, TypeOK
  <2>4. unsynced' \subseteq Students
    BY <1>5 DEF Commit, Overlap, TypeOK
  <2> QED
    BY <2>1, <2>2, <2>3, <2>4 DEF Commit, TypeOK
<1>7. \A r \in Rows : enrollment[r].status # "absent" =>
        enrollment'[r].status # "absent" /\ enrollment'[r].student = enrollment[r].student
  BY <1>2 DEF Written
<1>8. ASSUME NEW v \in Users, v # u
      PROVE  SubjectOf(request[v])' /\ InHand(request[v])'
  <2>1. ASSUME request[v].op \in ByRow, request[v].step \in Locked
        PROVE  enrollment'[request[v].row] = enrollment[request[v].row]
    <3> DEFINE r == request[v].row
    <3>1. r \in Rows /\ enrollment[r].status = "active" /\ HoldsRow(v, r)
      BY <2>1 DEF Subject, SubjectOf, RowsInHand, InHand, HoldsRow, Locked
    <3>2. q.row # r
      BY <1>1, <1>8, <3>1 DEF RowsInHand, HoldsRow
    <3> QED
      BY <1>2, <3>1, <3>2 DEF Written
  <2> QED
    BY <1>3, <1>4, <1>7, <1>8, <2>1, OthersKeepHands
<1>9. SubjectOf(request[u])' /\ InHand(request[u])'
  BY <1>4, IdleHoldsNothing DEF SubjectOf, InHand, Idle, ByRow, Locked
<1>10. \A v, w \in Users, r \in Rows : HoldsRow(v, r)' /\ HoldsRow(w, r)' => v = w
  BY <1>4, IdleHoldsNothing DEF RowsInHand, HoldsRow
<1>11. ClassesInHand'
  BY <1>3, <1>4, IdleHoldsNothing, EnrollmentAssumption DEF ClassesInHand, TypeOK, Jobs, Nowhere
<1> QED
  BY <1>6, <1>8, <1>9, <1>10, <1>11 DEF Subject, RowsInHand

LEMMA HandsAreNotTheJobs ==
  ASSUME LockInv, job.step = "commit", NEW v \in Users, NEW r \in Rows, HoldsRow(v, r)
  PROVE  enrollment[r].status = "active" /\ enrollment[r].student # job.student
<1>1. request[v].row = r /\ request[v].step \in Locked
  BY DEF HoldsRow, Locked
<1>2. request[v].op \in ByRow
  <2>1. request[v].op \in {"none", "create", "change", "transfer", "status", "update"}
    BY DEF LockInv, TypeOK, Requests
  <2>2. r # 0
    BY DEF Rows
  <2> QED
    BY <1>1, <2>1, <2>2 DEF LockInv, Subject, SubjectOf, ByRow
<1> QED
  BY <1>1, <1>2 DEF LockInv, Subject, SubjectOf, RowsInHand, InHand

LEMMA HeldIsActive ==
  ASSUME LockInv, NEW v \in Users, NEW r \in Rows, HoldsRow(v, r)
  PROVE  enrollment[r].status = "active"
<1>1. request[v].row = r /\ request[v].step \in Locked
  BY DEF HoldsRow, Locked
<1>2. request[v].op \in ByRow
  <2>1. request[v].op \in {"none", "create", "change", "transfer", "status", "update"}
    BY DEF LockInv, TypeOK, Requests
  <2>2. r # 0
    BY DEF Rows
  <2> QED
    BY <1>1, <2>1, <2>2 DEF LockInv, Subject, SubjectOf, ByRow
<1> QED
  BY <1>1, <1>2 DEF LockInv, RowsInHand, InHand

LEMMA ImportStepKeepsLocks ==
  ASSUME LockInv, ImportStep
  PROVE  LockInv'
<1> USE DEF LockInv
<1>1. ASSUME NEW c \in Classes, ImportLocksClass(c)
      PROVE  LockInv'
  <2>1. job' = [step |-> "rows", class |-> c] /\ ClassIsFree(c)
        /\ UNCHANGED <<enrollment, capacity, studentStatus, request, unsynced, ingested, calls>>
    BY <1>1 DEF ImportLocksClass, tables
  <2>2. TypeOK'
    BY <2>1 DEF TypeOK, Jobs
  <2>3. Subject'
    BY <2>1 DEF Subject, SubjectOf
  <2>4. RowsInHand'
    <3>1. \A v \in Users : InHand(request[v])'
      BY <2>1 DEF RowsInHand, InHand
    <3>2. \A v, w \in Users, r \in Rows : HoldsRow(v, r)' /\ HoldsRow(w, r)' => v = w
      BY <2>1 DEF RowsInHand, HoldsRow
    <3> QED
      BY <3>1, <3>2 DEF RowsInHand
  <2>5. ClassesInHand'
    BY <2>1 DEF ClassesInHand, ClassIsFree, HoldsClass
  <2> QED
    BY <2>2, <2>3, <2>4, <2>5
<1>2. ASSUME NEW s \in Students, ImportLocksRows(s)
      PROVE  LockInv'
  <2>1. job' = [step |-> "commit", class |-> job.class, student |-> s] /\ job.step = "rows"
        /\ UNCHANGED <<enrollment, capacity, studentStatus, request, unsynced, ingested, calls>>
        /\ \A r \in Of(enrollment, s) : RowIsFree(r)
    BY <1>2 DEF ImportLocksRows, tables
  <2>2. job # NoJob /\ job.class \in Classes
    BY <2>1 DEF TypeOK, Jobs, NoJob
  <2>3. TypeOK'
    BY <2>1, <2>2 DEF TypeOK, Jobs
  <2>4. Subject'
    BY <2>1 DEF Subject, SubjectOf
  <2>5. \A v \in Users : InHand(request[v])'
    <3>1. ASSUME NEW v \in Users, request[v].op \in ByRow, request[v].step \in Locked
          PROVE  s # request[v].student
      <4>1. request[v].row \in Rows /\ enrollment[request[v].row].student = request[v].student
            /\ HoldsRow(v, request[v].row)
        BY <3>1 DEF Subject, SubjectOf, HoldsRow, Locked
      <4> QED
        BY <2>1, <4>1 DEF Of, RowIsFree
    <3> QED
      BY <2>1, <3>1 DEF RowsInHand, InHand
  <2>6. \A v, w \in Users, r \in Rows : HoldsRow(v, r)' /\ HoldsRow(w, r)' => v = w
    BY <2>1 DEF RowsInHand, HoldsRow
  <2>7. ClassesInHand'
    BY <2>1, <2>2 DEF ClassesInHand
  <2> QED
    BY <2>3, <2>4, <2>5, <2>6, <2>7 DEF RowsInHand
<1>3. ASSUME NEW n \in 0 .. MaxCapacity, ImportCommits(n)
      PROVE  LockInv'
  <2> DEFINE s == job.student
             c == job.class
  <2>1. job.step = "commit" /\ s \in Students /\ c \in Classes
    BY <1>3 DEF ImportCommits, TypeOK, Jobs, NoJob
  <2>2. PICK r \in Rows : Reusable(s, c, r) /\ enrollment' = Imported(s, c, r)
    BY <1>3 DEF ImportCommits
  <2>3. /\ capacity' = [capacity EXCEPT ![c] = n] /\ studentStatus' = [studentStatus EXCEPT ![s] = "active"]
        /\ job' = NoJob /\ Overlap(s, Users) /\ UNCHANGED <<request, ingested, calls>>
    BY <1>3 DEF ImportCommits
  <2>4. /\ enrollment' \in [Rows -> Enrollments \cup {NoRow}]
        /\ enrollment'[r].student = s /\ enrollment'[r].status = "active"
        /\ \A q \in Rows \ {r} : enrollment'[q] = enrollment[q]
        /\ enrollment[r].status = "absent" \/ enrollment[r].student = s
    BY <2>1, <2>2, ImportWrites, EnrollmentAssumption
  <2>5. TypeOK'
    BY <2>1, <2>3, <2>4 DEF TypeOK, Overlap
  <2>6. \A v \in Users, q \in Rows : HoldsRow(v, q) => enrollment'[q] = enrollment[q]
    BY <2>1, <2>4, HandsAreNotTheJobs
  <2> QED
    BY <2>3, <2>4, <2>5, <2>6, ImportsKeepHands
<1>4. ASSUME ImportRollsBack
      PROVE  LockInv'
  <2>1. TypeOK'
    BY <1>4 DEF ImportRollsBack, TypeOK, tables
  <2> QED
    BY <1>4, <2>1, ImportsKeepHands DEF ImportRollsBack, tables
<1>5. ASSUME NEW s \in Students, NEW c \in Classes, ImportEnrollments(s, c)
      PROVE  LockInv'
  <2>1. PICK d \in Dates :
          enrollment' \in After([Idle EXCEPT !.op = "create", !.student = s, !.class = c, !.date = d])
    BY <1>5 DEF ImportEnrollments
  <2> DEFINE q == [Idle EXCEPT !.op = "create", !.student = s, !.class = c, !.date = d]
  <2>2. q.op = "create" /\ q.student = s /\ q.class = c /\ q.date = d /\ q.status = "active"
    BY DEF Idle
  <2> HIDE DEF q
  <2>3. Written(q, enrollment')
    BY <2>1, <2>2, CreateWrites, EnrollmentAssumption DEF q
  <2>4. TypeOK'
    BY <1>5, <2>3 DEF ImportEnrollments, TypeOK, Written
  <2>5. \A r \in Rows : enrollment[r].status # "absent" => enrollment'[r] = enrollment[r]
    BY <2>2, <2>3 DEF Written, ByRow
  <2>6. \A v \in Users, r \in Rows : HoldsRow(v, r) => enrollment'[r] = enrollment[r]
    BY <2>5, HeldIsActive
  <2> QED
    BY <1>5, <2>4, <2>5, <2>6, ImportsKeepHands DEF ImportEnrollments
<1> QED
  BY <1>1, <1>2, <1>3, <1>4, <1>5 DEF ImportStep

LEMMA IngestKeepsLocks ==
  ASSUME LockInv, NEW s \in Students, NEW c \in Classes, Ingest(s, c)
  PROVE  LockInv'
<1> USE DEF LockInv
<1>1. PICK r \in Rows :
        /\ Reusable(s, c, r) /\ RowIsFree(r)
        /\ enrollment' = enrollment \/ enrollment' = Imported(s, c, r)
  BY DEF Ingest
<1>2. studentStatus' = [studentStatus EXCEPT ![s] = "active"] /\ Overlap(s, Users)
      /\ ingested' = TRUE /\ UNCHANGED <<capacity, request, job, calls>>
  BY DEF Ingest
<1>3. CASE enrollment' = enrollment
  <2>1. TypeOK'
    BY <1>2, <1>3 DEF TypeOK, Overlap
  <2> QED
    BY <1>2, <1>3, <2>1, ImportsKeepHands
<1>4. CASE enrollment' = Imported(s, c, r)
  <2>1. /\ enrollment' \in [Rows -> Enrollments \cup {NoRow}]
        /\ enrollment'[r].student = s /\ enrollment'[r].status = "active"
        /\ \A q \in Rows \ {r} : enrollment'[q] = enrollment[q]
        /\ enrollment[r].status = "absent" \/ enrollment[r].student = s
    BY <1>1, <1>4, ImportWrites, EnrollmentAssumption
  <2>2. TypeOK'
    BY <1>2, <2>1 DEF TypeOK, Overlap
  <2>3. \A v \in Users, q \in Rows : HoldsRow(v, q) => enrollment'[q] = enrollment[q]
    BY <1>1, <2>1 DEF RowIsFree
  <2> QED
    BY <1>2, <2>1, <2>2, <2>3, ImportsKeepHands
<1> QED
  BY <1>1, <1>3, <1>4

LEMMA StudentOnlyKeepsLocks ==
  ASSUME LockInv, NEW s \in Students, IngestStudentOnly(s)
  PROVE  LockInv'
<1>1. TypeOK'
  BY DEF LockInv, TypeOK, IngestStudentOnly
<1> QED
  BY <1>1, ImportsKeepHands DEF IngestStudentOnly

LEMMA LockInvInit == Init => LockInv
<1> SUFFICES ASSUME Init
             PROVE  LockInv
  OBVIOUS
<1> USE EnrollmentAssumption, IdleHoldsNothing
<1>1. \A u \in Users : request[u] = Idle
  BY DEF Init
<1>2. TypeOK
  <2>1. enrollment \in [Rows -> Enrollments \cup {NoRow}] /\ capacity \in [Classes -> 0 .. MaxCapacity]
    BY DEF Init
  <2>2. studentStatus \in [Students -> Closed \cup {"active"}] /\ request \in [Users -> Requests]
    BY DEF Init
  <2>3. job \in Jobs \cup {NoJob} /\ unsynced \subseteq Students /\ ingested \in BOOLEAN
    BY DEF Init
  <2>4. calls \in 0 .. MaxCalls
    BY DEF Init
  <2> QED
    BY <2>1, <2>2, <2>3, <2>4 DEF TypeOK
<1>3. Subject
  BY <1>1 DEF Subject
<1>4. RowsInHand
  BY <1>1 DEF RowsInHand, HoldsRow
<1>5. ClassesInHand
  BY <1>1 DEF Init, ClassesInHand
<1> QED
  BY <1>2, <1>3, <1>4, <1>5 DEF LockInv

LEMMA LockInvNext == LockInv /\ [Next]_vars => LockInv'
<1> SUFFICES ASSUME LockInv, [Next]_vars
             PROVE  LockInv'
  OBVIOUS
<1>1. ASSUME NEW u \in Users, Ask(u)
      PROVE  LockInv'
  BY <1>1, AskKeepsLocks
<1>2. ASSUME NEW u \in Users, RequestStep(u)
      PROVE  LockInv'
  BY <1>2, LockRowKeepsLocks, LockClassKeepsLocks, CheckKeepsLocks, CommitKeepsLocks,
     ResizeAndRollbackKeepLocks DEF RequestStep
<1>3. CASE ImportStep
  BY <1>3, ImportStepKeepsLocks
<1>4. ASSUME NEW s \in Students, NEW c \in Classes, Ingest(s, c)
      PROVE  LockInv'
  BY <1>4, IngestKeepsLocks
<1>6. ASSUME NEW s \in Students, IngestStudentOnly(s)
      PROVE  LockInv'
  BY <1>6, StudentOnlyKeepsLocks
<1>5. CASE UNCHANGED vars
  BY <1>5 DEF vars, tables, LockInv, TypeOK, Subject, SubjectOf, RowsInHand, InHand, HoldsRow, ClassesInHand
<1> QED
  BY <1>1, <1>2, <1>3, <1>4, <1>5, <1>6 DEF Next

-----------------------------------------------------------------------------
(* The seats of a class. *)

LEMMA SeatsAreCounted ==
  ASSUME NEW t, NEW c
  PROVE  IsFiniteSet(ActiveIn(t, c)) /\ Cardinality(ActiveIn(t, c)) \in Nat
<1>1. ActiveIn(t, c) \subseteq 1 .. MaxRows /\ MaxRows \in Int
  BY EnrollmentAssumption DEF ActiveIn, Rows
<1>2. IsFiniteSet(1 .. MaxRows)
  BY <1>1, FS_Interval
<1> QED
  BY <1>1, <1>2, FS_Subset, FS_CardinalityType

LEMMA NoMoreSeats ==
  ASSUME NEW t, NEW c, ActiveIn(t, c) \subseteq ActiveIn(enrollment, c)
  PROVE  Cardinality(ActiveIn(t, c)) <= Cardinality(ActiveIn(enrollment, c))
  BY SeatsAreCounted, FS_Subset

LEMMA OneMoreSeat ==
  ASSUME NEW t, NEW c, NEW n, ActiveIn(t, c) \subseteq ActiveIn(enrollment, c) \cup {n}
  PROVE  Cardinality(ActiveIn(t, c)) <= Cardinality(ActiveIn(enrollment, c)) + 1
<1> DEFINE A == ActiveIn(enrollment, c)
<1>1. IsFiniteSet(A) /\ Cardinality(A) \in Nat
  BY SeatsAreCounted
<1>2. IsFiniteSet(A \cup {n}) /\ Cardinality(A \cup {n}) = IF n \in A THEN Cardinality(A) ELSE Cardinality(A) + 1
  BY <1>1, FS_AddElement
<1>3. Cardinality(ActiveIn(t, c)) <= Cardinality(A \cup {n})
  BY <1>2, FS_Subset
<1>4. Cardinality(ActiveIn(t, c)) \in Nat
  BY SeatsAreCounted
<1> HIDE DEF A
<1>5. Cardinality(ActiveIn(t, c)) <= Cardinality(A) + 1
  BY <1>1, <1>2, <1>3, <1>4
<1> QED
  BY <1>5 DEF A

(* A request takes a seat of its own class only, and one at most.          *)
LEMMA WrittenSeats ==
  ASSUME NEW q, NEW t, Written(q, t)
  PROVE  /\ \A c \in Classes : c # q.class \/ q.op = "status" =>
              ActiveIn(t, c) \subseteq ActiveIn(enrollment, c)
         /\ q.op # "status" => \E n \in Rows : \A c \in Classes :
              ActiveIn(t, c) \subseteq ActiveIn(enrollment, c) \cup {n}
<1>1. "active" \notin Closed
  BY DEF Closed
<1>2. ASSUME NEW c \in Classes, c # q.class \/ q.op = "status", NEW r \in ActiveIn(t, c)
      PROVE  r \in ActiveIn(enrollment, c)
  BY <1>1, <1>2 DEF Written, ActiveIn
<1>3. ASSUME q.op # "status"
      PROVE  \E n \in Rows : \A c \in Classes :
               ActiveIn(t, c) \subseteq ActiveIn(enrollment, c) \cup {n}
  <2>1. PICK n \in Rows : \A r \in Rows : t[r] # enrollment[r] /\ r # n => t[r].status \in Closed
    BY <1>3 DEF Written
  <2>2. ASSUME NEW c \in Classes, NEW r \in ActiveIn(t, c), r # n
        PROVE  r \in ActiveIn(enrollment, c)
    BY <1>1, <2>1, <2>2 DEF ActiveIn
  <2> QED
    BY <2>2
<1> QED
  BY <1>2, <1>3

SeatInv == SeatIsKept /\ NoClassOverbooked

(* A request keeps the seat it counted, and a class its limit, when the    *)
(* class becomes no fuller and its capacity stays.                         *)
LEMMA SeatsStay ==
  ASSUME LockInv, SeatInv, ingested' = ingested,
         \A v \in Users : request'[v].step = "commit" => request'[v] = request[v],
         \A c \in Classes : /\ capacity'[c] = capacity[c]
                            /\ ActiveIn(enrollment', c) \subseteq ActiveIn(enrollment, c)
  PROVE  SeatInv'
<1> SUFFICES ASSUME ~ingested
             PROVE  SeatInv'
  BY DEF SeatInv, SeatIsKept, NoClassOverbooked
<1>1. \A c \in Classes : /\ Cardinality(ActiveIn(enrollment', c)) \in Nat
                         /\ Cardinality(ActiveIn(enrollment, c)) \in Nat
                         /\ Cardinality(ActiveIn(enrollment', c)) <= Cardinality(ActiveIn(enrollment, c))
                         /\ capacity[c] \in Nat
  BY SeatsAreCounted, NoMoreSeats DEF LockInv, TypeOK
<1>a. \A c \in Classes : Cardinality(ActiveIn(enrollment', c)) <= capacity'[c]
  BY <1>1 DEF SeatInv, NoClassOverbooked
<1>2. NoClassOverbooked'
  BY <1>a DEF NoClassOverbooked, ActiveIn
<1>3. ASSUME NEW v \in Users, request'[v].step = "commit", request'[v].op \in Reserving
      PROVE  HasRoom(request[v].class)'
  <2>1. request'[v] = request[v] /\ request[v].class \in Classes
    BY <1>3 DEF LockInv, Subject, SubjectOf, Reserving
  <2>2. HasRoom(request[v].class)
    BY <1>3, <2>1 DEF SeatInv, SeatIsKept
  <2>3. Cardinality(ActiveIn(enrollment, request[v].class)) < capacity[request[v].class]
    BY <2>2 DEF HasRoom
  <2>4. Cardinality(ActiveIn(enrollment', request[v].class)) < capacity'[request[v].class]
    BY <1>1, <2>1, <2>3
  <2> QED
    BY <2>1, <2>4 DEF HasRoom, ActiveIn
<1> QED
  BY <1>2, <1>3 DEF SeatInv, SeatIsKept

(* One class changes, while no other transaction holds it, and keeps its   *)
(* limit.                                                                  *)
LEMMA OneClassChanges ==
  ASSUME LockInv, SeatInv, ingested' = ingested, NEW k \in Classes,
         \A v \in Users : request'[v].step = "commit" =>
           request'[v] = request[v] /\ request[v].class # k,
         \A c \in Classes \ {k} : /\ capacity'[c] = capacity[c]
                                  /\ ActiveIn(enrollment', c) \subseteq ActiveIn(enrollment, c),
         ~ingested => Cardinality(ActiveIn(enrollment', k)) <= capacity'[k]
  PROVE  SeatInv'
<1> SUFFICES ASSUME ~ingested
             PROVE  SeatInv'
  BY DEF SeatInv, SeatIsKept, NoClassOverbooked
<1>1. \A c \in Classes \ {k} :
        /\ Cardinality(ActiveIn(enrollment', c)) \in Nat
        /\ Cardinality(ActiveIn(enrollment, c)) \in Nat
        /\ Cardinality(ActiveIn(enrollment', c)) <= Cardinality(ActiveIn(enrollment, c))
        /\ capacity[c] \in Nat
  BY SeatsAreCounted, NoMoreSeats DEF LockInv, TypeOK
<1>2. \A c \in Classes : Cardinality(ActiveIn(enrollment', c)) <= capacity'[c]
  BY <1>1 DEF SeatInv, NoClassOverbooked
<1>3. NoClassOverbooked'
  BY <1>2 DEF NoClassOverbooked, ActiveIn
<1>4. ASSUME NEW v \in Users, request'[v].step = "commit", request'[v].op \in Reserving
      PROVE  HasRoom(request[v].class)'
  <2>1. request'[v] = request[v] /\ request[v].class \in Classes \ {k}
    BY <1>4 DEF LockInv, Subject, SubjectOf, Reserving
  <2>2. HasRoom(request[v].class)
    BY <1>4, <2>1 DEF SeatInv, SeatIsKept
  <2>3. Cardinality(ActiveIn(enrollment, request[v].class)) < capacity[request[v].class]
    BY <2>2 DEF HasRoom
  <2>4. Cardinality(ActiveIn(enrollment', request[v].class)) < capacity'[request[v].class]
    BY <1>1, <2>1, <2>3
  <2> QED
    BY <2>1, <2>4 DEF HasRoom, ActiveIn
<1> QED
  BY <1>3, <1>4 DEF SeatInv, SeatIsKept

LEMMA SeatInvNext == LockInv /\ SeatInv /\ [Next]_vars => SeatInv'
<1> SUFFICES ASSUME LockInv, SeatInv, [Next]_vars
             PROVE  SeatInv'
  OBVIOUS
<1> USE DEF LockInv
<1>a. ASSUME NEW u \in Users, NEW p, request' = [request EXCEPT ![u] = p], p.step # "commit",
             UNCHANGED <<enrollment, capacity, ingested>>
      PROVE  SeatInv'
  BY <1>a, SeatsStay DEF TypeOK
<1>b. ASSUME UNCHANGED <<enrollment, capacity, request, ingested>>
      PROVE  SeatInv'
  BY <1>b, SeatsStay
<1>1. ASSUME NEW u \in Users, Ask(u)
      PROVE  SeatInv'
  <2>1. ASSUME NEW p, Begin(u, p), p.step # "commit"
        PROVE  SeatInv'
    BY <2>1, <1>a DEF Begin, tables
  <2>2. ASSUME NEW s \in Students, AskCreate(u, s)
        PROVE  SeatInv'
    BY <2>1, <2>2 DEF AskCreate, Idle
  <2>3. ASSUME NEW op, NEW r \in Rows, AskAbout(u, op, r)
        PROVE  SeatInv'
    BY <2>1, <2>3 DEF AskAbout, Idle
  <2>4. ASSUME AskUpdate(u)
        PROVE  SeatInv'
    BY <2>1, <2>4 DEF AskUpdate, Idle
  <2> QED
    BY <1>1, <2>2, <2>3, <2>4 DEF Ask
<1>2. ASSUME NEW u \in Users, LockRow(u)
      PROVE  SeatInv'
  <2>1. PICK seen : request' = [request EXCEPT ![u] =
          [request[u] EXCEPT !.step = IF request[u].op = "status" THEN "check" ELSE "class", !.seen = seen]]
    BY <1>2 DEF LockRow, TypeOK
  <2>2. [request[u] EXCEPT !.step = IF request[u].op = "status" THEN "check" ELSE "class",
                           !.seen = seen].step # "commit"
    BY DEF TypeOK, Requests
  <2> QED
    BY <1>2, <1>a, <2>1, <2>2, ZenonT(60) DEF LockRow, tables
<1>3. ASSUME NEW u \in Users, NEW c \in Classes, LockClass(u, c)
      PROVE  SeatInv'
  <2>1. request' = [request EXCEPT ![u] = [request[u] EXCEPT !.step = "check", !.class = c]]
    BY <1>3 DEF LockClass, TypeOK
  <2>2. [request[u] EXCEPT !.step = "check", !.class = c].step # "commit"
    BY DEF TypeOK, Requests
  <2> QED
    BY <1>3, <1>a, <2>1, <2>2 DEF LockClass, tables
<1>4. ASSUME NEW u \in Users, NEW st \in Closed \cup {"active"}, NEW d \in Dates, Check(u, st, d)
      PROVE  SeatInv'
  <2> DEFINE q == [request[u] EXCEPT !.step = "commit", !.status = st, !.date = d]
  <2>1. /\ Allowed(q) /\ UNCHANGED <<enrollment, capacity, ingested>>
        /\ \E x : request' = [request EXCEPT ![u] = [q EXCEPT !.decided = x]]
    BY <1>4 DEF Check, tables
  <2>2. PICK x : request' = [request EXCEPT ![u] = [q EXCEPT !.decided = x]]
    BY <2>1
  <2>3. /\ q.op = request[u].op /\ q.class = request[u].class
        /\ [q EXCEPT !.decided = x].op = q.op /\ [q EXCEPT !.decided = x].class = q.class
    BY DEF TypeOK, Requests
  <2> HIDE DEF q
  <2>4. NoClassOverbooked'
    BY <2>1 DEF SeatInv, NoClassOverbooked, ActiveIn
  <2>5. ASSUME ~ingested, NEW v \in Users, request'[v].step = "commit", request'[v].op \in Reserving
        PROVE  HasRoom(request'[v].class)
    <3>1. CASE v = u
      <4>1. q.op \in Reserving /\ request'[v].class = q.class
        BY <2>2, <2>3, <2>5, <3>1 DEF TypeOK
      <4> QED
        BY <2>1, <4>1 DEF Allowed, Reserving
    <3>2. CASE v # u
      BY <2>2, <2>5, <3>2 DEF SeatInv, SeatIsKept, TypeOK
    <3> QED
      BY <3>1, <3>2
  <2>6. SeatIsKept'
    BY <2>1, <2>5 DEF SeatIsKept, HasRoom, ActiveIn
  <2> QED
    BY <2>4, <2>6 DEF SeatInv
<1>5. ASSUME NEW u \in Users, Commit(u)
      PROVE  SeatInv'
  <2> DEFINE q == request[u]
  <2>1. q.step = "commit" /\ Ready(q) /\ SubjectOf(q)
    BY <1>5, CommitIsReady DEF Commit, Subject
  <2>2. Written(q, enrollment')
    BY <1>5, <2>1, AfterIsWritten, EnrollmentAssumption DEF Commit
  <2>3. \A v \in Users : request'[v].step = "commit" => request'[v] = request[v] /\ v # u
    BY <1>5, IdleHoldsNothing DEF Commit, TypeOK
  <2>4. capacity' = capacity /\ ingested' = ingested
    BY <1>5 DEF Commit
  <2>5. CASE q.op = "status"
    BY <2>2, <2>3, <2>4, <2>5, WrittenSeats, SeatsStay
  <2>6. CASE q.op # "status"
    <3>1. q.op \in Reserving /\ q.class \in Classes
      BY <2>1, <2>6 DEF Ready
    <3>2. \A v \in Users : request'[v].step = "commit" =>
            request'[v] = request[v] /\ request[v].class # q.class
      BY <2>3, <3>1, EnrollmentAssumption DEF ClassesInHand, Nowhere
    <3>3. \A c \in Classes \ {q.class} : ActiveIn(enrollment', c) \subseteq ActiveIn(enrollment, c)
      BY <2>2, WrittenSeats
    <3>4. ASSUME ~ingested
          PROVE  Cardinality(ActiveIn(enrollment', q.class)) <= capacity'[q.class]
      <4>1. Cardinality(ActiveIn(enrollment, q.class)) < capacity[q.class]
        BY <2>1, <3>1, <3>4 DEF SeatInv, SeatIsKept, HasRoom
      <4>2. PICK n \in Rows : ActiveIn(enrollment', q.class) \subseteq ActiveIn(enrollment, q.class) \cup {n}
        BY <2>2, <2>6, <3>1, WrittenSeats
      <4>3. Cardinality(ActiveIn(enrollment', q.class)) <= Cardinality(ActiveIn(enrollment, q.class)) + 1
        BY <4>2, OneMoreSeat
      <4>4. Cardinality(ActiveIn(enrollment', q.class)) \in Nat
            /\ Cardinality(ActiveIn(enrollment, q.class)) \in Nat /\ capacity[q.class] \in Nat
        BY <3>1, SeatsAreCounted, EnrollmentAssumption DEF TypeOK
      <4> QED
        BY <2>4, <4>1, <4>3, <4>4
    <3> QED
      BY <2>4, <3>1, <3>2, <3>3, <3>4, OneClassChanges
  <2> QED
    BY <2>5, <2>6
<1>6. ASSUME NEW u \in Users, NEW n \in 0 .. MaxCapacity, Resize(u, n)
      PROVE  SeatInv'
  <2> DEFINE k == request[u].class
  <2>1. k \in Classes
    BY <1>6 DEF Resize, Subject, SubjectOf
  <2>2. \A v \in Users : request'[v].step = "commit" => request'[v] = request[v] /\ request[v].class # k
    BY <1>6, <2>1, IdleHoldsNothing, EnrollmentAssumption DEF Resize, TypeOK, ClassesInHand, Nowhere
  <2>3. \A c \in Classes \ {k} : capacity'[c] = capacity[c]
    BY <1>6 DEF Resize, TypeOK
  <2>4. Cardinality(ActiveIn(enrollment', k)) <= capacity'[k] /\ UNCHANGED <<enrollment, ingested>>
    BY <1>6, <2>1 DEF Resize, TypeOK
  <2> QED
    BY <2>1, <2>2, <2>3, <2>4, OneClassChanges
<1>7. ASSUME NEW u \in Users, Rollback(u)
      PROVE  SeatInv'
  BY <1>7, <1>a, IdleHoldsNothing DEF Rollback, tables
<1>8. ASSUME NEW n \in 0 .. MaxCapacity, ImportCommits(n)
      PROVE  SeatInv'
  <2> DEFINE s == job.student
             k == job.class
  <2>1. job.step = "commit" /\ s \in Students /\ k \in Classes /\ job # NoJob
    BY <1>8 DEF ImportCommits, TypeOK, Jobs, NoJob
  <2>2. PICK r \in Rows : /\ Reusable(s, k, r) /\ enrollment' = Imported(s, k, r)
                          /\ Cardinality(ActiveIn(Imported(s, k, r), k)) <= n
    BY <1>8 DEF ImportCommits
  <2>3. capacity' = [capacity EXCEPT ![k] = n] /\ request' = request /\ ingested' = ingested
    BY <1>8 DEF ImportCommits
  <2>4. enrollment'[r].class = k /\ \A q \in Rows \ {r} : enrollment'[q] = enrollment[q]
    BY <2>1, <2>2, ImportWrites, EnrollmentAssumption
  <2>5. \A c \in Classes \ {k} : /\ capacity'[c] = capacity[c]
                                 /\ ActiveIn(enrollment', c) \subseteq ActiveIn(enrollment, c)
    BY <2>3, <2>4 DEF TypeOK, ActiveIn
  <2>6. Cardinality(ActiveIn(enrollment', k)) <= capacity'[k]
    BY <2>1, <2>2, <2>3 DEF TypeOK
  <2>7. \A v \in Users : request[v].class # k
    BY <2>1 DEF ClassesInHand
  <2> QED
    BY <2>1, <2>3, <2>5, <2>6, <2>7, OneClassChanges
<1>9. ASSUME NEW s \in Students, NEW k \in Classes, ImportEnrollments(s, k)
      PROVE  SeatInv'
  <2>1. PICK d \in Dates :
          enrollment' \in After([Idle EXCEPT !.op = "create", !.student = s, !.class = k, !.date = d])
    BY <1>9 DEF ImportEnrollments
  <2> DEFINE q == [Idle EXCEPT !.op = "create", !.student = s, !.class = k, !.date = d]
  <2>2. q.op = "create" /\ q.student = s /\ q.class = k /\ q.date = d /\ q.status = "active"
    BY DEF Idle
  <2> HIDE DEF q
  <2>3. Written(q, enrollment')
    BY <2>1, <2>2, CreateWrites, EnrollmentAssumption DEF q
  <2>4. ClassIsFree(k) /\ HasRoom(k) /\ UNCHANGED <<capacity, request, ingested>>
    BY <1>9 DEF ImportEnrollments
  <2>5. \A c \in Classes \ {k} : ActiveIn(enrollment', c) \subseteq ActiveIn(enrollment, c)
    BY <2>2, <2>3, WrittenSeats
  <2>6. Cardinality(ActiveIn(enrollment', k)) <= capacity'[k]
    <3>1. q.op # "status"
      BY <2>2
    <3>2. PICK n \in Rows : ActiveIn(enrollment', k) \subseteq ActiveIn(enrollment, k) \cup {n}
      BY <2>3, <3>1, WrittenSeats
    <3>3. Cardinality(ActiveIn(enrollment', k)) <= Cardinality(ActiveIn(enrollment, k)) + 1
      BY <3>2, OneMoreSeat
    <3>4. Cardinality(ActiveIn(enrollment', k)) \in Nat
          /\ Cardinality(ActiveIn(enrollment, k)) \in Nat /\ capacity[k] \in Nat
      BY SeatsAreCounted, EnrollmentAssumption DEF TypeOK
    <3> QED
      BY <2>4, <3>3, <3>4 DEF HasRoom
  <2>7. \A v \in Users : request[v].class # k
    BY <2>4 DEF ClassIsFree, HoldsClass
  <2> QED
    BY <2>4, <2>5, <2>6, <2>7, OneClassChanges
<1>10. ASSUME NEW s \in Students, IngestStudentOnly(s) \/ \E c \in Classes : Ingest(s, c)
       PROVE  SeatInv'
  BY <1>10 DEF Ingest, IngestStudentOnly, SeatInv, SeatIsKept, NoClassOverbooked
<1>11. CASE ImportStep
  <2>1. ASSUME NEW c \in Classes, ImportLocksClass(c)
        PROVE  SeatInv'
    BY <2>1, <1>b DEF ImportLocksClass, tables
  <2>2. ASSUME NEW s \in Students, ImportLocksRows(s)
        PROVE  SeatInv'
    BY <2>2, <1>b DEF ImportLocksRows, tables
  <2>3. ASSUME ImportRollsBack
        PROVE  SeatInv'
    BY <2>3, <1>b DEF ImportRollsBack, tables
  <2> QED
    BY <1>8, <1>9, <1>11, <2>1, <2>2, <2>3 DEF ImportStep
<1>12. CASE UNCHANGED vars
  BY <1>12, <1>b DEF vars, tables
<1> QED
  BY <1>1, <1>2, <1>3, <1>4, <1>5, <1>6, <1>7, <1>10, <1>11, <1>12 DEF Next, RequestStep

(* What a step of a request leaves as it is. *)
ClosedKept ==
  request' # request =>
    \A r \in Rows : enrollment[r].status \in Closed => enrollment'[r] = enrollment[r]

LEMMA ClosedIsKept == LockInv /\ [Next]_vars => ClosedKept
<1> SUFFICES ASSUME LockInv, [Next]_vars
             PROVE  ClosedKept
  OBVIOUS
<1>a. ASSUME enrollment' = enrollment \/ request' = request
      PROVE  ClosedKept
  BY <1>a DEF ClosedKept
<1>1. ASSUME NEW u \in Users, Ask(u)
      PROVE  ClosedKept
  BY <1>1, <1>a DEF Ask, AskCreate, AskAbout, AskUpdate, Begin, tables
<1>2. ASSUME NEW u \in Users, Commit(u)
      PROVE  ClosedKept
  <2> DEFINE q == request[u]
  <2>1. Ready(q) /\ Written(q, enrollment')
    BY <1>2, CommitIsReady, AfterIsWritten, EnrollmentAssumption DEF Commit, LockInv
  <2>2. ASSUME NEW r \in Rows, enrollment[r].status \in Closed
        PROVE  enrollment'[r] = enrollment[r]
    <3>1. enrollment[r].status # "active" /\ enrollment[r].status # "absent"
      BY <2>2 DEF Closed
    <3>2. ~(q.op \in ByRow /\ r = q.row)
      BY <2>1, <3>1 DEF Ready
    <3> QED
      BY <2>1, <3>1, <3>2 DEF Written
  <2> QED
    BY <2>2 DEF ClosedKept
<1>3. ASSUME NEW u \in Users, RequestStep(u), ~Commit(u)
      PROVE  ClosedKept
  BY <1>3, <1>a DEF RequestStep, LockRow, LockClass, Check, Resize, Rollback, tables
<1>4. CASE ImportStep
  BY <1>4, <1>a DEF ImportStep, ImportLocksClass, ImportLocksRows, ImportCommits, ImportRollsBack,
     ImportEnrollments
<1>5. ASSUME NEW s \in Students, IngestStudentOnly(s) \/ \E c \in Classes : Ingest(s, c)
      PROVE  ClosedKept
  BY <1>5, <1>a DEF Ingest, IngestStudentOnly
<1>6. CASE UNCHANGED vars
  BY <1>6, <1>a DEF vars
<1> QED
  BY <1>1, <1>2, <1>3, <1>4, <1>5, <1>6 DEF Next

LEMMA SeatInvInit == Init => SeatInv
<1> SUFFICES ASSUME Init
             PROVE  SeatInv
  OBVIOUS
<1>1. \A c \in Classes : ActiveIn(enrollment, c) = {}
  BY NoRowIsAbsent DEF Init, ActiveIn
<1>2. \A c \in Classes : Cardinality(ActiveIn(enrollment, c)) = 0 /\ capacity[c] \in Nat
  BY <1>1, FS_EmptySet, EnrollmentAssumption DEF Init
<1>3. NoClassOverbooked
  BY <1>2 DEF NoClassOverbooked
<1>4. SeatIsKept
  BY IdleHoldsNothing DEF Init, SeatIsKept
<1> QED
  BY <1>3, <1>4 DEF SeatInv

-----------------------------------------------------------------------------
(* The locks are held to the end by at most one transaction each, and what *)
(* was checked under them still holds when it is written.                  *)
LEMMA Locking == Spec => [](LockInv /\ SeatInv)
<1>1. LockInv /\ SeatInv /\ [Next]_vars => (LockInv /\ SeatInv)'
  BY LockInvNext, SeatInvNext
<1> QED
  BY <1>1, LockInvInit, SeatInvInit, PTL DEF Spec

(* A class never has more active enrollments than its capacity, for any    *)
(* number of students, classes and concurrent requests.                    *)
THEOREM ClassesAreNotOverbooked == Spec => []NoClassOverbooked
<1>1. SeatInv => NoClassOverbooked
  BY DEF SeatInv
<1> QED
  BY <1>1, Locking, PTL

(* A request never writes an enrollment that has been closed.              *)
THEOREM ClosedIsFinal == Spec => ClosedStaysClosed
<1>1. LockInv /\ SeatInv /\ [Next]_vars => [ClosedKept]_vars
  BY ClosedIsKept
<1> QED
  BY <1>1, Locking, PTL DEF ClosedStaysClosed, ClosedKept, Spec

-----------------------------------------------------------------------------
(* The status of a student. *)

LEMMA DesiredOfRecords ==
  ASSUME NEW t, NEW s
  PROVE  Desired(t, s) = StatusOf({t[r] : r \in Of(t, s)})
<1> DEFINE R == {t[r] : r \in Of(t, s)}
<1>1. (\E r \in Of(t, s) : t[r].status = "active") <=> (\E e \in R : e.status = "active")
  OBVIOUS
<1>2. {t[r].status : r \in {q \in Of(t, s) : \A p \in Of(t, s) : t[p].to <= t[q].to}}
      = {e.status : e \in {f \in R : \A g \in R : g.to <= f.to}}
  OBVIOUS
<1> QED
  BY <1>1, <1>2 DEF Desired, StatusOf

LEMMA ActiveIsDesired ==
  ASSUME NEW t, NEW s, NEW r \in Rows, t[r].student = s, t[r].status = "active"
  PROVE  Desired(t, s) = {"active"}
  BY DEF Desired, Of

(* A row that is free is nobody's.                                         *)
LEMMA FreeIsNobodys ==
  ASSUME TypeOK, NEW r \in Rows, enrollment[r].status = "absent", NEW s \in Students
  PROVE  enrollment[r].student # s /\ r \notin Of(enrollment, s)
<1>1. enrollment[r] = NoRow
  BY RowsOfATable DEF TypeOK
<1> QED
  BY <1>1, NoRowIsAbsent, EnrollmentAssumption DEF Nobody, Of

(* The records of a student after a request, whichever row is free.        *)
LEMMA AfterRecords ==
  ASSUME EnrollmentAssumption, TypeOK, NEW q, Ready(q), NEW t \in After(q)
  PROVE  {t[r] : r \in Of(t, q.student)} = Outcome(enrollment, q)
<1> DEFINE s == q.student
<1>0. s \in Students
  BY RowsOfATable DEF Ready, TypeOK, Reserving, ByRow
<1>1. CASE q.op = "create"
  <2> DEFINE e == [student |-> q.student, class |-> q.class, status |-> q.status, from |-> q.date,
                   to |-> IF q.status = "active" THEN 0 ELSE q.date]
  <2>1. PICK n \in FreeRows : t = [enrollment EXCEPT ![n] = e]
    BY <1>1 DEF After, OnFirstDay
  <2>2. n \in Rows /\ n \notin Of(enrollment, s)
    BY <1>0, FreeRowsAreAbsent, FreeIsNobodys
  <2>3. NewRecords(enrollment, q) = {e}
    BY <1>1 DEF NewRecords, OnFirstDay
  <2>4. e.student = s
    OBVIOUS
  <2> HIDE DEF e
  <2>5. \A r \in Rows : t[r] = IF r = n THEN e ELSE enrollment[r]
    BY <2>1 DEF TypeOK
  <2>6. Of(t, s) = Of(enrollment, s) \cup {n}
    BY <2>2, <2>4, <2>5 DEF Of
  <2>7. OldRecords(enrollment, q) = {enrollment[r] : r \in Of(enrollment, s)}
    <3>1. q.row \notin Of(enrollment, s)
      BY <1>1 DEF Ready, Of, Rows
    <3> QED
      BY <3>1 DEF OldRecords
  <2>8. \A r \in Of(enrollment, s) : t[r] = enrollment[r]
    BY <2>2, <2>5 DEF Of
  <2>9. t[n] = e
    BY <2>2, <2>5
  <2> QED
    BY <2>3, <2>6, <2>7, <2>8, <2>9 DEF Outcome
<1>2. ASSUME NEW e, t = [enrollment EXCEPT ![q.row] = e], e.student = s, NewRecords(enrollment, q) = {e},
             q.row \in Of(enrollment, s)
      PROVE  {t[r] : r \in Of(t, s)} = Outcome(enrollment, q)
  <2>1. \A r \in Rows : t[r] = IF r = q.row THEN e ELSE enrollment[r]
    BY <1>2 DEF TypeOK
  <2>2. Of(t, s) = (Of(enrollment, s) \ {q.row}) \cup {q.row}
    BY <1>2, <2>1 DEF Of
  <2>3. \A r \in Of(enrollment, s) \ {q.row} : t[r] = enrollment[r]
    BY <2>1 DEF Of
  <2>4. t[q.row] = e
    BY <1>2, <2>1 DEF Of
  <2>5. NewRecords(enrollment, q) = {e}
    BY <1>2
  <2>6. {t[r] : r \in Of(t, s)} = {enrollment[r] : r \in Of(enrollment, s) \ {q.row}} \cup {e}
    BY <2>2, <2>3, <2>4
  <2> QED
    BY <2>5, <2>6 DEF Outcome, OldRecords
<1>3. ASSUME q.op \in ByRow
      PROVE  q.row \in Of(enrollment, s) /\ enrollment[q.row] \in Enrollments
             /\ enrollment[q.row].student = s
  BY <1>3, RowsOfATable DEF Ready, Of, TypeOK
<1>4. CASE q.op = "status"
  <2>1. t = [enrollment EXCEPT ![q.row] = [enrollment[q.row] EXCEPT !.status = q.status, !.to = q.date]]
    BY <1>4 DEF After
  <2>2. [enrollment[q.row] EXCEPT !.status = q.status, !.to = q.date].student = s
    BY <1>3, <1>4 DEF ByRow, Enrollments
  <2>3. NewRecords(enrollment, q) = {[enrollment[q.row] EXCEPT !.status = q.status, !.to = q.date]}
    BY <1>4 DEF NewRecords, OnFirstDay
  <2> QED
    BY <1>2, <1>3, <1>4, <2>1, <2>2, <2>3 DEF ByRow
<1>5. CASE q.op \in {"change", "transfer"} /\ OnFirstDay(q)
  <2>1. t = [enrollment EXCEPT ![q.row] = [enrollment[q.row] EXCEPT !.class = q.class]]
    BY <1>5 DEF After
  <2>2. [enrollment[q.row] EXCEPT !.class = q.class].student = s
    BY <1>3, <1>5 DEF ByRow, Enrollments
  <2>3. NewRecords(enrollment, q) = {[enrollment[q.row] EXCEPT !.class = q.class]}
    BY <1>5 DEF NewRecords, OnFirstDay
  <2> QED
    BY <1>2, <1>3, <1>5, <2>1, <2>2, <2>3 DEF ByRow
<1>6. CASE q.op \in {"change", "transfer"} /\ ~OnFirstDay(q)
  <2> DEFINE e == [enrollment[q.row] EXCEPT !.status = "transferred", !.to = LeftOn(q)]
             f == [student |-> q.student, class |-> q.class, status |-> "active",
                   from |-> q.date, to |-> 0]
  <2>1. PICK n \in FreeRows : t = [enrollment EXCEPT ![q.row].status = "transferred",
                                                     ![q.row].to = LeftOn(q), ![n] = f]
    BY <1>6 DEF After
  <2>2. q.row \in Of(enrollment, s) /\ enrollment[q.row] \in Enrollments /\ enrollment[q.row].student = s
    BY <1>3, <1>6 DEF ByRow
  <2>3. n \in Rows /\ n \notin Of(enrollment, s) /\ n # q.row
    BY <1>0, <2>2, FreeRowsAreAbsent, FreeIsNobodys
  <2>4. t = [[enrollment EXCEPT ![q.row] = e] EXCEPT ![n] = f]
    BY <2>1, <2>2, <2>3 DEF TypeOK, Of
  <2>5. NewRecords(enrollment, q) = {e, f}
    BY <1>6 DEF NewRecords, OnFirstDay
  <2>6. e.student = s /\ f.student = s
    BY <2>2 DEF Enrollments
  <2> HIDE DEF e, f
  <2>7. \A r \in Rows : t[r] = IF r = n THEN f ELSE IF r = q.row THEN e ELSE enrollment[r]
    BY <2>3, <2>4 DEF TypeOK
  <2>8. Of(t, s) = (Of(enrollment, s) \ {q.row}) \cup {q.row, n}
    BY <2>2, <2>3, <2>6, <2>7 DEF Of
  <2>9. \A r \in Of(enrollment, s) \ {q.row} : t[r] = enrollment[r]
    BY <2>3, <2>7 DEF Of
  <2>10. t[q.row] = e /\ t[n] = f
    BY <2>2, <2>3, <2>7 DEF Of
  <2> QED
    BY <2>5, <2>8, <2>9, <2>10 DEF Outcome, OldRecords
<1> QED
  BY <1>1, <1>4, <1>5, <1>6 DEF Ready, Reserving

LEMMA AfterDesired ==
  ASSUME EnrollmentAssumption, TypeOK, NEW q, Ready(q), NEW t \in After(q)
  PROVE  Desired(t, q.student) = StatusOf(Outcome(enrollment, q))
  BY AfterRecords, DesiredOfRecords

(* What is written about one student changes nothing for another.          *)
LEMMA OthersUnchanged ==
  ASSUME LockInv, NEW x \in Students,
         \A r \in Rows : enrollment[r].student = x \/ enrollment'[r].student = x =>
                           enrollment'[r] = enrollment[r]
  PROVE  /\ Of(enrollment', x) = Of(enrollment, x)
         /\ Desired(enrollment', x) = Desired(enrollment, x)
         /\ \A q : q.student = x /\ (q.op \in ByRow => q.row \in Of(enrollment, x))
                     /\ q.op \in Reserving \cup {"status"} => Outcome(enrollment', q) = Outcome(enrollment, q)
<1>1. Of(enrollment', x) = Of(enrollment, x)
  BY DEF Of
<1>2. \A r \in Of(enrollment, x) : enrollment'[r] = enrollment[r]
  BY DEF Of
<1>3. {enrollment'[r] : r \in Of(enrollment', x)} = {enrollment[r] : r \in Of(enrollment, x)}
  BY <1>1, <1>2
<1>4. Desired(enrollment', x) = Desired(enrollment, x)
  BY <1>3, DesiredOfRecords
<1>5. ASSUME NEW q, q.student = x, q.op \in ByRow => q.row \in Of(enrollment, x),
             q.op \in Reserving \cup {"status"}
      PROVE  Outcome(enrollment', q) = Outcome(enrollment, q)
  <2>1. {enrollment'[r] : r \in Of(enrollment', x) \ {q.row}}
        = {enrollment[r] : r \in Of(enrollment, x) \ {q.row}}
    BY <1>1, <1>2
  <2>2. OldRecords(enrollment', q) = OldRecords(enrollment, q)
    BY <1>5, <2>1 DEF OldRecords, Of
  <2>3. NewRecords(enrollment', q) = NewRecords(enrollment, q)
    <3>1. CASE q.op = "create"
      BY <3>1 DEF NewRecords, OnFirstDay
    <3>2. CASE q.op \in ByRow
      <4>1. enrollment'[q.row] = enrollment[q.row]
        BY <1>2, <1>5, <3>2
      <4> QED
        BY <4>1 DEF NewRecords, OnFirstDay
    <3> QED
      BY <1>5, <3>1, <3>2 DEF Reserving, ByRow
  <2> QED
    BY <2>2, <2>3 DEF Outcome
<1> QED
  BY <1>1, <1>4, <1>5

LEMMA RowOfSubject ==
  ASSUME LockInv, NEW v \in Users, request[v].op \in ByRow
  PROVE  request[v].row \in Of(enrollment, request[v].student)
  BY DEF LockInv, Subject, SubjectOf, Of

(* A transaction that writes about one student, s: either nobody else was  *)
(* about s, and the status is right, or s is marked.                       *)
LEMMA WritingAboutOne ==
  ASSUME LockInv, StatusInv, NEW s \in Students,
         \A r \in Rows : enrollment'[r] = enrollment[r]
                         \/ (enrollment[r].student \in {s, Nobody} /\ enrollment'[r].student = s),
         \A x \in Students \ {s} : studentStatus'[x] = studentStatus[x],
         unsynced' \in {unsynced, unsynced \cup {s}},
         \A v \in Users : request'[v] = request[v] \/ request'[v] = Idle,
         s \notin unsynced' => /\ \A v \in Users : request'[v].student # s
                               /\ Of(enrollment', s) # {} =>
                                    studentStatus'[s] \in Desired(enrollment', s)
  PROVE  StatusInv'
<1>1. ASSUME NEW x \in Students \ {s}
      PROVE  /\ Of(enrollment', x) = Of(enrollment, x)
             /\ Desired(enrollment', x) = Desired(enrollment, x)
             /\ \A q : q.student = x /\ (q.op \in ByRow => q.row \in Of(enrollment, x))
                         /\ q.op \in Reserving \cup {"status"} => Outcome(enrollment', q) = Outcome(enrollment, q)
  <2>1. x \in Students /\ x # Nobody
    BY EnrollmentAssumption DEF Nobody
  <2>2. \A r \in Rows : enrollment[r].student = x \/ enrollment'[r].student = x =>
                          enrollment'[r] = enrollment[r]
    BY <1>1, <2>1
  <2> QED
    BY <2>1, <2>2, OthersUnchanged
<1>2. ASSUME NEW v \in Users, request'[v].student \in Students \ unsynced'
      PROVE  /\ request'[v] = request[v] /\ request[v].student \in Students \ unsynced
             /\ request[v].student # s
  BY <1>2, IdleHoldsNothing, EnrollmentAssumption DEF Nobody
<1>3. SeenIsCurrent'
  BY <1>2 DEF StatusInv, SeenIsCurrent
<1>4. DecisionStands'
  <2>1. ASSUME NEW v \in Users, request'[v].step = "commit", request'[v].student \notin unsynced'
        PROVE  (IF request'[v].decided = "keep" THEN request'[v].seen ELSE request'[v].decided)
                 \in StatusOf(Outcome(enrollment', request'[v]))
    <3> DEFINE q == request[v]
    <3>1. request'[v] = q /\ q.step = "commit"
      BY <2>1, IdleHoldsNothing
    <3>2. q.op \in Reserving \cup {"status"} /\ q.student \in Students
      <4>1. Ready(q)
        BY <3>1, CommitIsReady
      <4> QED
        BY <4>1, RowsOfATable DEF Ready, LockInv, TypeOK, Reserving, ByRow
    <3>3. q.student \in Students \ {s} /\ q.student \notin unsynced
      BY <1>2, <2>1, <3>1, <3>2
    <3>4. q.op \in ByRow => q.row \in Of(enrollment, q.student)
      BY RowOfSubject
    <3>5. Outcome(enrollment', q) = Outcome(enrollment, q)
      BY <1>1, <3>2, <3>3, <3>4
    <3>6. (IF q.decided = "keep" THEN q.seen ELSE q.decided) \in StatusOf(Outcome(enrollment, q))
      BY <3>1, <3>3 DEF StatusInv, DecisionStands
    <3> QED
      BY <3>1, <3>5, <3>6
  <2> QED
    BY <2>1 DEF DecisionStands
<1>5. StatusFollowsEnrollments'
  <2>1. ASSUME NEW x \in Students \ unsynced', Of(enrollment', x) # {}
        PROVE  studentStatus'[x] \in Desired(enrollment', x)
    <3>1. CASE x = s
      BY <2>1, <3>1
    <3>2. CASE x # s
      <4>1. Of(enrollment, x) # {} /\ x \in Students \ unsynced
        BY <1>1, <2>1, <3>2
      <4>2. studentStatus[x] \in Desired(enrollment, x)
        BY <4>1 DEF StatusInv, StatusFollowsEnrollments
      <4> QED
        BY <1>1, <2>1, <3>2, <4>2
    <3> QED
      BY <3>1, <3>2
  <2> QED
    BY <2>1 DEF StatusFollowsEnrollments, Of, Desired
<1> QED
  BY <1>3, <1>4, <1>5 DEF StatusInv

(* A step of one request that writes nothing.                              *)
LEMMA OnlyOneRequest ==
  ASSUME LockInv, StatusInv, NEW u \in Users, NEW p, request' = [request EXCEPT ![u] = p],
         UNCHANGED <<enrollment, studentStatus, unsynced>>,
         p.student \in Students \ unsynced => p.seen = studentStatus[p.student],
         p.step = "commit" /\ p.student \notin unsynced =>
           (IF p.decided = "keep" THEN p.seen ELSE p.decided) \in StatusOf(Outcome(enrollment, p))
  PROVE  StatusInv'
<1>1. \A v \in Users : request'[v] = IF v = u THEN p ELSE request[v]
  BY DEF LockInv, TypeOK
<1>2. SeenIsCurrent'
  BY <1>1 DEF StatusInv, SeenIsCurrent
<1>3. DecisionStands'
  <2>1. ASSUME NEW v \in Users, request'[v].step = "commit", request'[v].student \notin unsynced'
        PROVE  (IF request'[v].decided = "keep" THEN request'[v].seen ELSE request'[v].decided)
                 \in StatusOf(Outcome(enrollment', request'[v]))
    BY <1>1, <2>1 DEF StatusInv, DecisionStands
  <2> QED
    BY <2>1 DEF DecisionStands
<1>4. StatusFollowsEnrollments'
  BY DEF StatusInv, StatusFollowsEnrollments, Of, Desired
<1> QED
  BY <1>2, <1>3, <1>4 DEF StatusInv

LEMMA NothingWritten ==
  ASSUME StatusInv, UNCHANGED <<enrollment, studentStatus, unsynced, request>>
  PROVE  StatusInv'
<1>1. SeenIsCurrent'
  BY DEF StatusInv, SeenIsCurrent
<1>2. DecisionStands'
  <2>1. ASSUME NEW v \in Users, request'[v].step = "commit", request'[v].student \notin unsynced'
        PROVE  (IF request'[v].decided = "keep" THEN request'[v].seen ELSE request'[v].decided)
                 \in StatusOf(Outcome(enrollment', request'[v]))
    BY <2>1 DEF StatusInv, DecisionStands
  <2> QED
    BY <2>1 DEF DecisionStands
<1>3. StatusFollowsEnrollments'
  BY DEF StatusInv, StatusFollowsEnrollments, Of, Desired
<1> QED
  BY <1>1, <1>2, <1>3 DEF StatusInv

LEMMA StatusInvNext == LockInv /\ StatusInv /\ [Next]_vars => StatusInv'
<1> SUFFICES ASSUME LockInv, StatusInv, [Next]_vars
             PROVE  StatusInv'
  OBVIOUS
<1> USE DEF LockInv
<1>1. ASSUME NEW u \in Users, Ask(u)
      PROVE  StatusInv'
  <2>1. ASSUME NEW p, Begin(u, p), p.step # "commit",
               p.student \in Students => p.seen = studentStatus[p.student]
        PROVE  StatusInv'
    BY <2>1, OnlyOneRequest DEF Begin, tables
  <2>2. ASSUME NEW s \in Students, AskCreate(u, s)
        PROVE  StatusInv'
    BY <2>1, <2>2 DEF AskCreate, Idle
  <2>3. ASSUME NEW op, NEW r \in Rows, AskAbout(u, op, r)
        PROVE  StatusInv'
    BY <2>1, <2>3 DEF AskAbout, Idle
  <2>4. ASSUME AskUpdate(u)
        PROVE  StatusInv'
    BY <2>1, <2>4, EnrollmentAssumption DEF AskUpdate, Idle, Nobody
  <2> QED
    BY <1>1, <2>2, <2>3, <2>4 DEF Ask
<1>2. ASSUME NEW u \in Users, LockRow(u)
      PROVE  StatusInv'
  <2> DEFINE q == request[u]
  <2>1. PICK seen \in {q.seen, studentStatus[q.student]} :
          request' = [request EXCEPT ![u].step = IF q.op = "status" THEN "check" ELSE "class",
                                     ![u].seen = seen]
    BY <1>2 DEF LockRow
  <2> DEFINE p == [q EXCEPT !.step = IF q.op = "status" THEN "check" ELSE "class", !.seen = seen]
  <2>2. request' = [request EXCEPT ![u] = p]
    BY <2>1 DEF TypeOK
  <2>3. p.step # "commit" /\ p.student = q.student /\ p.seen = seen
    BY DEF TypeOK, Requests
  <2> HIDE DEF p
  <2>4. p.student \in Students \ unsynced => p.seen = studentStatus[p.student]
    BY <2>1, <2>3 DEF StatusInv, SeenIsCurrent
  <2> QED
    BY <1>2, <2>2, <2>3, <2>4, OnlyOneRequest DEF LockRow, tables
<1>3. ASSUME NEW u \in Users, NEW c \in Classes, LockClass(u, c)
      PROVE  StatusInv'
  <2> DEFINE p == [request[u] EXCEPT !.step = "check", !.class = c]
  <2>1. request' = [request EXCEPT ![u] = p]
    BY <1>3 DEF LockClass, TypeOK
  <2>2. p.step # "commit" /\ p.student = request[u].student /\ p.seen = request[u].seen
    BY DEF TypeOK, Requests
  <2> HIDE DEF p
  <2>3. p.student \in Students \ unsynced => p.seen = studentStatus[p.student]
    BY <2>2 DEF StatusInv, SeenIsCurrent
  <2> QED
    BY <1>3, <2>1, <2>2, <2>3, OnlyOneRequest DEF LockClass, tables
<1>4. ASSUME NEW u \in Users, NEW st \in Closed \cup {"active"}, NEW d \in Dates, Check(u, st, d)
      PROVE  StatusInv'
  <2> DEFINE o == request[u]
             q == [o EXCEPT !.step = "commit", !.status = st, !.date = d]
  <2>1. o \in Requests /\ o.step = "check" /\ Allowed(q)
    BY <1>4 DEF Check, TypeOK
  <2>2. Ready(q)
    BY <2>1, AllowedIsReady
  <2>3. q.student = o.student /\ q.seen = o.seen
    BY <2>1 DEF Requests
  <2>4. PICK t \in After(q) : \E s \in Desired(t, q.student) :
          request' = [request EXCEPT ![u] = [q EXCEPT !.decided =
            IF s = q.seen \/ (q.op = "change" /\ OnFirstDay(q)) THEN "keep" ELSE s]]
    BY <1>4 DEF Check
  <2>5. PICK s \in Desired(t, q.student) :
          request' = [request EXCEPT ![u] = [q EXCEPT !.decided =
            IF s = q.seen \/ (q.op = "change" /\ OnFirstDay(q)) THEN "keep" ELSE s]]
    BY <2>4
  <2> DEFINE p == [q EXCEPT !.decided =
                     IF s = q.seen \/ (q.op = "change" /\ OnFirstDay(q)) THEN "keep" ELSE s]
  <2>6. Desired(t, q.student) = StatusOf(Outcome(enrollment, q))
    BY <2>2, AfterDesired, EnrollmentAssumption
  <2>7. q \in Requests
    BY <2>2 DEF Ready
  <2> HIDE DEF q
  <2>8. /\ p.op = q.op /\ p.row = q.row /\ p.student = q.student /\ p.class = q.class /\ p.seen = q.seen
        /\ p.date = q.date /\ p.status = q.status
        /\ p.decided = IF s = q.seen \/ (q.op = "change" /\ OnFirstDay(q)) THEN "keep" ELSE s
    BY <2>7 DEF Requests
  <2>9. request' = [request EXCEPT ![u] = p]
    BY <2>5
  <2> HIDE DEF p
  <2>10. Outcome(enrollment, p) = Outcome(enrollment, q)
    BY <2>8 DEF Outcome, OldRecords, NewRecords, LeftOn
  <2>11. p.student \in Students \ unsynced => p.seen = studentStatus[p.student]
    BY <2>3, <2>8 DEF StatusInv, SeenIsCurrent
  <2>12. ASSUME p.student \notin unsynced
         PROVE  (IF p.decided = "keep" THEN p.seen ELSE p.decided) \in StatusOf(Outcome(enrollment, p))
    <3>1. CASE q.op = "change" /\ OnFirstDay(q)
      <4>1. q.row \in Rows /\ enrollment[q.row].status = "active" /\ enrollment[q.row].student = q.student
            /\ enrollment[q.row] \in Enrollments /\ q.student \in Students
        BY <2>2, <3>1, RowsOfATable DEF Ready, ByRow, TypeOK
      <4>2. q.seen = studentStatus[q.student] /\ q.student \notin unsynced
        BY <2>8, <2>11, <2>12, <4>1
      <4>3. Desired(enrollment, q.student) = {"active"} /\ Of(enrollment, q.student) # {}
        BY <4>1, ActiveIsDesired DEF Of
      <4>4. q.seen = "active"
        BY <4>1, <4>2, <4>3 DEF StatusInv, StatusFollowsEnrollments
      <4>5. [enrollment[q.row] EXCEPT !.class = q.class].status = "active"
        BY <4>1 DEF Enrollments
      <4>6. [enrollment[q.row] EXCEPT !.class = q.class] \in Outcome(enrollment, q)
        BY <3>1 DEF Outcome, NewRecords, OnFirstDay
      <4>7. StatusOf(Outcome(enrollment, q)) = {"active"}
        BY <4>5, <4>6 DEF StatusOf
      <4>8. p.decided = "keep"
        BY <2>8, <3>1
      <4> QED
        BY <2>8, <2>10, <4>4, <4>7, <4>8
    <3>2. CASE ~(q.op = "change" /\ OnFirstDay(q))
      <4>1. s \in StatusOf(Outcome(enrollment, p))
        BY <2>5, <2>6, <2>10
      <4>2. p.seen = q.seen /\ p.decided = IF s = q.seen THEN "keep" ELSE s
        BY <2>8, <3>2
      <4>3. CASE s = q.seen
        BY <4>1, <4>2, <4>3
      <4>4. CASE s # q.seen
        <5>1. s # "keep"
          <6>1. t \in [Rows -> Enrollments \cup {NoRow}] /\ q.student \in Students
            BY <2>2, AfterIsWritten, RowsOfATable, EnrollmentAssumption
               DEF Written, Ready, Reserving, ByRow, TypeOK
          <6>2. s \in Closed \cup {"active"}
            BY <6>1, DesiredIsAStatus, EnrollmentAssumption
          <6> QED
            BY <6>2 DEF Closed
        <5> QED
          BY <4>1, <4>2, <4>4, <5>1
      <4> QED
        BY <4>3, <4>4
    <3> QED
      BY <3>1, <3>2
  <2> QED
    BY <1>4, <2>9, <2>11, <2>12, OnlyOneRequest DEF Check, tables
<1>5. ASSUME NEW u \in Users, Commit(u)
      PROVE  StatusInv'
  <2> DEFINE q == request[u]
             s == q.student
  <2>1. q.step = "commit" /\ Ready(q) /\ enrollment' \in After(q)
    BY <1>5, CommitIsReady DEF Commit
  <2>2. Written(q, enrollment') /\ Desired(enrollment', s) = StatusOf(Outcome(enrollment, q))
    BY <2>1, AfterIsWritten, AfterDesired, EnrollmentAssumption
  <2>3. s \in Students
    BY <2>1, RowsOfATable DEF Ready, TypeOK, Reserving, ByRow
  <2>4. \A r \in Rows : enrollment'[r] = enrollment[r]
                        \/ (enrollment[r].student \in {s, Nobody} /\ enrollment'[r].student = s)
    <3>1. ASSUME NEW r \in Rows, enrollment'[r] # enrollment[r]
          PROVE  enrollment[r].student \in {s, Nobody} /\ enrollment'[r].student = s
      <4>1. CASE q.op \in ByRow /\ r = q.row
        BY <2>1, <2>2, <3>1, <4>1 DEF Written, Ready, NoRow
      <4>2. CASE ~(q.op \in ByRow /\ r = q.row)
        <5>1. enrollment[r].status = "absent" /\ enrollment'[r].student = s
          BY <2>2, <3>1, <4>2 DEF Written
        <5>2. enrollment[r] = NoRow
          BY <5>1, RowsOfATable DEF TypeOK
        <5> QED
          BY <5>1, <5>2, NoRowIsAbsent
      <4> QED
        BY <4>1, <4>2
    <3> QED
      BY <3>1
  <2>5. \A x \in Students \ {s} : studentStatus'[x] = studentStatus[x]
    BY <1>5 DEF Commit, TypeOK
  <2>6. unsynced' \in {unsynced, unsynced \cup {s}}
        /\ (s \notin unsynced' => \A v \in Users \ {u} : request[v].student # s)
    BY <1>5 DEF Commit, Overlap
  <2>7. \A v \in Users : request'[v] = IF v = u THEN Idle ELSE request[v]
    BY <1>5 DEF Commit, TypeOK
  <2>8. ASSUME s \notin unsynced'
        PROVE  /\ \A v \in Users : request'[v].student # s
               /\ studentStatus'[s] \in Desired(enrollment', s)
    <3>1. \A v \in Users : request'[v].student # s
      BY <2>3, <2>6, <2>7, <2>8, IdleHoldsNothing, EnrollmentAssumption DEF Nobody
    <3>2. s \notin unsynced
      BY <2>6, <2>8
    <3>3. q.seen = studentStatus[s]
      BY <2>3, <3>2 DEF StatusInv, SeenIsCurrent
    <3>4. (IF q.decided = "keep" THEN q.seen ELSE q.decided) \in StatusOf(Outcome(enrollment, q))
      BY <2>1, <3>2 DEF StatusInv, DecisionStands
    <3>5. studentStatus'[s] = IF q.decided = "keep" THEN studentStatus[s] ELSE q.decided
      BY <1>5, <2>3 DEF Commit, TypeOK
    <3> QED
      BY <2>2, <3>1, <3>3, <3>4, <3>5
  <2> QED
    BY <2>3, <2>4, <2>5, <2>6, <2>7, <2>8, WritingAboutOne
<1>6. ASSUME NEW u \in Users, Rollback(u) \/ \E n \in 0 .. MaxCapacity : Resize(u, n)
      PROVE  StatusInv'
  BY <1>6, IdleHoldsNothing, OnlyOneRequest, EnrollmentAssumption DEF Rollback, Resize, tables, Nobody
<1>7. ASSUME NEW s \in Students, NEW c \in Classes, NEW r \in Rows, Reusable(s, c, r),
             enrollment' = Imported(s, c, r), studentStatus' = [studentStatus EXCEPT ![s] = "active"],
             Overlap(s, Users), request' = request
      PROVE  StatusInv'
  <2>1. /\ enrollment'[r].student = s /\ enrollment'[r].status = "active"
        /\ \A q \in Rows \ {r} : enrollment'[q] = enrollment[q]
        /\ enrollment[r].status = "absent" \/ enrollment[r].student = s
    BY <1>7, ImportWrites, EnrollmentAssumption
  <2>2. enrollment[r].student \in {s, Nobody}
    BY <2>1, RowsOfATable, NoRowIsAbsent DEF TypeOK
  <2>3. Desired(enrollment', s) = {"active"}
    BY <2>1, ActiveIsDesired
  <2>4. studentStatus'[s] = "active" /\ \A x \in Students \ {s} : studentStatus'[x] = studentStatus[x]
    BY <1>7 DEF TypeOK
  <2>5. unsynced' \in {unsynced, unsynced \cup {s}}
        /\ (s \notin unsynced' => \A v \in Users : request'[v].student # s)
    BY <1>7 DEF Overlap
  <2>6. \A q \in Rows : enrollment'[q] = enrollment[q]
                        \/ (enrollment[q].student \in {s, Nobody} /\ enrollment'[q].student = s)
    BY <2>1, <2>2
  <2> QED
    BY <1>7, <2>3, <2>4, <2>5, <2>6, WritingAboutOne
<1>8. ASSUME NEW n \in 0 .. MaxCapacity, ImportCommits(n)
      PROVE  StatusInv'
  <2>1. job.student \in Students /\ job.class \in Classes
    BY <1>8 DEF ImportCommits, TypeOK, Jobs, NoJob
  <2> QED
    BY <1>7, <1>8, <2>1 DEF ImportCommits
<1>9. ASSUME NEW s \in Students, NEW c \in Classes, ImportEnrollments(s, c)
      PROVE  StatusInv'
  <2>1. PICK d \in Dates :
          enrollment' \in After([Idle EXCEPT !.op = "create", !.student = s, !.class = c, !.date = d])
    BY <1>9 DEF ImportEnrollments
  <2> DEFINE q == [Idle EXCEPT !.op = "create", !.student = s, !.class = c, !.date = d]
  <2>2. q.op = "create" /\ q.student = s /\ q.class = c /\ q.date = d /\ q.status = "active"
    BY DEF Idle
  <2> HIDE DEF q
  <2>3. Written(q, enrollment')
    BY <2>1, <2>2, CreateWrites, EnrollmentAssumption DEF q
  <2>4. \A r \in Rows : enrollment'[r] = enrollment[r]
                        \/ (enrollment[r].student \in {s, Nobody} /\ enrollment'[r].student = s)
    <3>1. ASSUME NEW r \in Rows, enrollment'[r] # enrollment[r]
          PROVE  enrollment[r].student \in {s, Nobody} /\ enrollment'[r].student = s
      <4>1. enrollment[r].status = "absent" /\ enrollment'[r].student = s
        BY <2>2, <2>3, <3>1 DEF Written, ByRow
      <4>2. enrollment[r] = NoRow
        BY <4>1, RowsOfATable DEF TypeOK
      <4> QED
        BY <4>1, <4>2, NoRowIsAbsent
    <3> QED
      BY <3>1
  <2> QED
    BY <1>9, <2>4, WritingAboutOne DEF ImportEnrollments
<1>10. ASSUME NEW s \in Students, NEW c \in Classes, Ingest(s, c)
       PROVE  StatusInv'
  <2>1. PICK r \in Rows :
          /\ Reusable(s, c, r)
          /\ IF enrollment[r].status = "active" /\ enrollment[r].class # c
               THEN UNCHANGED enrollment
               ELSE OneActive(Imported(s, c, r)) /\ enrollment' = Imported(s, c, r)
    BY <1>10 DEF Ingest
  <2>2. /\ studentStatus' = [studentStatus EXCEPT ![s] = "active"] /\ Overlap(s, Users)
        /\ request' = request
    BY <1>10 DEF Ingest
  <2>3. CASE enrollment' = Imported(s, c, r)
    BY <1>7, <2>1, <2>2, <2>3
  <2>4. CASE enrollment' = enrollment /\ enrollment[r].status = "active"
    <3>1. enrollment[r].student = s
      BY <2>1, <2>4, ImportWrites, EnrollmentAssumption
    <3>2. Desired(enrollment', s) = {"active"}
      BY <2>4, <3>1, ActiveIsDesired
    <3>3. studentStatus'[s] = "active" /\ \A x \in Students \ {s} : studentStatus'[x] = studentStatus[x]
      BY <2>2 DEF TypeOK
    <3>4. unsynced' \in {unsynced, unsynced \cup {s}}
          /\ (s \notin unsynced' => \A v \in Users : request'[v].student # s)
      BY <2>2 DEF Overlap
    <3> QED
      BY <2>2, <2>4, <3>2, <3>3, <3>4, WritingAboutOne
  <2> QED
    BY <2>1, <2>3, <2>4
<1>13. ASSUME NEW s \in Students, IngestStudentOnly(s)
       PROVE  StatusInv'
  <2>1. /\ request' = request /\ enrollment' = enrollment /\ studentStatus'[s] = "active"
        /\ \A x \in Students \ {s} : studentStatus'[x] = studentStatus[x]
    BY <1>13 DEF IngestStudentOnly, TypeOK
  <2>2. /\ unsynced' \in {unsynced, unsynced \cup {s}}
        /\ s \notin unsynced' => ~OnlyClosed(s) /\ \A v \in Users : request[v].student # s
    BY <1>13 DEF IngestStudentOnly
  <2>3. ASSUME s \notin unsynced', Of(enrollment', s) # {}
        PROVE  studentStatus'[s] \in Desired(enrollment', s)
    <3>1. PICK r \in Of(enrollment, s) : enrollment[r].status = "active"
      BY <2>1, <2>2, <2>3 DEF OnlyClosed
    <3>2. Desired(enrollment', s) = {"active"}
      BY <2>1, <3>1, ActiveIsDesired DEF Of
    <3> QED
      BY <2>1, <3>2
  <2> QED
    BY <2>1, <2>2, <2>3, WritingAboutOne
<1>11. CASE ImportStep
  <2>1. ASSUME NEW c \in Classes, ImportLocksClass(c)
        PROVE  StatusInv'
    BY <2>1, NothingWritten DEF ImportLocksClass, tables
  <2>2. ASSUME NEW s \in Students, ImportLocksRows(s)
        PROVE  StatusInv'
    BY <2>2, NothingWritten DEF ImportLocksRows, tables
  <2>3. ASSUME ImportRollsBack
        PROVE  StatusInv'
    BY <2>3, NothingWritten DEF ImportRollsBack, tables
  <2> QED
    BY <1>8, <1>9, <1>11, <2>1, <2>2, <2>3 DEF ImportStep
<1>12. CASE UNCHANGED vars
  BY <1>12, NothingWritten DEF vars, tables
<1> QED
  BY <1>1, <1>2, <1>3, <1>4, <1>5, <1>6, <1>10, <1>11, <1>12, <1>13 DEF Next, RequestStep

LEMMA StatusInvInit == Init => StatusInv
<1> SUFFICES ASSUME Init
             PROVE  StatusInv
  OBVIOUS
<1>1. SeenIsCurrent
  BY IdleHoldsNothing, EnrollmentAssumption DEF Init, SeenIsCurrent, Nobody
<1>2. DecisionStands
  BY IdleHoldsNothing DEF Init, DecisionStands
<1>3. \A s \in Students : Of(enrollment, s) = {}
  BY NoRowIsAbsent, EnrollmentAssumption DEF Init, Of, Nobody
<1> QED
  BY <1>1, <1>2, <1>3 DEF StatusInv, StatusFollowsEnrollments

(* The status of a student is what the enrollments ask for, through any    *)
(* sequence of requests, imports and ingests, unless transactions about    *)
(* the student overlapped, a workbook of enrollments enrolled the student, *)
(* or an ingest left the student with closed enrollments only.             *)
THEOREM StatusIsRight == Spec => []StatusFollowsEnrollments
<1>1. LockInv /\ SeatInv /\ StatusInv /\ [Next]_vars => (LockInv /\ SeatInv /\ StatusInv)'
  BY LockInvNext, SeatInvNext, StatusInvNext
<1>2. StatusInv => StatusFollowsEnrollments
  BY DEF StatusInv
<1> QED
  BY <1>1, <1>2, LockInvInit, SeatInvInit, StatusInvInit, PTL DEF Spec

=============================================================================
