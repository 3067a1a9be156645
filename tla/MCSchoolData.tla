---------------------------- MODULE MCSchoolData ----------------------------
(* Constants of SchoolData for TLC: a few workbooks, each with what makes  *)
(* a case of the readers happen.                                           *)
EXTENDS SchoolData, TLC

TwoCodes == {"a", "b"}
TwoIds == {"n1", "n2"}
TwoPersons == {"p1", "p2"}
TwoGrades == {"g1", "g2"}
Months1 == {1}
TheCatalogs == [v2 |-> <<"m1", "m2">>, v1 |-> <<"m1">>]

Class(code, grade, capacity) ==
  [code |-> code, title |-> Empty, grade |-> grade, capacity |-> capacity]
Student(local, nid, number, person, class) ==
  [local |-> local, nid |-> nid, number |-> number, person |-> person, class |-> class]
Evaluation(local, nid, metrics) ==
  [seq |-> 1, local |-> local, nid |-> nid, class |-> Empty, person |-> Empty,
   month |-> 1, metrics |-> metrics, note |-> Empty]

v1 == <<"m1">>
v2 == <<"m1", "m2">>
m1(value) == [m \in {"m1"} |-> value]

(* Two students of one class with the same number, which the second is     *)
(* given a suffix for; a score of 20; and an evaluation that names no      *)
(* local code.                                                             *)
TwoInA == [headers |-> v2, classes |-> <<Class("a", "g1", 2)>>,
           students |-> <<Student(1, "n1", <<"7">>, "p1", "a"), Student(2, "n2", <<"7">>, "p2", "a")>>,
           evaluations |-> <<Evaluation(0, "n1", m1(20)), Evaluation(2, Empty, m1(3))>>]
(* The first student in a class of one seat, in a class of another grade.  *)
OneInB == [headers |-> v2, classes |-> <<Class("b", "g2", 1)>>,
           students |-> <<Student(1, "n1", <<>>, "p1", "b")>>,
           evaluations |-> <<Evaluation(1, "n1", m1(5))>>]
(* The second student takes the number of the first, in a class that has   *)
(* become smaller.                                                         *)
TakesNumber == [headers |-> v1, classes |-> <<Class("a", "g1", 1), Class("b", "g1", 1)>>,
                students |-> <<Student(1, "n2", <<"7">>, "p1", "a")>>, evaluations |-> <<>>]
(* A score that is no number. *)
NoNumber == [headers |-> v2, classes |-> <<Class("a", "g1", 2), Class("b", "g1", 1)>>,
             students |-> <<Student(1, "n1", <<"8">>, "p1", "a")>>,
             evaluations |-> <<Evaluation(1, "n1", m1(NotANumber))>>]
(* An evaluation whose identity is that of another student. *)
Mistaken == [TwoInA EXCEPT !.evaluations = <<Evaluation(2, "n1", m1(1))>>]
(* A student of a class that only an earlier file has named, and an        *)
(* evaluation of a student whom only that has named.                       *)
Marks == [headers |-> v2, classes |-> <<>>,
          students |-> <<Student(2, "n2", <<"9">>, "p2", "a")>>,
          evaluations |-> <<Evaluation(0, "n1", m1(2))>>]

(* Not one student in it. *)
NoStudents == [OneInB EXCEPT !.students = <<>>]

Files == [two |-> TwoInA, one |-> OneInB, takes |-> TakesNumber, nan |-> NoNumber,
          mistaken |-> Mistaken, marks |-> Marks, none |-> NoStudents]
(* A job that has changed nothing, and died or failed, is not followed     *)
(* further; of more than two jobs at once, of more than one beside a run   *)
(* of the ingest, and of a run without a user but as the last operation,   *)
(* nothing is shown.                                                       *)
IsFollowed ==
  /\ report.outcome \in {"none", "completed"}
  /\ Cardinality(compared) <= IF run = NoIngest THEN 2 ELSE IF run.hasActor THEN 1 ELSE 0
  /\ run = NoIngest \/ run.hasActor \/ operations = MaxOperations

(* No workbook names a school. *)
SchoolsAreAlike == Permutations(Schools)

Uploaded == {"two", "one", "takes", "mistaken", "none"}
Mounted == {<<"two">>, <<"one", "nan", "two">>, <<"nan", "marks">>, <<"takes", "mistaken">>}
=============================================================================
