---------------------------- MODULE MCEnrollment ----------------------------
(* Constants of Enrollment for TLC.                                        *)
EXTENDS Enrollment, TLC

CONSTANTS s1, s2, c1, c2, c3, c4, u1, u2

TwoStudents == {s1, s2}
TwoClasses  == {c1, c2}
FourClasses == {c1, c2, c3, c4}
(* c3 is a class of another school, c4 of the next year. *)
Schools  == [c \in Classes |-> IF c = c3 THEN "school 2" ELSE "school 1"]
TwoYears == [c \in Classes |-> IF c = c4 THEN 2 ELSE 1]
TwoUsers == {u1, u2}

Every == {"create", "change", "transfer", "status", "update"}

(* The run explores two families of behaviours: one student who moves      *)
(* between four classes, in one request beside an import and an ingest or  *)
(* in two requests beside each other, after imports; and two students who  *)
(* compete for the seats of two classes in up to three requests and an     *)
(* import, on one day and without an ingest.                               *)
OneMoves ==
  /\ calls <= 2
  /\ calls = 2 => ~ingested /\ job = NoJob
  /\ \A u \in Users : request[u].op # "update"
  /\ \E s \in Students :
       /\ \A r \in Rows : enrollment[r].student \in {s, Nobody}
       /\ \A u \in Users : request[u].student \in {s, Nobody}
       /\ job.step = "commit" => job.student = s

TwoCompete ==
  /\ ~ingested
  /\ \A r \in Rows : enrollment[r].class \in {c1, c2, Nowhere}
                    /\ enrollment[r].from <= 1 /\ enrollment[r].to <= 1
  /\ \A u \in Users : request[u].op \in {"none", "create", "change", "update"}
                     /\ request[u].class \in {c1, c2, Nowhere} /\ request[u].date <= 1
  /\ job # NoJob => job.class \in {c1, c2}

TwoFamilies == OneMoves \/ TwoCompete

Symmetry == Permutations(Students) \cup Permutations(Users)
=============================================================================
