----------------------------- MODULE MCAssessment -----------------------------
(* Constants of Assessment for TLC.                                        *)
EXTENDS Assessment, TLC

CONSTANTS u1, u2, w1, w2, e1, e2, c1, c2

TwoUsers       == {u1, u2}
TwoWorkers     == {w1, w2}
TwoEnrollments == {e1, e2}
TwoClasses     == {c1, c2}
TwoMaxima      == {10, 20}
OneValue       == {16}

(* The run explores two families of behaviours: two overlapping requests   *)
(* while nothing is recalculated, of which either a student moves or the   *)
(* maximum is edited; and recalculations with nobody moving and one        *)
(* maximum, one of them beside a request or two beside each other, of      *)
(* which one of another class is beside something only while scores may be *)
(* entered.  Scores are corrected with no request under way.               *)
(* Beyond a stale write the properties say nothing.                        *)
NothingRecalculated ==
  /\ queue = 0
  /\ \A w \in Workers : ~IsRunning(w)
  /\ \A c \in Classes, e \in Enrollments : result[c][e] = NoMark

Asking == {u \in Users : request[u] # Idle}
Recalculating == {w \in Workers : IsRunning(w)}

NobodyMoved == \A e \in Enrollments : moved[e] = "never"

OneConcern ==
  /\ ~staleWrite
  /\ NobodyMoved \/ (assessment.max = 20 /\ overtaken = {})
  /\ corrected = {} \/ Asking = {}
  /\ \/ NothingRecalculated
     \/ /\ assessment.max = 20 /\ overtaken = {}
        /\ ~assessment.deleted
        /\ NobodyMoved
        /\ Cardinality(Asking) <= 1
        /\ Cardinality(Asking) + Cardinality(Recalculating) <= 2
        /\ (\E w \in Recalculating : ~Calculates(w)) =>
             \/ Cardinality(Asking) + Cardinality(Recalculating) = 1
             \/ assessment.status \in Editable /\ Cardinality(Recalculating) = 1

Symmetry == Permutations(Users) \cup Permutations(Workers)
              \cup Permutations(Enrollments) \cup Permutations(Classes)
===============================================================================
