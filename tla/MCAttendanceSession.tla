------------------------- MODULE MCAttendanceSession -------------------------
(* Constants of AttendanceSession for TLC.                                 *)
EXTENDS AttendanceSession, TLC

CONSTANTS u1, u2, e1, e2, c1, c2

TwoCallers     == {u1, u2}
TwoEnrollments == {e1, e2}
TwoClasses     == {c1, c2}

Symmetry == Permutations(Callers) \cup Permutations(Enrollments) \cup Permutations(Classes)
=============================================================================
