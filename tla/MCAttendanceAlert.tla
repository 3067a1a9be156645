---------------------------- MODULE MCAttendanceAlert ----------------------------
(* Constants of AttendanceAlert for TLC.                                   *)
EXTENDS AttendanceAlert

CONSTANTS p1, p2, u1, w1, w2, r1, r2, mother

TwoPolicies   == {p1, p2}
OneUser       == {u1}
TwoEvaluators == {w1, w2}
TwoRecords    == {r1, r2}
SameScope     == [r \in TwoRecords |-> "daily"]
OneGuardian   == {mother}
==================================================================================
