----------------------------- MODULE MCImportJob -----------------------------
(* Constants of ImportJob for TLC.                                         *)
EXTENDS ImportJob, TLC

CONSTANTS j1, j2, w1, w2, u1, u2

TwoJobs == {j1, j2}
TwoFiles == {"workbook", "revised"}
OneFile == [j \in Jobs |-> "workbook"]
TwoWorkers == {w1, w2}
TwoUsers == {u1, u2}
EveryRequest == {"preview", "confirm", "retry", "cancel", "update", "destroy"}

Symmetry == Permutations(Jobs) \cup Permutations(Workers) \cup Permutations(Users)
=============================================================================
