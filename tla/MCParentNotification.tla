------------------------ MODULE MCParentNotification ------------------------
(* Constants of ParentNotification for TLC.                                *)
EXTENDS ParentNotification, TLC

CONSTANTS n1, n2, w1, w2, o1, o2

OneNotification  == {n1}
TwoNotifications == {n1, n2}
OneDeliverable   == {n1}
TwoWorkers == {w1, w2}
OneOperator == {o1}
NoOperators == {}

=============================================================================
