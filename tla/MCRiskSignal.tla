---------------------------- MODULE MCRiskSignal ----------------------------
(* Constants of RiskSignal for TLC.                                        *)
EXTENDS RiskSignal

CONSTANTS u1, w1, w2, e1

OneUser    == {u1}
TwoWorkers == {w1, w2}
OneEvent   == {e1}
=============================================================================
