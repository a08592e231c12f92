---------------------------- MODULE MCUsageLedger ---------------------------
(* Small instances of UsageLedger for TLC. *)
EXTENDS UsageLedger

CONSTANTS p1, p2, m1, m2, s1, h1

TwoProcs == {p1, p2}
OneProc == {p2}
OneModel == {m1}
TwoModels == {m1, m2}
TwoSessions == {NoSession, s1}
TwoHarnesses == {NoHarness, h1}
=============================================================================
