--------------------------- MODULE MCUsagePeriods ---------------------------
(* Small instances of UsagePeriods for TLC. *)
EXTENDS UsagePeriods

HalfADay == {-1, 0, 1}
=============================================================================
