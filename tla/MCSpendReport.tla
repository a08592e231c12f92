---------------------------- MODULE MCSpendReport ---------------------------
(* Small instances of SpendReport for TLC. *)
EXTENDS SpendReport

CONSTANTS k1, k2

OneKey == {k1}
TwoKeys == {k1, k2}
OneDollar == {1}
TwoDates == {1, 2}
=============================================================================
