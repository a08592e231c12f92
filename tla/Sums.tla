-------------------------------- MODULE Sums --------------------------------
(* SUM(...) of a query. *)
EXTENDS FiniteSetsExt

SumOver(f, S) == MapThenSumSet(LAMBDA x : f[x], S)
=============================================================================
