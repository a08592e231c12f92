----------------------- MODULE MCLimitsRefreshTimed -----------------------
(* Small instances of LimitsRefreshTimed for TLC. *)
EXTENDS LimitsRefreshTimed

CONSTANTS h1

OneHandler == {h1}
=============================================================================
