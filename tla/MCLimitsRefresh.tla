-------------------------- MODULE MCLimitsRefresh --------------------------
(* Small instances of LimitsRefresh for TLC. *)
EXTENDS LimitsRefresh

CONSTANTS h1, h2

TwoHandlers == {h1, h2}
=============================================================================
