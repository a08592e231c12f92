---------------------------- MODULE MCLimitStore ----------------------------
(* Small instances of LimitStore for TLC. *)
EXTENDS LimitStore

CONSTANTS s1, s2, r1, five_hour, weekly

TwoSavers == {s1, s2}
OneReader == {r1}
TwoWindows == {five_hour, weekly}
=============================================================================
