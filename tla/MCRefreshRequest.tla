-------------------------- MODULE MCRefreshRequest --------------------------
(* Small instances of RefreshRequest for TLC. *)
EXTENDS RefreshRequest

TwoLengths == {300, 60}
TwoWindows == {"five_hour", "seven_day"}
=============================================================================
