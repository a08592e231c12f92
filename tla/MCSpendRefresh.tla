--------------------------- MODULE MCSpendRefresh ---------------------------
(* Small instances of SpendRefresh for TLC. *)
EXTENDS SpendService

CONSTANTS post, get, k1, k2

OnePost == {post}
NoGet == {}
OneGet == {get}
OneKey == {k1}
TwoKeys == {k1, k2}
=============================================================================
