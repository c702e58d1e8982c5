---------------------------- MODULE MCCommandDrain ----------------------------
(* Three routes of every kind that two plugins have registered, two hook     *)
(* entries, for TLC.                                                         *)
EXTENDS CommandDrain

CONSTANTS c1, c2, p, q

TableOf == <<"shared", "bounded", "latest">>
OwnerOf == <<p, p, q>>
=============================================================================
