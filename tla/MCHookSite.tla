------------------------------ MODULE MCHookSite ------------------------------
(* Two concurrent calls of the hooked method, as model values for TLC.       *)
EXTENDS HookSite

CONSTANTS c1, c2
=============================================================================
