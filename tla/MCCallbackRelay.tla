---------------------------- MODULE MCCallbackRelay ----------------------------
(* Two hook entries as model values, for TLC.                                *)
EXTENDS CallbackRelay

CONSTANTS c1, c2
=============================================================================
