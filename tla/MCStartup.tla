------------------------------ MODULE MCStartup -------------------------------
(* Two calls of scsp_start, as model values for TLC.                         *)
EXTENDS Startup

CONSTANTS e1, e2
=============================================================================
