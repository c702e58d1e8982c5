----------------------------- MODULE MCScheduler -----------------------------
(* Scheduler for TLC: the main thread m, and the thread w on which the game  *)
(* must not call LateUpdate but may.                                         *)
EXTENDS Scheduler

CONSTANTS m, w
=============================================================================
