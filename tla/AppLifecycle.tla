---------------------------- MODULE AppLifecycle ----------------------------
(***************************************************************************)
(* What the scheduler promises about the one App of the process, without   *)
(* threads, frames, slots or locks (crates/runtime/BOOTSTRAP.md, "Handoff  *)
(* synchronisation" to "Startup failure"): it is offered once, driven by   *)
(* one callback at a time, opens the RuntimeGate at most once and only     *)
(* after its Startup, and retires for good only when the gate is           *)
(* permanently closed.                                                     *)
(***************************************************************************)

VARIABLES
  app,        (* where the App stands                                      *)
  started,    (* its Startup driver has completed                          *)
  gate        (* the control word of the RuntimeGate                       *)

vars == <<app, started, gate>>

Init == app = "built" /\ started = FALSE /\ gate = "closed"

(* The worker hands the App off.                                            *)
Offer == app = "built" /\ app' = "offered" /\ UNCHANGED <<started, gate>>

(* A callback takes it, to drive it.                                        *)
Take ==
  /\ app \in {"offered", "resting"}
  /\ app' = "driven"
  /\ UNCHANGED <<started, gate>>

Start == app = "driven" /\ started' = TRUE /\ UNCHANGED <<app, gate>>

Open ==
  /\ app = "driven" /\ started /\ gate = "closed"
  /\ gate' = "open"
  /\ UNCHANGED <<app, started>>

(* The callback puts a started App back.                                    *)
Rest == app = "driven" /\ started /\ app' = "resting" /\ UNCHANGED <<started, gate>>

(* Anyone who detects a fault closes the gate, for good.                    *)
Close == gate' = "failed" /\ UNCHANGED <<app, started>>

(* Only behind a closed gate is the App retained, leaked or dropped.        *)
Retire ==
  /\ gate = "failed" /\ app # "retired"
  /\ app' = "retired"
  /\ UNCHANGED <<started, gate>>

Next == Offer \/ Take \/ Start \/ Open \/ Rest \/ Close \/ Retire

Spec == Init /\ [][Next]_vars
=============================================================================
