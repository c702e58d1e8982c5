------------------------------ MODULE Bootstrap -------------------------------
(***************************************************************************)
(* The start of the runtime in the game's process: calls of scsp_start on  *)
(* any threads, the one-shot bootstrap worker with its readiness ladder,   *)
(* and every way it ends (crates/runtime/src/ffi.rs,                       *)
(* crates/runtime/src/bootstrap.rs, crates/core/src/il2cpp_bridge.rs). A   *)
(* worker is named by the call that spawned it. What its App does is left  *)
(* to the modules that extend this one; Scheduler has the steps from the   *)
(* publication of the context on in detail.                                *)
(***************************************************************************)
EXTENDS Observability

CONSTANT Entries   (* the calls of scsp_start                              *)

VARIABLES
  entry,         (* program counters of the calls                          *)
  root,          (* the OnceLock of the observability root is set          *)
  started,       (* the one-shot marker                                    *)
  context,       (* the scheduler context: whose bootstrap published it    *)
  worker,        (* of each call's worker: pc, late, gate, attached, app   *)
  game,          (* the loader and CRIWARE: image, ready; thread attached  *)
  probes         (* history: how often domain_get was probed               *)

bootVars == <<entry, root, started, context, worker, game, probes>>

Nobody == "nobody"

NoWorker == [pc |-> "None", late |-> FALSE, gate |-> "none", attached |-> FALSE, app |-> "none"]

BootstrapInit ==
  /\ ObservabilityInit
  /\ entry = [e \in Entries |-> "Idle"] /\ root = FALSE /\ started = FALSE
  /\ context = Nobody /\ worker = [e \in Entries |-> NoWorker]
  /\ game = [image |-> FALSE, ready |-> FALSE] /\ probes = 0

-----------------------------------------------------------------------------
(* scsp_start.                                                              *)

EntryAt(e, pc)   == entry[e] = pc
EntryGoto(e, pc) == entry' = [entry EXCEPT ![e] = pc]

notEntry == <<context, worker, game, probes>>

(* The first call builds the root, others wait for it. A panic leaves the   *)
(* root to a later call.                                                    *)
EnterScope(e) ==
  /\ EntryAt(e, "Idle")
  /\ \/ root /\ EntryGoto(e, "Claim") /\ UNCHANGED <<root, observed>>
     \/ ~root /\ SpawnDrainer /\ root' = TRUE /\ EntryGoto(e, "Claim")
     \/ ~root /\ EntryGoto(e, "Panicked") /\ UNCHANGED <<root, observed>>
  /\ UNCHANGED <<started, notEntry>>

(* Mutant: the marker is read, and set elsewhere.                           *)
Claim_OnlyReads(e) ==
  /\ EntryAt(e, "Claim")
  /\ EntryGoto(e, IF started THEN "Returned" ELSE "Args")
  /\ UNCHANGED <<root, started, observed, notEntry>>

(* The marker is swapped before anything is known of the arguments.         *)
Claim(e) ==
  /\ EntryAt(e, "Claim")
  /\ started' = TRUE
  /\ EntryGoto(e, IF started THEN "Returned" ELSE "Args")
  /\ UNCHANGED <<root, observed, notEntry>>

(* A null, empty or undecodable path ends the only attempt.                 *)
CopyPath(e) ==
  /\ EntryAt(e, "Args")
  /\ \E pc \in {"Spawn", "Returned", "Panicked"} : EntryGoto(e, pc)
  /\ UNCHANGED <<root, started, observed, notEntry>>

SpawnWorker(e) ==
  /\ EntryAt(e, "Spawn")
  /\ EntryGoto(e, "Returned")
  /\ \/ worker' = [worker EXCEPT ![e].pc = "Image"]
     \/ UNCHANGED worker
  /\ UNCHANGED <<root, started, observed, context, game, probes>>

(* The outermost guard: the panic becomes a compact event.                  *)
ReportPanic(e) ==
  /\ EntryAt(e, "Panicked")
  /\ Emit(e)
  /\ EntryGoto(e, "Returned")
  /\ UNCHANGED <<root, started, notEntry>>

-----------------------------------------------------------------------------
(* The bootstrap worker: one rung of the ladder after the other.            *)

WorkerAt(e, pc) == worker[e].pc = pc
Climb(e, pc)    == worker' = [worker EXCEPT ![e].pc = pc, ![e].late = FALSE]

(* bootstrap_failed: the gate closes, if the ladder has begun, and the      *)
(* return drops the attachment.                                             *)
Fail(e) ==
  worker' = [worker EXCEPT ![e].pc = "Ended", ![e].attached = FALSE,
                           ![e].gate = IF worker[e].gate = "none" THEN "none" ELSE "failed"]

Rung(e, pc, next) == WorkerAt(e, pc) /\ (Climb(e, next) \/ Fail(e))

notWorker == <<entry, root, started, observed, game>>

(* await_unity_framework looks first and then at the clock. The image may   *)
(* fail to open.                                                            *)
AwaitImage(e) ==
  /\ \/ /\ WorkerAt(e, "Image")
        /\ \/ game.image /\ Climb(e, "Exports")
           \/ game.image /\ Fail(e)
           \/ ~game.image /\ worker' = [worker EXCEPT ![e].pc = "ImageLate"]
     \/ /\ WorkerAt(e, "ImageLate")
        /\ IF worker[e].late THEN Fail(e) ELSE worker' = [worker EXCEPT ![e].pc = "Image"]
  /\ UNCHANGED <<notWorker, context, probes>>

(* run_bootstrap has its gate; the image's exports are loaded.              *)
LoadExports(e) ==
  /\ WorkerAt(e, "Exports")
  /\ \E next \in {[pc |-> "Ready", gate |-> "closed"], [pc |-> "Ended", gate |-> "failed"]} :
       worker' = [worker EXCEPT ![e].pc = next.pc, ![e].gate = next.gate]
  /\ UNCHANGED <<notWorker, context, probes>>

(* Mutant: the deadline is not looked at.                                   *)
AwaitReadiness_Forever(e) ==
  /\ WorkerAt(e, "Ready") /\ game.ready
  /\ Climb(e, "Domain")
  /\ UNCHANGED <<notWorker, context, probes>>

(* await_bootstrap_readiness, likewise; the symbol may be missing.          *)
AwaitReadiness(e) ==
  /\ \/ /\ WorkerAt(e, "Ready")
        /\ \/ game.ready /\ Climb(e, "Domain")
           \/ ~game.ready /\ worker' = [worker EXCEPT ![e].pc = "ReadyLate"]
           \/ Fail(e)
     \/ /\ WorkerAt(e, "ReadyLate")
        /\ IF worker[e].late THEN Fail(e) ELSE worker' = [worker EXCEPT ![e].pc = "Ready"]
  /\ UNCHANGED <<notWorker, context, probes>>

(* The one probe of il2cpp_domain_get; null ends the bootstrap.             *)
ProbeDomain(e) ==
  /\ Rung(e, "Domain", "Attach")
  /\ probes' = probes + 1
  /\ UNCHANGED <<notWorker, context>>

(* A thread that is attached already is not detached either.                *)
AttachThread(e) ==
  /\ WorkerAt(e, "Attach")
  /\ \/ \E own \in BOOLEAN : worker' = [worker EXCEPT ![e].pc = "Hydrate", ![e].attached = own]
     \/ Fail(e)
  /\ UNCHANGED <<notWorker, context, probes>>

(* The metadata, the runtime's identity, the scheduler's target and slot.   *)
Hydrate(e) == Rung(e, "Hydrate", "Build") /\ UNCHANGED <<notWorker, context, probes>>

(* App::new and the plugins, whose failures are their own.                  *)
BuildApp(e) ==
  /\ WorkerAt(e, "Build")
  /\ worker' = [worker EXCEPT ![e].pc = "Publish", ![e].app = "built"]
  /\ UNCHANGED <<notWorker, context, probes>>

(* A second context is refused; its App is unwound, and its gate, which     *)
(* nobody else has, stays as it is.                                         *)
PublishContext(e) ==
  /\ WorkerAt(e, "Publish")
  /\ IF context = Nobody
     THEN context' = e /\ Climb(e, "Install")
     ELSE Climb(e, "Rollback") /\ UNCHANGED context
  /\ UNCHANGED <<notWorker, probes>>

(* Mutant: the App is dropped without a teardown.                           *)
InstallHook_NoTeardown(e) ==
  /\ WorkerAt(e, "Install")
  /\ Climb(e, "Handoff") \/ Fail(e)
  /\ UNCHANGED <<notWorker, context, probes>>

InstallHook(e) ==
  /\ WorkerAt(e, "Install")
  /\ Climb(e, "Handoff") \/ Climb(e, "Rollback")
  /\ UNCHANGED <<notWorker, context, probes>>

(* teardown_all, then the gate of a published context.                      *)
Rollback(e) ==
  /\ WorkerAt(e, "Rollback")
  /\ worker' = [worker EXCEPT
       ![e].pc = "Ended", ![e].app = "torn down", ![e].attached = FALSE,
       ![e].gate = IF context = e THEN "failed" ELSE worker[e].gate]
  /\ UNCHANGED <<notWorker, context, probes>>

(* The Handoff of a new context is empty.                                   *)
PublishHandoff(e) ==
  /\ WorkerAt(e, "Handoff")
  /\ worker' = [worker EXCEPT ![e].pc = "Ended", ![e].app = "handed off", ![e].attached = FALSE]
  /\ UNCHANGED <<notWorker, context, probes>>

WorkerStep(e) ==
  \/ AwaitImage(e) \/ LoadExports(e) \/ AwaitReadiness(e) \/ ProbeDomain(e)
  \/ AttachThread(e) \/ Hydrate(e) \/ PublishContext(e) \/ InstallHook(e) \/ PublishHandoff(e)

-----------------------------------------------------------------------------
(* The rest of the process: the loader, CRIWARE and the clock.              *)

notGame == <<entry, root, started, context, probes, observed>>

GameProgresses ==
  /\ \/ ~game.image /\ game' = [game EXCEPT !.image = TRUE]
     \/ game.image /\ ~game.ready /\ game' = [game EXCEPT !.ready = TRUE]
  /\ UNCHANGED <<notGame, worker>>

DeadlinePasses(e) ==
  /\ ~worker[e].late
  /\ \E pc \in {"Image", "ImageLate", "Ready", "ReadyLate"} : WorkerAt(e, pc)
  /\ worker' = [worker EXCEPT ![e].late = TRUE]
  /\ UNCHANGED <<notGame, game>>

EntryStep(e) ==
  \/ EnterScope(e) \/ Claim(e) \/ CopyPath(e) \/ SpawnWorker(e) \/ ReportPanic(e)

-----------------------------------------------------------------------------

(* However often and on whatever threads scsp_start is called, and wherever *)
(* it panics, il2cpp_domain_get is probed once at most, and only in a game  *)
(* whose CRIWARE has come up: a deadline ends the bootstrap instead.        *)
ProbedOnceWhenReady == probes <= 1 /\ (probes > 0 => game.ready)
=============================================================================
