------------------------------ MODULE Scheduler ------------------------------
(***************************************************************************)
(* The runtime's scheduler: the LateUpdate replacement that the game calls *)
(* on its threads, the per-thread App slot, the one-shot Handoff from the  *)
(* bootstrap worker, the RuntimeGate with its two atomics, and the global  *)
(* failure flag (crates/runtime/src/scheduler.rs, handoff.rs,              *)
(* crates/core/src/gate.rs, original.rs and the tail of bootstrap.rs).     *)
(*                                                                         *)
(* One action is one access to shared memory together with the thread      *)
(* local work up to the next one, so every interleaving of the atomics is  *)
(* a behaviour of the specification.                                       *)
(***************************************************************************)
EXTENDS Naturals

CONSTANTS
  Threads,    (* threads on which the game may call LateUpdate             *)
  Main,       (* the one thread for which main_thread_check holds          *)
  MaxDepth    (* bound on nested callbacks of one thread                   *)

ASSUME SchedulerAssumption ==
  /\ Main \in Threads
  /\ MaxDepth \in Nat \ {0}

VARIABLES
  control,    (* RuntimeGate.control                                       *)
  flag,       (* RuntimeGate.flag, what every GateReader loads             *)
  failed,     (* SchedulerContext.failed                                   *)
  published,  (* the SCHEDULER OnceLock is set                             *)
  hook,       (* what the LateUpdate slot holds                            *)
  handoff,    (* Handoff.app: its Mutex and its Option                     *)
  worker,     (* program counter of the bootstrap worker                   *)
  startup,    (* App.startup_completed                                     *)
  lost,       (* how the App left every owner, if it did                   *)
  tls,        (* APP_SLOT of each thread                                   *)
  depth,      (* number of frames on each thread's stack                   *)
  frame       (* the frames                                                *)

gateVars   == <<control, flag, failed>>
workerVars == <<published, hook, worker>>
appVars    == <<handoff, startup, lost>>
stackVars  == <<tls, depth, frame>>
vars       == <<gateVars, workerVars, appVars, stackVars>>

-----------------------------------------------------------------------------

GateControl == {"closed", "open", "failed"}
WorkerPc    == {"Publish", "Install", "Readback", "Lock", "Store",
                "Close", "Clear", "Done", "Aborted"}
AppSlot     == {"AwaitingHandoff", "Running", "Busy", "Exited", "Unavailable"}
Phase       == {"Before", "Calling", "After"}
FramePc     == {"Idle", "CheckFailed", "ClaimExit", "CheckThread", "Claim",
                "Driver", "GateOpen", "GateStore",
                "PublishClose", "PublishClear", "PublishFailed", "MarkTls",
                "Original", "InOriginal", "Commit", "Forget", "Done"}

(* A SchedulerFrame: whether it holds the App, its OriginalPhase, whether   *)
(* its body has unwound, and how often it has entered the original.         *)
Frame == [pc : FramePc, app : BOOLEAN, phase : Phase,
          unwound : BOOLEAN, calls : 0..2]

IdleFrame  == [pc |-> "Idle", app |-> FALSE, phase |-> "Before",
               unwound |-> FALSE, calls |-> 0]

Depths == 1..MaxDepth

Top(t) == frame[t][depth[t]]

(* The thread t executes the frame at the top of its stack, at pc p.        *)
At(t, p) == depth[t] > 0 /\ Top(t).pc = p

(* That frame becomes f.                                                    *)
Becomes(t, f) == frame' = [frame EXCEPT ![t][depth[t]] = f]

Goto(t, p) == Becomes(t, [Top(t) EXCEPT !.pc = p])

Init ==
  /\ control = "closed" /\ flag = FALSE /\ failed = FALSE
  /\ published = FALSE /\ hook = "original" /\ worker = "Publish"
  /\ handoff = "empty" /\ startup = FALSE /\ lost = "no"
  /\ tls   = [t \in Threads |-> "AwaitingHandoff"]
  /\ depth = [t \in Threads |-> 0]
  /\ frame = [t \in Threads |-> [d \in Depths |-> IdleFrame]]

-----------------------------------------------------------------------------
(* The bootstrap worker, from the publication of the context on.            *)

PublishContext ==
  /\ worker = "Publish"
  /\ published' = TRUE
  /\ worker' = "Install"
  /\ UNCHANGED <<gateVars, hook, appVars, stackVars>>

(* MethodPointerSlot::install: the CAS, then the readback. A failed CAS     *)
(* (SlotConflict) or a foreign write seen by the readback                   *)
(* (InstallationFailed) sends the worker to the rollback.                   *)
InstallCas ==
  /\ worker = "Install"
  /\ \/ hook' = "replacement" /\ worker' = "Readback"
     \/ hook' = "foreign"     /\ worker' = "Close"
  /\ UNCHANGED <<gateVars, published, appVars, stackVars>>

Readback ==
  /\ worker = "Readback"
  /\ \/ hook' = hook      /\ worker' = "Lock"
     \/ hook' = "drifted" /\ worker' = "Close"
  /\ UNCHANGED <<gateVars, published, appVars, stackVars>>

(* Handoff::publish: the worker holds the Mutex, then fills the Option.     *)
LockHandoff ==
  /\ worker = "Lock"
  /\ handoff' = "locked"
  /\ worker' = "Store"
  /\ UNCHANGED <<gateVars, published, hook, startup, lost, stackVars>>

StoreApp ==
  /\ worker = "Store"
  /\ handoff' = "full"
  /\ worker' = "Done"
  /\ UNCHANGED <<gateVars, published, hook, startup, lost, stackVars>>

(* The rollback: gate_for_failures.close() in its two stores; the App is    *)
(* dropped when run_bootstrap returns.                                      *)
AbortClose ==
  /\ worker = "Close"
  /\ control' = "failed"
  /\ worker' = "Clear"
  /\ UNCHANGED <<flag, failed, published, hook, appVars, stackVars>>

AbortClear ==
  /\ worker = "Clear"
  /\ flag' = FALSE
  /\ lost' = "dropped"
  /\ worker' = "Aborted"
  /\ UNCHANGED <<control, failed, published, hook, handoff, startup, stackVars>>

Worker ==
  \/ PublishContext
  \/ InstallCas
  \/ Readback
  \/ LockHandoff
  \/ StoreApp
  \/ AbortClose
  \/ AbortClear

-----------------------------------------------------------------------------
(* One frame of the replacement.                                            *)

(* The game calls LateUpdate: from outside, or from within the driver or    *)
(* the original of the frame that is running (a nested callback). Without a *)
(* published context the replacement has no original to call.               *)
EnterFrame(t) ==
  /\ hook = "replacement"
  /\ depth[t] < MaxDepth
  /\ depth[t] > 0 => Top(t).pc \in {"Driver", "InOriginal"}
  /\ depth' = [depth EXCEPT ![t] = @ + 1]
  /\ frame' = [frame EXCEPT ![t][depth[t] + 1] =
                 [IdleFrame EXCEPT !.pc = IF published THEN "CheckFailed"
                                                       ELSE "Done"]]
  /\ UNCHANGED <<gateVars, workerVars, appVars, tls>>

CheckFailed(t) ==
  /\ At(t, "CheckFailed")
  /\ Goto(t, IF failed THEN "ClaimExit" ELSE "CheckThread")
  /\ UNCHANGED <<gateVars, workerVars, appVars, tls, depth>>

(* Mutant: the identity check is dropped.                                   *)
CheckThread_Unchecked(t) ==
  /\ At(t, "CheckThread")
  /\ Goto(t, "Claim")
  /\ UNCHANGED <<gateVars, workerVars, appVars, tls, depth>>

CheckThread(t) ==
  /\ At(t, "CheckThread")
  /\ Goto(t, IF t = Main THEN "Claim" ELSE "PublishClose")
  /\ UNCHANGED <<gateVars, workerVars, appVars, tls, depth>>

(* claim_app finds an App: in the Handoff if this thread never had one (a   *)
(* Handoff that is locked or empty is Pending), or in its own slot.         *)
CanClaim(t) ==
  \/ tls[t] = "AwaitingHandoff" /\ handoff = "full"
  \/ tls[t] = "Running"

(* Mutant: the Handoff is read, not taken.                                  *)
TakeApp_Peek(t, s) ==
  /\ tls' = [tls EXCEPT ![t] = s]
  /\ UNCHANGED handoff

(* The App leaves the Handoff or the slot, and the slot becomes s.          *)
TakeApp(t, s) ==
  /\ tls' = [tls EXCEPT ![t] = s]
  /\ handoff' = IF tls[t] = "AwaitingHandoff" THEN "empty" ELSE handoff

(* Mutants of step 1: the App is dropped; only one in the Handoff is retired.*)
ClaimExit_Drops(t) ==
  /\ At(t, "ClaimExit")
  /\ IF CanClaim(t) THEN TakeApp(t, "Unavailable") ELSE UNCHANGED <<tls, handoff>>
  /\ Goto(t, "Original")
  /\ UNCHANGED <<gateVars, workerVars, startup, lost, depth>>

ClaimExit_OnlyHandoff(t) ==
  /\ At(t, "ClaimExit")
  /\ IF CanClaim(t) /\ tls[t] # "Running"
     THEN TakeApp(t, "Exited") ELSE UNCHANGED <<tls, handoff>>
  /\ Goto(t, "Original")
  /\ UNCHANGED <<gateVars, workerVars, startup, lost, depth>>

(* Step 1 of execute: after a global failure the App is only retained.      *)
ClaimExit(t) ==
  /\ At(t, "ClaimExit")
  /\ IF CanClaim(t) THEN TakeApp(t, "Exited") ELSE UNCHANGED <<tls, handoff>>
  /\ Goto(t, "Original")
  /\ UNCHANGED <<gateVars, workerVars, startup, lost, depth>>

(* Mutants of step 3: the gate opens before Startup; an empty Handoff is    *)
(* taken for a failed one.                                                  *)
Claim_OpensFirst(t) ==
  /\ At(t, "Claim")
  /\ IF CanClaim(t)
     THEN /\ TakeApp(t, "Busy")
          /\ Becomes(t, [Top(t) EXCEPT !.app = TRUE,
                                       !.pc = IF startup THEN "Driver" ELSE "GateOpen"])
     ELSE Goto(t, "Original") /\ UNCHANGED <<tls, handoff>>
  /\ UNCHANGED <<gateVars, workerVars, startup, lost, depth>>

Claim_PendingIsFailed(t) ==
  /\ At(t, "Claim")
  /\ IF CanClaim(t)
     THEN /\ TakeApp(t, "Busy")
          /\ Becomes(t, [Top(t) EXCEPT !.app = TRUE, !.pc = "Driver"])
     ELSE /\ Goto(t, "Original")
          /\ tls' = [tls EXCEPT ![t] = IF @ = "AwaitingHandoff" THEN "Unavailable" ELSE @]
          /\ UNCHANGED handoff
  /\ UNCHANGED <<gateVars, workerVars, startup, lost, depth>>

(* Step 3: the outermost frame takes the App, any other passes through.     *)
Claim(t) ==
  /\ At(t, "Claim")
  /\ IF CanClaim(t)
     THEN /\ TakeApp(t, "Busy")
          /\ Becomes(t, [Top(t) EXCEPT !.app = TRUE, !.pc = "Driver"])
     ELSE /\ Goto(t, "Original")
          /\ UNCHANGED <<tls, handoff>>
  /\ UNCHANGED <<gateVars, workerVars, startup, lost, depth>>

(* Step 4: run_startup in the first frame, run_update in the later ones.    *)
DriverReturns(t) ==
  /\ At(t, "Driver")
  /\ startup' = TRUE
  /\ Goto(t, IF startup THEN "Original" ELSE "GateOpen")
  /\ UNCHANGED <<gateVars, workerVars, handoff, lost, tls, depth>>

(* The driver itself unwinds (a system's panic is caught further inside).   *)
DriverPanics(t) ==
  /\ At(t, "Driver")
  /\ Becomes(t, [Top(t) EXCEPT !.unwound = TRUE, !.pc = "PublishClose"])
  /\ UNCHANGED <<gateVars, workerVars, appVars, tls, depth>>

(* RuntimeGate::open: a compare-exchange of the control word, and only then *)
(* the store of the flag.                                                   *)
GateOpen(t) ==
  /\ At(t, "GateOpen")
  /\ control' = IF control = "closed" THEN "open" ELSE control
  /\ Goto(t, IF control = "closed" THEN "GateStore" ELSE "Original")
  /\ UNCHANGED <<flag, failed, workerVars, appVars, tls, depth>>

GateStore(t) ==
  /\ At(t, "GateStore")
  /\ flag' = TRUE
  /\ Goto(t, "Original")
  /\ UNCHANGED <<control, failed, workerVars, appVars, tls, depth>>

(* publish_global_failure: RuntimeGate::close in two stores, then failed.   *)
PublishClose(t) ==
  /\ At(t, "PublishClose")
  /\ control' = "failed"
  /\ Goto(t, "PublishClear")
  /\ UNCHANGED <<flag, failed, workerVars, appVars, tls, depth>>

PublishClear(t) ==
  /\ At(t, "PublishClear")
  /\ flag' = FALSE
  /\ Goto(t, "PublishFailed")
  /\ UNCHANGED <<control, failed, workerVars, appVars, tls, depth>>

(* Mutants: the compensation ignores the phase; there is none.              *)
AfterPublish_AnyPhase(f) == IF ~f.unwound THEN "MarkTls" ELSE "Original"

AfterPublish_NoCompensation(f) == IF ~f.unwound THEN "MarkTls" ELSE "Forget"

(* Where the publisher goes on: a wrong thread marks its slot, the recovery *)
(* of an unwound frame compensates the original if it was not called, and   *)
(* the frame's Drop retains the App.                                        *)
AfterPublish(f) ==
  IF ~f.unwound THEN "MarkTls"
  ELSE IF f.phase = "Before" THEN "Original" ELSE "Forget"

PublishFailed(t) ==
  /\ At(t, "PublishFailed")
  /\ failed' = TRUE
  /\ Goto(t, AfterPublish(Top(t)))
  /\ UNCHANGED <<control, flag, workerVars, appVars, tls, depth>>

(* Step 2, on a wrong thread.                                               *)
MarkTls(t) ==
  /\ At(t, "MarkTls")
  /\ tls' = [tls EXCEPT ![t] = IF @ = "AwaitingHandoff" THEN "Unavailable" ELSE @]
  /\ Goto(t, "Original")
  /\ UNCHANGED <<gateVars, workerVars, appVars, depth>>

(* call_original_once, and the return of the original.                      *)
CallOriginal(t) ==
  /\ At(t, "Original")
  /\ Becomes(t, [Top(t) EXCEPT !.phase = "Calling", !.pc = "InOriginal",
                               !.calls = @ + 1])
  /\ UNCHANGED <<gateVars, workerVars, appVars, tls, depth>>

(* Then: step 6 for the frame that drove the App; for an unwound frame the  *)
(* Drop, which publishes the failure once more if it still holds the App.   *)
AfterOriginal(f) ==
  IF ~f.app THEN "Done"
  ELSE IF f.unwound THEN "PublishClose" ELSE "Commit"

OriginalReturns(t) ==
  /\ At(t, "InOriginal")
  /\ Becomes(t, [Top(t) EXCEPT !.phase = "After", !.pc = AfterOriginal(Top(t))])
  /\ UNCHANGED <<gateVars, workerVars, appVars, tls, depth>>

(* Mutant: the exit condition is inverted.                                  *)
Commit_Inverted(t) ==
  /\ At(t, "Commit")
  /\ tls' = [tls EXCEPT ![t] = IF @ # "Busy" THEN "Unavailable"
                               ELSE IF failed THEN "Running" ELSE "Exited"]
  /\ lost' = IF tls[t] # "Busy" THEN "leaked" ELSE lost
  /\ Becomes(t, [Top(t) EXCEPT !.app = FALSE, !.pc = "Done"])
  /\ UNCHANGED <<gateVars, workerVars, handoff, startup, depth>>

(* Step 6: the App goes back to the slot, or is leaked if that is not Busy. *)
Commit(t) ==
  /\ At(t, "Commit")
  /\ tls' = [tls EXCEPT ![t] = IF @ # "Busy" THEN "Unavailable"
                               ELSE IF failed THEN "Exited" ELSE "Running"]
  /\ lost' = IF tls[t] # "Busy" THEN "leaked" ELSE lost
  /\ Becomes(t, [Top(t) EXCEPT !.app = FALSE, !.pc = "Done"])
  /\ UNCHANGED <<gateVars, workerVars, handoff, startup, depth>>

(* The Drop of an unwound frame leaks the App; its slot stays Busy.         *)
Forget(t) ==
  /\ At(t, "Forget")
  /\ lost' = "leaked"
  /\ Becomes(t, [Top(t) EXCEPT !.app = FALSE, !.pc = "Done"])
  /\ UNCHANGED <<gateVars, workerVars, handoff, startup, tls, depth>>

(* The replacement returns to the game.                                     *)
LeaveFrame(t) ==
  /\ At(t, "Done")
  /\ Becomes(t, IdleFrame)
  /\ depth' = [depth EXCEPT ![t] = @ - 1]
  /\ UNCHANGED <<gateVars, workerVars, appVars, tls>>

(* What the frame does by itself, that is, without its callees.             *)
OwnStep(t) ==
  \/ CheckFailed(t)
  \/ CheckThread(t)
  \/ ClaimExit(t)
  \/ Claim(t)
  \/ GateOpen(t)
  \/ GateStore(t)
  \/ PublishClose(t)
  \/ PublishClear(t)
  \/ PublishFailed(t)
  \/ MarkTls(t)
  \/ CallOriginal(t)
  \/ Commit(t)
  \/ Forget(t)
  \/ LeaveFrame(t)

(* The end of the two calls that leave the replacement.                     *)
CalleeEnds(t) ==
  \/ DriverReturns(t)
  \/ DriverPanics(t)
  \/ OriginalReturns(t)

Next ==
  \/ Worker
  \/ \E t \in Threads : EnterFrame(t) \/ OwnStep(t) \/ CalleeEnds(t)

Spec == Init /\ [][Next]_vars

(* A running thread goes on; the driver and the original end, also when     *)
(* nested callbacks keep interrupting them; the game calls LateUpdate on    *)
(* its main thread again and again.                                         *)
Fairness ==
  /\ WF_vars(Worker)
  /\ WF_vars(EnterFrame(Main))
  /\ \A t \in Threads : 
       /\ WF_vars(OwnStep(t))
       /\ \A d \in Depths : SF_vars(depth[t] = d /\ CalleeEnds(t))

FairSpec == Spec /\ Fairness

-----------------------------------------------------------------------------
(* Properties.                                                              *)

TypeOK ==
  /\ control \in GateControl /\ flag \in BOOLEAN /\ failed \in BOOLEAN
  /\ published \in BOOLEAN
  /\ hook \in {"original", "replacement", "foreign", "drifted"}
  /\ worker \in WorkerPc
  /\ handoff \in {"empty", "locked", "full"}
  /\ startup \in BOOLEAN
  /\ lost \in {"no", "leaked", "dropped"}
  /\ tls \in [Threads -> AppSlot]
  /\ depth \in [Threads -> 0..MaxDepth]
  /\ frame \in [Threads -> [Depths -> Frame]]

(* Where the one App is.                                                    *)
InWorker  == worker \notin {"Done", "Aborted"}
InHandoff == handoff = "full"
InTls(t)  == tls[t] \in {"Running", "Exited"}
InFrame(t, d) == frame[t][d].app
Lost      == lost # "no"

(* The App is never duplicated on its way from the worker through the       *)
(* Handoff to a frame and back: two places never hold it at once.           *)
AppNotShared ==
  /\ InWorker  => ~InHandoff /\ ~Lost
  /\ InHandoff => ~Lost
  /\ \A t \in Threads :
       InTls(t) => /\ ~InWorker /\ ~InHandoff /\ ~Lost
                   /\ \A u \in Threads : InTls(u) => u = t
  /\ \A t \in Threads, d \in Depths :
       InFrame(t, d) =>
         /\ ~InWorker /\ ~InHandoff /\ ~Lost
         /\ \A u \in Threads : ~InTls(u)
         /\ \A u \in Threads, e \in Depths : InFrame(u, e) => u = t /\ e = d

(* The App is never mislaid: it is with the worker, in the Handoff, in a    *)
(* slot, on a callback's stack, or was given up on purpose.                 *)
AppHeld ==
  \/ InWorker \/ InHandoff \/ Lost
  \/ \E t \in Threads : InTls(t)
  \/ \E t \in Threads, d \in Depths : InFrame(t, d)

(* The original LateUpdate is entered exactly once per frame, on every path *)
(* through execute, the recovery of a panic and Drop (scheduler.rs:10).     *)
OriginalExactlyOnce ==
  \A t \in Threads, d \in Depths :
    LET f == frame[t][d] IN
    /\ f.calls <= 1
    /\ f.pc = "Done" => f.calls = 1

(* No plugin code runs off the main thread or inside itself: a driver runs  *)
(* on Main only, in the frame that holds the App, and at most one at a time.*)
DriverExclusive ==
  \A t \in Threads, d \in Depths :
    frame[t][d].pc = "Driver" =>
      /\ t = Main /\ frame[t][d].app
      /\ \A e \in Depths : frame[t][e].pc = "Driver" => e = d

(* Callbacks pass the gate only after all Startup systems have run: while   *)
(* the Startup driver runs, and before, the flag that they load is FALSE.   *)
GateClosedDuringStartup == flag => startup

(* A slot is Busy exactly as long as a frame of that thread holds the App,  *)
(* and for good when that frame leaked it (the bottom-line Drop).           *)
BusyIffInFlight ==
  \A t \in Threads :
    tls[t] = "Busy" <=> \/ \E d \in Depths : InFrame(t, d)
                        \/ t = Main /\ lost = "leaked"

(* Every thread that has seen a global failure sees a gate whose control    *)
(* word can no longer be opened.                                            *)
FailedIsFinal == failed => control = "failed"

(* The refinement mapping: where the App stands, abstractly.                *)
AppStage ==
  IF InWorker THEN "built"
  ELSE IF InHandoff THEN "offered"
  ELSE IF \E t \in Threads, d \in Depths : InFrame(t, d) THEN "driven"
  ELSE IF \E t \in Threads : tls[t] = "Running" THEN "resting"
  ELSE "retired"

Lifecycle == INSTANCE AppLifecycle
               WITH app <- AppStage, started <- startup, gate <- control

(* The scheduler implements AppLifecycle: it drives the App in one callback *)
(* at a time, opens the gate at most once and after Startup, and retires    *)
(* the App for good and only behind a permanently closed gate.              *)
ImplementsLifecycle == Lifecycle!Spec

(* An App that the worker has handed off is eventually claimed.             *)
HandoffIsClaimed == InHandoff ~> ~InHandoff

(* A global failure retires the App: no matter where it was when a thread   *)
(* published the failure, from some point on it is neither driven nor       *)
(* waiting in a slot to be driven.                                          *)
FailureRetiresApp ==
  failed ~> [](\A t \in Threads : /\ tls[t] # "Running"
                                  /\ \A d \in Depths : frame[t][d].pc # "Driver")

-----------------------------------------------------------------------------
(* A claim of a comment that the code does not keep.                        *)

(* scheduler.rs:201-203: "Callbacks read `failed` with Acquire and can      *)
(* therefore never observe `failed == true` while the gate still reads      *)
(* open."                                                                   *)
FailedImpliesGateClosed == failed => ~flag
=============================================================================
