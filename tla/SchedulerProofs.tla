--------------------------- MODULE SchedulerProofs ---------------------------
(***************************************************************************)
(* Proofs about Scheduler for every set of threads and every nesting bound.*)
(* None of the safety properties is inductive by itself: that the App is   *)
(* in one place needs that a slot is Busy only while a frame of its thread *)
(* holds the App, which needs what a frame knows at each of its program    *)
(* points, which needs the shape of the stacks.                            *)
(***************************************************************************)
EXTENDS Scheduler, TLAPS

-----------------------------------------------------------------------------
(* The inductive invariant.                                                 *)

Early      == {"CheckFailed", "ClaimExit", "CheckThread", "Claim", "MarkTls"}
Driving    == {"Driver", "GateOpen", "GateStore"}
Publishing == {"PublishClose", "PublishClear", "PublishFailed"}

(* What a frame knows at its program point.                                 *)
NotCalled(f) == f.calls = 0 /\ f.phase = "Before"
Called(f)    == f.calls = 1 /\ f.phase = "After"

FrameShape(f) ==
  /\ f.pc = "Idle" => f = IdleFrame
  /\ f.pc \in Early => ~f.app /\ ~f.unwound /\ NotCalled(f)
  /\ f.pc \in Driving => f.app /\ ~f.unwound /\ NotCalled(f)
  /\ f.pc \in Publishing => /\ f.unwound <=> f.app
                            /\ NotCalled(f) \/ (f.unwound /\ Called(f))
  /\ f.pc = "Original" => NotCalled(f) /\ (f.unwound => f.app)
  /\ f.pc = "InOriginal" => /\ f.calls = 1 /\ f.phase = "Calling"
                            /\ f.unwound => f.app
  /\ f.pc = "Commit" => f.app /\ ~f.unwound /\ Called(f)
  /\ f.pc = "Forget" => f.app /\ f.unwound /\ Called(f)
  /\ f.pc = "Done" => ~f.app /\ f.calls = 1

(* Only the top frame runs; below it a driver or an original is interrupted.*)
StackShape ==
  \A t \in Threads, d \in Depths :
    /\ FrameShape(frame[t][d])
    /\ frame[t][d].pc = "Idle" <=> d > depth[t]
    /\ d < depth[t] => frame[t][d].pc \in {"Driver", "InOriginal"}

(* Only the main thread gets past the identity check with the App.          *)
MainOnly ==
  \A t \in Threads, d \in Depths :
    frame[t][d].app \/ frame[t][d].pc = "Claim" => t = Main

(* How far the worker is.                                                   *)
WorkerShape ==
  /\ worker # "Publish" => published
  /\ hook = "replacement" => worker # "Publish"
  /\ lost = "dropped" <=> worker = "Aborted"

(* The order of the stores of publish_global_failure and of open.           *)
GateShape ==
  /\ FailedIsFinal
  /\ GateClosedDuringStartup
  /\ \A t \in Threads, d \in Depths :
       /\ frame[t][d].pc \in {"PublishClear", "PublishFailed"} => control = "failed"
       /\ frame[t][d].pc \in {"GateOpen", "GateStore"} => startup

Ownership == AppNotShared /\ AppHeld /\ BusyIffInFlight

IInv == TypeOK /\ StackShape /\ MainOnly /\ WorkerShape /\ GateShape /\ Ownership

-----------------------------------------------------------------------------
(* Lemmas about one step of a frame.                                        *)

USE SchedulerAssumption

(* Becomes replaces the top frame of one stack and nothing else.            *)
LEMMA BecomesFacts ==
  ASSUME TypeOK, NEW t \in Threads, depth[t] > 0, NEW f \in Frame, Becomes(t, f)
  PROVE  /\ depth[t] \in Depths
         /\ frame' \in [Threads -> [Depths -> Frame]]
         /\ frame'[t][depth[t]] = f
         /\ \A u \in Threads, e \in Depths :
              u # t \/ e # depth[t] => frame'[u][e] = frame[u][e]
<1>1. depth[t] \in Depths
  BY DEF TypeOK, Depths
<1>2. QED
  BY <1>1 DEF TypeOK, Becomes

(* So it changes who holds the App in that frame only.                      *)
LEMMA InFrameStep ==
  ASSUME TypeOK, NEW t \in Threads, depth[t] > 0, NEW f \in Frame, Becomes(t, f)
  PROVE  \A u \in Threads, e \in Depths :
           InFrame(u, e)' = IF u = t /\ e = depth[t] THEN f.app ELSE InFrame(u, e)
<1>1. SUFFICES ASSUME NEW u \in Threads, NEW e \in Depths
               PROVE  frame'[u][e].app = IF u = t /\ e = depth[t] THEN f.app
                                                                ELSE frame[u][e].app
  BY DEF InFrame
<1>2. CASE u = t /\ e = depth[t]
  BY <1>2, BecomesFacts
<1>3. CASE ~(u = t /\ e = depth[t])
  BY <1>3, BecomesFacts
<1>4. QED
  BY <1>2, <1>3

(* A frame that moves to a program point whose shape it has, by a step that *)
(* pushes and pops nothing, keeps the shape of all stacks.                  *)
LEMMA StackStep ==
  ASSUME TypeOK, StackShape, NEW t \in Threads, depth[t] > 0,
         NEW f \in Frame, Becomes(t, f), depth' = depth,
         FrameShape(f), f.pc # "Idle"
  PROVE  StackShape'
<1>1. /\ depth[t] \in Depths
      /\ frame'[t][depth[t]] = f
      /\ \A u \in Threads, e \in Depths :
           u # t \/ e # depth[t] => frame'[u][e] = frame[u][e]
  BY BecomesFacts
<1>2. SUFFICES ASSUME NEW u \in Threads, NEW e \in Depths
               PROVE  /\ FrameShape(frame'[u][e])
                      /\ frame'[u][e].pc = "Idle" <=> e > depth[u]
                      /\ e < depth[u] => frame'[u][e].pc \in {"Driver", "InOriginal"}
  BY DEF StackShape, FrameShape
<1>3. CASE u = t /\ e = depth[t]
  BY <1>1, <1>3 DEF Depths, TypeOK
<1>4. CASE u # t \/ e # depth[t]
  BY <1>1, <1>4 DEF StackShape
<1>5. QED
  BY <1>3, <1>4

(* A step that moves the App nowhere keeps it where it is.                  *)
LEMMA QuietOwnership ==
  ASSUME Ownership,
         InWorker' <=> InWorker, InHandoff' <=> InHandoff, lost' = lost,
         \A u \in Threads : /\ InTls(u)' <=> InTls(u)
                            /\ (tls'[u] = "Busy") <=> (tls[u] = "Busy"),
         \A u \in Threads, e \in Depths : InFrame(u, e)' <=> InFrame(u, e)
  PROVE  Ownership'
<1>1. AppNotShared'
  BY DEF Ownership, AppNotShared, Lost
<1>2. AppHeld'
  BY DEF Ownership, AppHeld, Lost
<1>3. BusyIffInFlight'
  BY DEF Ownership, BusyIffInFlight
<1>4. QED
  BY <1>1, <1>2, <1>3 DEF Ownership

(* The steps of a frame that touch neither a slot nor the Handoff.          *)
LEMMA QuietFrameStep ==
  ASSUME TypeOK, Ownership, NEW t \in Threads, depth[t] > 0,
         NEW f \in Frame, Becomes(t, f), f.app = Top(t).app,
         worker' = worker, handoff' = handoff, lost' = lost, tls' = tls
  PROVE  Ownership'
<1>1. \A u \in Threads, e \in Depths : InFrame(u, e)' <=> InFrame(u, e)
  BY BecomesFacts DEF InFrame, Top
<1>2. QED
  BY <1>1, QuietOwnership DEF InWorker, InHandoff, InTls

(* A frame of another thread than Main that stays without the App and out   *)
(* of Claim keeps MainOnly.                                                 *)
LEMMA MainOnlyStep ==
  ASSUME TypeOK, MainOnly, NEW t \in Threads, depth[t] > 0,
         NEW f \in Frame, Becomes(t, f), f.app \/ f.pc = "Claim" => t = Main
  PROVE  MainOnly'
BY BecomesFacts DEF MainOnly

(* What a step has to respect of the gate.                                  *)
LEMMA GateShapeStep ==
  ASSUME TypeOK, GateShape, NEW t \in Threads, depth[t] > 0,
         NEW f \in Frame, Becomes(t, f),
         FailedIsFinal', GateClosedDuringStartup',
         control = "failed" => control' = "failed", startup => startup',
         f.pc \in {"PublishClear", "PublishFailed"} => control' = "failed",
         f.pc \in {"GateOpen", "GateStore"} => startup'
  PROVE  GateShape'
BY BecomesFacts DEF GateShape

-----------------------------------------------------------------------------
(* The invariant holds initially.                                           *)
LEMMA InitIInv == Init => IInv
<1>1. SUFFICES ASSUME Init PROVE IInv
  OBVIOUS
<1>2. IdleFrame \in Frame
  BY DEF IdleFrame, Frame, FramePc, Phase
<1>3. TypeOK
  <2>1. /\ tls \in [Threads -> AppSlot]
        /\ depth \in [Threads -> 0..MaxDepth]
    BY <1>1 DEF Init, AppSlot
  <2>2. frame \in [Threads -> [Depths -> Frame]]
    BY <1>1, <1>2 DEF Init
  <2>3. QED
    BY <1>1, <2>1, <2>2 DEF Init, TypeOK, GateControl, WorkerPc
<1>4. \A t \in Threads, d \in Depths : frame[t][d] = IdleFrame /\ depth[t] = 0
  BY <1>1 DEF Init
<1>5. FrameShape(IdleFrame) /\ IdleFrame.pc = "Idle" /\ ~IdleFrame.app
  BY DEF FrameShape, IdleFrame, Early, Driving, Publishing, NotCalled, Called
<1>6. StackShape /\ MainOnly
  BY <1>4, <1>5 DEF StackShape, MainOnly, Depths
<1>7. WorkerShape
  BY <1>1 DEF Init, WorkerShape
<1>8. GateShape
  BY <1>1, <1>4, <1>5 DEF Init, GateShape, FailedIsFinal, GateClosedDuringStartup
<1>9. Ownership
  BY <1>1, <1>4, <1>5 DEF Init, Ownership, AppNotShared, AppHeld, BusyIffInFlight,
                          InWorker, InHandoff, InTls, InFrame, Lost
<1>10. QED
  BY <1>3, <1>6, <1>7, <1>8, <1>9 DEF IInv

-----------------------------------------------------------------------------
(* The worker's steps.                                                      *)
LEMMA WorkerIInv == IInv /\ Worker => IInv'
<1>1. SUFFICES ASSUME IInv, Worker PROVE IInv'
  OBVIOUS
<1> USE <1>1 DEF IInv
<1>2. UNCHANGED stackVars
  BY DEF Worker, PublishContext, InstallCas, Readback, LockHandoff, StoreApp,
         AbortClose, AbortClear, appVars
<1>3. TypeOK'
  <2>1. /\ tls' \in [Threads -> AppSlot]
        /\ depth' \in [Threads -> 0..MaxDepth]
        /\ frame' \in [Threads -> [Depths -> Frame]]
    BY <1>2 DEF TypeOK, stackVars
  <2>2. /\ control' \in GateControl /\ flag' \in BOOLEAN /\ failed' \in BOOLEAN
        /\ published' \in BOOLEAN /\ startup' \in BOOLEAN
        /\ hook' \in {"original", "replacement", "foreign", "drifted"}
    BY DEF Worker, PublishContext, InstallCas, Readback, LockHandoff, StoreApp,
           AbortClose, AbortClear, TypeOK, GateControl, gateVars, appVars
  <2>3. /\ worker' \in WorkerPc
        /\ handoff' \in {"empty", "locked", "full"}
        /\ lost' \in {"no", "leaked", "dropped"}
    BY DEF Worker, PublishContext, InstallCas, Readback, LockHandoff, StoreApp,
           AbortClose, AbortClear, TypeOK, WorkerPc, appVars
  <2>4. QED
    BY <2>1, <2>2, <2>3 DEF TypeOK
<1>4. StackShape' /\ MainOnly'
  BY <1>2 DEF StackShape, MainOnly, FrameShape, stackVars
<1>5. WorkerShape'
  BY DEF Worker, PublishContext, InstallCas, Readback, LockHandoff, StoreApp,
         AbortClose, AbortClear, WorkerShape, appVars, TypeOK
<1>6. GateShape'
  BY <1>2 DEF Worker, PublishContext, InstallCas, Readback, LockHandoff, StoreApp,
         AbortClose, AbortClear, GateShape, FailedIsFinal,
         GateClosedDuringStartup, gateVars, appVars, stackVars
<1>7. Ownership'
  <2>1. CASE StoreApp
    BY <1>2, <2>1 DEF StoreApp, Ownership, AppNotShared, AppHeld, BusyIffInFlight,
         InWorker, InHandoff, InTls, InFrame, Lost, stackVars
  <2>2. CASE AbortClear
    BY <1>2, <2>2 DEF AbortClear, Ownership, AppNotShared, AppHeld, BusyIffInFlight,
         InWorker, InHandoff, InTls, InFrame, Lost, stackVars
  <2>3. CASE ~StoreApp /\ ~AbortClear
    <3>1. InWorker /\ InWorker' /\ ~InHandoff /\ ~InHandoff' /\ lost' = lost
      BY <2>3 DEF Worker, PublishContext, InstallCas, Readback, LockHandoff,
           AbortClose, InWorker, InHandoff, Ownership, AppNotShared, appVars
    <3>2. QED
      BY <1>2, <3>1, QuietOwnership DEF InTls, InFrame, stackVars
  <2>4. QED
    BY <2>1, <2>2, <2>3
<1>8. QED
  BY <1>3, <1>4, <1>5, <1>6, <1>7

-----------------------------------------------------------------------------
(* The steps of a frame.                                                    *)

(* What the invariant says of the frame that runs.                          *)
LEMMA TopFacts ==
  ASSUME IInv, NEW t \in Threads, depth[t] > 0
  PROVE  /\ depth[t] \in Depths /\ Top(t) \in Frame /\ FrameShape(Top(t))
         /\ Top(t).pc # "Idle"
         /\ Top(t).app \/ Top(t).pc = "Claim" => t = Main
         /\ Top(t).pc \in {"PublishClear", "PublishFailed"} => control = "failed"
         /\ Top(t).pc \in {"GateOpen", "GateStore"} => startup
<1>1. depth[t] \in Depths /\ ~(depth[t] > depth[t])
  BY DEF IInv, TypeOK, Depths
<1>2. QED
  BY <1>1 DEF IInv, TypeOK, Top, StackShape, MainOnly, GateShape

(* A step that changes the running frame, and possibly the gate, keeps the  *)
(* invariant if the frame gets a shape that fits.                           *)
LEMMA QuietStep ==
  ASSUME IInv, NEW t \in Threads, depth[t] > 0,
         NEW f \in Frame, Becomes(t, f), depth' = depth,
         UNCHANGED <<workerVars, handoff, lost, tls>>,
         FrameShape(f), f.pc # "Idle", f.app = Top(t).app,
         f.pc = "Claim" => t = Main,
         control' \in GateControl, flag' \in BOOLEAN, failed' \in BOOLEAN,
         startup' \in BOOLEAN, startup => startup',
         control = "failed" => control' = "failed",
         FailedIsFinal', GateClosedDuringStartup',
         f.pc \in {"PublishClear", "PublishFailed"} => control' = "failed",
         f.pc \in {"GateOpen", "GateStore"} => startup'
  PROVE  IInv'
<1>1. TypeOK'
  BY BecomesFacts DEF IInv, TypeOK, workerVars
<1>2. StackShape'
  BY StackStep DEF IInv
<1>3. MainOnly'
  BY MainOnlyStep, TopFacts DEF IInv
<1>4. WorkerShape'
  BY DEF IInv, WorkerShape, workerVars
<1>5. GateShape'
  BY GateShapeStep DEF IInv
<1>6. Ownership'
  BY QuietFrameStep DEF IInv, workerVars
<1>7. QED
  BY <1>1, <1>2, <1>3, <1>4, <1>5, <1>6 DEF IInv

(* Steps that leave the gate alone respect it.                              *)
LEMMA GateUnchanged ==
  ASSUME IInv, UNCHANGED gateVars, startup => startup'
  PROVE  /\ control' \in GateControl /\ flag' \in BOOLEAN /\ failed' \in BOOLEAN
         /\ control = "failed" => control' = "failed"
         /\ FailedIsFinal' /\ GateClosedDuringStartup'
BY DEF IInv, TypeOK, GateShape, FailedIsFinal, GateClosedDuringStartup, gateVars

(* The steps that only move the frame on.                                   *)
LEMMA LocalSteps ==
  ASSUME IInv, NEW t \in Threads,
         \/ CheckFailed(t) \/ CheckThread(t) \/ DriverReturns(t) \/ DriverPanics(t)
         \/ CallOriginal(t) \/ OriginalReturns(t)
  PROVE  IInv'
<1>1. depth[t] > 0
  BY DEF CheckFailed, CheckThread, DriverReturns, DriverPanics, CallOriginal,
         OriginalReturns, At
<1>2. /\ UNCHANGED <<workerVars, handoff, lost, tls>> /\ depth' = depth
      /\ UNCHANGED gateVars
      /\ startup' \in BOOLEAN /\ (startup => startup')
  BY DEF CheckFailed, CheckThread, DriverReturns, DriverPanics, CallOriginal,
         OriginalReturns, appVars, IInv, TypeOK
<1>3. /\ depth[t] \in Depths /\ Top(t) \in Frame /\ FrameShape(Top(t))
      /\ Top(t).app \/ Top(t).pc = "Claim" => t = Main
  BY <1>1, TopFacts
<1> SUFFICES ASSUME NEW g \in Frame, Becomes(t, g), FrameShape(g), g.pc # "Idle",
                    g.app = Top(t).app, g.pc = "Claim" => t = Main,
                    g.pc \notin {"PublishClear", "PublishFailed", "GateStore"},
                    g.pc = "GateOpen" => startup'
             PROVE  IInv'
  <2> USE <1>3 DEF Frame, FramePc, Phase, FrameShape, Early, Driving, Publishing,
                   NotCalled, Called, Goto, At
  <2>1. CASE CheckFailed(t)
    <3> DEFINE g == [Top(t) EXCEPT !.pc = IF failed THEN "ClaimExit" ELSE "CheckThread"]
    <3>1. Becomes(t, g)
      BY <2>1 DEF CheckFailed
    <3>2. g \in Frame /\ FrameShape(g) /\ g.app = Top(t).app
          /\ g.pc \in {"ClaimExit", "CheckThread"}
      BY <2>1 DEF CheckFailed
    <3>3. QED
      BY <3>1, <3>2
  <2>2. CASE CheckThread(t)
    <3> DEFINE g == [Top(t) EXCEPT !.pc = IF t = Main THEN "Claim" ELSE "PublishClose"]
    <3>1. Becomes(t, g)
      BY <2>2 DEF CheckThread
    <3>2. g \in Frame /\ FrameShape(g) /\ g.app = Top(t).app
          /\ g.pc \in {"Claim", "PublishClose"} /\ (g.pc = "Claim" => t = Main)
      BY <2>2 DEF CheckThread
    <3>3. QED
      BY <3>1, <3>2
  <2>3. CASE DriverReturns(t)
    <3> DEFINE g == [Top(t) EXCEPT !.pc = IF startup THEN "Original" ELSE "GateOpen"]
    <3>1. Becomes(t, g) /\ startup'
      BY <2>3 DEF DriverReturns
    <3>2. g \in Frame /\ FrameShape(g) /\ g.app = Top(t).app
          /\ g.pc \in {"Original", "GateOpen"}
      BY <2>3 DEF DriverReturns
    <3>3. QED
      BY <3>1, <3>2
  <2>4. CASE DriverPanics(t)
    <3> DEFINE g == [Top(t) EXCEPT !.unwound = TRUE, !.pc = "PublishClose"]
    <3>1. Becomes(t, g)
      BY <2>4 DEF DriverPanics
    <3>2. g \in Frame /\ FrameShape(g) /\ g.app = Top(t).app /\ g.pc = "PublishClose"
      BY <2>4 DEF DriverPanics
    <3>3. QED
      BY <3>1, <3>2
  <2>5. CASE CallOriginal(t)
    <3> DEFINE g == [Top(t) EXCEPT !.phase = "Calling", !.pc = "InOriginal",
                                   !.calls = 1]
    <3>1. Top(t).pc = "Original" /\ Top(t).calls = 0
      BY <2>5 DEF CallOriginal
    <3>2. Top(t).calls + 1 = 1
      BY <3>1
    <3>3. Becomes(t, g)
      BY <2>5, <3>2 DEF CallOriginal
    <3>4. g \in Frame
      <4>1. \A n \in 0..2 : [Top(t) EXCEPT !.phase = "Calling", !.pc = "InOriginal",
                                          !.calls = n] \in Frame
        BY <1>3
      <4>2. QED
        BY <4>1
    <3>5. FrameShape(g) /\ g.app = Top(t).app /\ g.pc = "InOriginal"
      BY <3>1
    <3>6. QED
      BY <3>3, <3>4, <3>5
  <2>6. CASE OriginalReturns(t)
    <3> DEFINE g == [Top(t) EXCEPT !.phase = "After", !.pc = AfterOriginal(Top(t))]
    <3>1. Becomes(t, g)
      BY <2>6 DEF OriginalReturns
    <3>2. g \in Frame /\ FrameShape(g) /\ g.app = Top(t).app
          /\ g.pc \in {"Done", "PublishClose", "Commit"}
      BY <2>6 DEF OriginalReturns, AfterOriginal
    <3>3. QED
      BY <3>1, <3>2
  <2>7. QED
    BY <2>1, <2>2, <2>3, <2>4, <2>5, <2>6
<1>4. QED
  BY <1>1, <1>2, GateUnchanged, QuietStep

(* The steps on the gate and the failed flag.                               *)
LEMMA GateSteps ==
  ASSUME IInv, NEW t \in Threads,
         \/ GateOpen(t) \/ GateStore(t)
         \/ PublishClose(t) \/ PublishClear(t) \/ PublishFailed(t)
  PROVE  IInv'
<1>1. depth[t] > 0
  BY DEF GateOpen, GateStore, PublishClose, PublishClear, PublishFailed, At
<1>2. /\ UNCHANGED <<workerVars, handoff, lost, tls>> /\ depth' = depth
      /\ startup' = startup /\ startup' \in BOOLEAN
  BY DEF GateOpen, GateStore, PublishClose, PublishClear, PublishFailed,
         appVars, IInv, TypeOK
<1>3. /\ depth[t] \in Depths /\ Top(t) \in Frame /\ FrameShape(Top(t))
      /\ Top(t).pc \in {"PublishClear", "PublishFailed"} => control = "failed"
      /\ Top(t).pc \in {"GateOpen", "GateStore"} => startup
  BY <1>1, TopFacts
<1> USE DEF GateOpen, GateStore, PublishClose, PublishClear, PublishFailed, At
<1>4. control' \in GateControl /\ flag' \in BOOLEAN /\ failed' \in BOOLEAN
  BY DEF IInv, TypeOK, GateControl
<1>5. control = "failed" => control' = "failed"
  OBVIOUS
<1>6. FailedIsFinal' /\ GateClosedDuringStartup'
  BY <1>2, <1>3 DEF IInv, GateShape, FailedIsFinal, GateClosedDuringStartup
<1> SUFFICES ASSUME NEW g \in Frame, Becomes(t, g), FrameShape(g), g.pc # "Idle",
                    g.app = Top(t).app, g.pc # "Claim",
                    g.pc \in {"PublishClear", "PublishFailed"} => control' = "failed",
                    g.pc \in {"GateOpen", "GateStore"} => startup
             PROVE  IInv'
  <2> USE <1>3 DEF Frame, FramePc, Phase, FrameShape, Early, Driving, Publishing,
                   NotCalled, Called, Goto, At
  <2>1. CASE GateOpen(t)
    <3> DEFINE g == [Top(t) EXCEPT !.pc = IF control = "closed" THEN "GateStore"
                                                               ELSE "Original"]
    <3>1. Becomes(t, g)
      BY <2>1 DEF GateOpen
    <3>2. g \in Frame /\ FrameShape(g) /\ g.app = Top(t).app
          /\ g.pc \in {"GateStore", "Original"} /\ startup
      BY <2>1 DEF GateOpen
    <3>3. QED
      BY <3>1, <3>2
  <2>2. CASE GateStore(t)
    <3> DEFINE g == [Top(t) EXCEPT !.pc = "Original"]
    <3>1. Becomes(t, g)
      BY <2>2 DEF GateStore
    <3>2. g \in Frame /\ FrameShape(g) /\ g.app = Top(t).app /\ g.pc = "Original"
      BY <2>2 DEF GateStore
    <3>3. QED
      BY <3>1, <3>2
  <2>3. CASE PublishClose(t)
    <3> DEFINE g == [Top(t) EXCEPT !.pc = "PublishClear"]
    <3>1. Becomes(t, g) /\ control' = "failed"
      BY <2>3 DEF PublishClose
    <3>2. g \in Frame /\ FrameShape(g) /\ g.app = Top(t).app /\ g.pc = "PublishClear"
      BY <2>3 DEF PublishClose
    <3>3. QED
      BY <3>1, <3>2
  <2>4. CASE PublishClear(t)
    <3> DEFINE g == [Top(t) EXCEPT !.pc = "PublishFailed"]
    <3>1. Becomes(t, g) /\ control' = "failed"
      BY <2>4 DEF PublishClear
    <3>2. g \in Frame /\ FrameShape(g) /\ g.app = Top(t).app /\ g.pc = "PublishFailed"
      BY <2>4 DEF PublishClear
    <3>3. QED
      BY <3>1, <3>2
  <2>5. CASE PublishFailed(t)
    <3> DEFINE g == [Top(t) EXCEPT !.pc = AfterPublish(Top(t))]
    <3>1. Becomes(t, g)
      BY <2>5 DEF PublishFailed
    <3>2. g \in Frame /\ FrameShape(g) /\ g.app = Top(t).app
          /\ g.pc \in {"MarkTls", "Original", "Forget"}
      BY <2>5 DEF PublishFailed, AfterPublish
    <3>3. QED
      BY <3>1, <3>2
  <2>6. QED
    BY <2>1, <2>2, <2>3, <2>4, <2>5
<1>7. QED
  BY <1>1, <1>2, <1>4, <1>5, <1>6, QuietStep

(* MarkTls: the slot of a wrong thread was empty and stays so.              *)
LEMMA MarkTlsIInv ==
  ASSUME IInv, NEW t \in Threads, MarkTls(t)
  PROVE  IInv'
<1> DEFINE g == [Top(t) EXCEPT !.pc = "Original"]
<1>1. depth[t] > 0 /\ Top(t).pc = "MarkTls" /\ Becomes(t, g)
  BY DEF MarkTls, At, Goto
<1>2. /\ UNCHANGED <<gateVars, workerVars, appVars>> /\ depth' = depth
      /\ tls' = [tls EXCEPT ![t] = IF @ = "AwaitingHandoff" THEN "Unavailable" ELSE @]
  BY DEF MarkTls
<1>3. /\ depth[t] \in Depths /\ Top(t) \in Frame /\ FrameShape(Top(t))
      /\ Top(t).app => t = Main
  BY <1>1, TopFacts
<1>4. /\ g \in Frame /\ FrameShape(g) /\ g.app = Top(t).app /\ g.pc = "Original"
  BY <1>1, <1>3 DEF Frame, FramePc, Phase, FrameShape, Early, Driving, Publishing,
                    NotCalled, Called
<1>5. TypeOK'
  <2>1. tls' \in [Threads -> AppSlot]
    BY <1>2 DEF IInv, TypeOK, AppSlot
  <2>2. QED
    BY <1>1, <1>2, <1>4, <2>1, BecomesFacts
       DEF IInv, TypeOK, gateVars, workerVars, appVars
<1>6. StackShape' /\ MainOnly'
  BY <1>1, <1>2, <1>3, <1>4, StackStep, MainOnlyStep DEF IInv
<1>7. WorkerShape'
  BY <1>2 DEF IInv, WorkerShape, workerVars, appVars
<1>8. GateShape'
  BY <1>1, <1>2, <1>4, GateUnchanged, GateShapeStep DEF IInv, appVars, gateVars
<1>9. Ownership'
  <2>1. frame'[t][depth[t]].app = frame[t][depth[t]].app
    BY <1>1, <1>4, BecomesFacts DEF IInv, Top
  <2>2. \A u \in Threads, e \in Depths : InFrame(u, e)' <=> InFrame(u, e)
    BY <1>1, <1>4, <2>1, BecomesFacts DEF IInv, InFrame
  <2>3. \A u \in Threads : /\ InTls(u)' <=> InTls(u)
                           /\ (tls'[u] = "Busy") <=> (tls[u] = "Busy")
    BY <1>2 DEF IInv, TypeOK, InTls
  <2>4. QED
    BY <1>2, <2>2, <2>3, QuietOwnership
       DEF IInv, InWorker, InHandoff, workerVars, appVars
<1>10. QED
  BY <1>5, <1>6, <1>7, <1>8, <1>9 DEF IInv

(* Entering and leaving the replacement: the frame that appears or          *)
(* disappears does not hold the App.                                        *)
LEMMA EnterIInv ==
  ASSUME IInv, NEW t \in Threads, EnterFrame(t)
  PROVE  IInv'
<1> DEFINE n == depth[t] + 1
           g == [IdleFrame EXCEPT !.pc = "CheckFailed"]
<1>1. n \in Depths /\ depth[t] \in Nat
  BY DEF EnterFrame, IInv, TypeOK, Depths
<1>2. published
  BY DEF EnterFrame, IInv, WorkerShape
<1>3. /\ frame' = [frame EXCEPT ![t][n] = g]
      /\ depth' = [depth EXCEPT ![t] = n]
      /\ UNCHANGED <<gateVars, workerVars, appVars, tls>>
  BY <1>2 DEF EnterFrame
<1>4. /\ g \in Frame /\ FrameShape(g) /\ ~g.app /\ g.pc = "CheckFailed"
  <2>1. IdleFrame \in Frame
    BY DEF IdleFrame, Frame, FramePc, Phase
  <2>2. g \in Frame
    BY <2>1 DEF Frame, FramePc
  <2>3. FrameShape(g) /\ ~g.app /\ g.pc = "CheckFailed"
    BY DEF IdleFrame, FrameShape, Early, Driving, Publishing, NotCalled, Called
  <2>4. QED
    BY <2>2, <2>3
<1>5. /\ frame' \in [Threads -> [Depths -> Frame]]
      /\ frame'[t][n] = g
      /\ \A u \in Threads, e \in Depths :
           u # t \/ e # n => frame'[u][e] = frame[u][e]
  BY <1>1, <1>3, <1>4 DEF IInv, TypeOK
<1>6. frame[t][n] = IdleFrame /\ ~frame[t][n].app
  <2>1. FrameShape(frame[t][n]) /\ frame[t][n].pc = "Idle"
    BY <1>1 DEF IInv, StackShape
  <2>2. QED
    BY <2>1 DEF FrameShape, IdleFrame
<1>7. TypeOK'
  <2>1. depth' \in [Threads -> 0..MaxDepth]
    BY <1>1, <1>3 DEF IInv, TypeOK, Depths
  <2>2. QED
    BY <1>3, <1>5, <2>1 DEF IInv, TypeOK, gateVars, workerVars, appVars
<1>8. StackShape'
  <2>1. SUFFICES ASSUME NEW u \in Threads, NEW e \in Depths
                 PROVE  /\ FrameShape(frame'[u][e])
                        /\ frame'[u][e].pc = "Idle" <=> e > depth'[u]
                        /\ e < depth'[u] => frame'[u][e].pc \in {"Driver", "InOriginal"}
    BY DEF StackShape, FrameShape
  <2>2. CASE u # t
    BY <1>3, <1>5, <2>2 DEF IInv, StackShape, TypeOK
  <2>3. CASE u = t /\ e = n
    BY <1>1, <1>3, <1>4, <1>5, <2>3 DEF IInv, TypeOK
  <2>4. CASE u = t /\ e # n
    <3>1. depth'[t] = n
      BY <1>3 DEF IInv, TypeOK
    <3>2. frame'[u][e] = frame[t][e]
      BY <1>5, <2>4
    <3>3. e < n => frame[t][e].pc \in {"Driver", "InOriginal"}
      <4>1. CASE e < depth[t]
        BY <2>4, <4>1 DEF IInv, StackShape
      <4>2. CASE e = depth[t]
        BY <2>4, <4>2 DEF EnterFrame, Top, Depths
      <4>3. QED
        BY <1>1, <2>4, <4>1, <4>2 DEF Depths
    <3>4. frame[t][e].pc = "Idle" <=> e > n
      BY <1>1, <2>4 DEF IInv, StackShape, Depths
    <3>5. QED
      BY <2>4, <3>1, <3>2, <3>3, <3>4 DEF IInv, StackShape
  <2>5. QED
    BY <2>2, <2>3, <2>4
<1>9. MainOnly'
  <2>1. SUFFICES ASSUME NEW u \in Threads, NEW e \in Depths,
                        frame'[u][e].app \/ frame'[u][e].pc = "Claim"
                 PROVE  u = Main
    BY DEF MainOnly
  <2>2. CASE u = t /\ e = n
    BY <1>4, <1>5, <2>1, <2>2
  <2>3. CASE u # t \/ e # n
    BY <1>5, <2>1, <2>3 DEF IInv, MainOnly
  <2>4. QED
    BY <2>2, <2>3
<1>10. WorkerShape'
  BY <1>3 DEF IInv, WorkerShape, workerVars, appVars
<1>11. GateShape'
  BY <1>3, <1>4, <1>5 DEF IInv, GateShape, FailedIsFinal, GateClosedDuringStartup,
                          gateVars, appVars
<1>12. Ownership'
  <2>1. \A u \in Threads, e \in Depths : InFrame(u, e)' <=> InFrame(u, e)
    BY <1>1, <1>4, <1>5, <1>6, ZenonT(30) DEF InFrame
  <2>2. QED
    BY <1>3, <2>1, QuietOwnership
       DEF IInv, InWorker, InHandoff, InTls, workerVars, appVars
<1>13. QED
  BY <1>7, <1>8, <1>9, <1>10, <1>11, <1>12 DEF IInv

(* The popped frame is done, so it holds no App.                            *)
LEMMA LeaveIInv ==
  ASSUME IInv, NEW t \in Threads, LeaveFrame(t)
  PROVE  IInv'
<1>1. /\ depth[t] > 0 /\ Top(t).pc = "Done" /\ Becomes(t, IdleFrame)
      /\ depth' = [depth EXCEPT ![t] = depth[t] - 1]
      /\ UNCHANGED <<gateVars, workerVars, appVars, tls>>
  BY DEF LeaveFrame, At
<1>2. IdleFrame \in Frame
  BY DEF IdleFrame, Frame, FramePc, Phase
<1>3. /\ depth[t] \in Depths /\ Top(t) = frame[t][depth[t]] /\ ~Top(t).app
      /\ depth[t] \in Nat /\ depth'[t] = depth[t] - 1
  BY <1>1, TopFacts DEF FrameShape, Top, IInv, TypeOK, Depths
<1>4. /\ frame' \in [Threads -> [Depths -> Frame]]
      /\ frame'[t][depth[t]] = IdleFrame
      /\ \A u \in Threads, e \in Depths :
           u # t \/ e # depth[t] => frame'[u][e] = frame[u][e]
  BY <1>1, <1>2, BecomesFacts DEF IInv
<1>5. FrameShape(IdleFrame) /\ IdleFrame.pc = "Idle" /\ ~IdleFrame.app
  BY DEF FrameShape, IdleFrame, Early, Driving, Publishing, NotCalled, Called
<1>6. TypeOK'
  <2>1. depth' \in [Threads -> 0..MaxDepth]
    BY <1>1, <1>3 DEF IInv, TypeOK, Depths
  <2>2. QED
    BY <1>1, <1>4, <2>1 DEF IInv, TypeOK, gateVars, workerVars, appVars
<1>7. StackShape'
  <2>1. SUFFICES ASSUME NEW u \in Threads, NEW e \in Depths
                 PROVE  /\ FrameShape(frame'[u][e])
                        /\ frame'[u][e].pc = "Idle" <=> e > depth'[u]
                        /\ e < depth'[u] => frame'[u][e].pc \in {"Driver", "InOriginal"}
    BY DEF StackShape, FrameShape
  <2>2. CASE u # t
    BY <1>1, <1>4, <2>2 DEF IInv, StackShape, TypeOK
  <2>3. CASE u = t /\ e = depth[t]
    BY <1>3, <1>4, <1>5, <2>3
  <2>4. CASE u = t /\ e # depth[t]
    BY <1>3, <1>4, <2>4 DEF IInv, StackShape, Depths
  <2>5. QED
    BY <2>2, <2>3, <2>4
<1>8. MainOnly'
  BY <1>1, <1>2, <1>5, MainOnlyStep DEF IInv
<1>9. WorkerShape'
  BY <1>1 DEF IInv, WorkerShape, workerVars, appVars
<1>10. GateShape'
  BY <1>1, <1>2, <1>5, GateUnchanged, GateShapeStep DEF IInv, appVars, gateVars
<1>11. Ownership'
  <2>1. IdleFrame.app = Top(t).app
    BY <1>1, <1>2, <1>3, <1>5, TopFacts DEF Frame
  <2>2. QED
    BY <1>1, <1>2, <2>1, QuietFrameStep DEF IInv, workerVars, appVars
<1>12. QED
  BY <1>6, <1>7, <1>8, <1>9, <1>10, <1>11 DEF IInv

-----------------------------------------------------------------------------
(* The steps that move the App.                                             *)

(* All of the invariant but Ownership.                                      *)
LEMMA MoveStep ==
  ASSUME IInv, NEW t \in Threads, depth[t] > 0,
         NEW f \in Frame, Becomes(t, f), depth' = depth,
         UNCHANGED <<gateVars, workerVars, startup>>,
         handoff' \in {"empty", "locked", "full"}, lost' \in {"no", "leaked", "dropped"},
         tls' \in [Threads -> AppSlot], lost' = "dropped" <=> lost = "dropped",
         FrameShape(f), f.pc \in {"Original", "Driver", "Done"},
         f.app => t = Main,
         Ownership'
  PROVE  IInv'
<1>1. TypeOK'
  BY BecomesFacts DEF IInv, TypeOK, gateVars, workerVars
<1>2. StackShape'
  BY StackStep DEF IInv
<1>3. MainOnly'
  BY MainOnlyStep DEF IInv
<1>4. WorkerShape'
  BY DEF IInv, WorkerShape, workerVars
<1>5. GateShape'
  BY GateUnchanged, GateShapeStep DEF IInv, gateVars
<1>6. QED
  BY <1>1, <1>2, <1>3, <1>4, <1>5 DEF IInv

(* Who can claim is alone with the App, and TakeApp leaves it with nobody   *)
(* else.                                                                    *)
LEMMA TakeFacts ==
  ASSUME IInv, NEW t \in Threads, NEW s \in AppSlot, CanClaim(t), TakeApp(t, s)
  PROVE  /\ ~InWorker /\ ~Lost /\ tls[t] # "Busy"
         /\ handoff' \in {"empty", "locked", "full"} /\ handoff' # "full"
         /\ tls' \in [Threads -> AppSlot] /\ tls'[t] = s
         /\ \A u \in Threads : u # t => tls'[u] = tls[u] /\ ~InTls(u)
         /\ \A u \in Threads, e \in Depths : ~InFrame(u, e)
BY DEF IInv, TypeOK, Ownership, AppNotShared, CanClaim, TakeApp, InTls, InHandoff,
       InFrame, InWorker, Lost

(* Retiring the App moves it to the slot for good.                          *)
LEMMA ClaimExitIInv ==
  ASSUME IInv, NEW t \in Threads, ClaimExit(t)
  PROVE  IInv'
<1> DEFINE g == [Top(t) EXCEPT !.pc = "Original"]
<1>1. depth[t] > 0 /\ Top(t).pc = "ClaimExit" /\ Becomes(t, g)
  BY DEF ClaimExit, At, Goto
<1>2. /\ UNCHANGED <<gateVars, workerVars, startup, lost>> /\ depth' = depth
      /\ IF CanClaim(t) THEN TakeApp(t, "Exited") ELSE UNCHANGED <<tls, handoff>>
  BY DEF ClaimExit
<1>3. Top(t) \in Frame /\ FrameShape(Top(t)) /\ (Top(t).app => t = Main)
  BY <1>1, TopFacts
<1>4. g \in Frame /\ FrameShape(g) /\ g.pc = "Original" /\ g.app = Top(t).app
  BY <1>1, <1>3 DEF Frame, FramePc, FrameShape, Early, Driving, Publishing,
                    NotCalled, Called
<1>5. CASE ~CanClaim(t)
  <2>1. Ownership'
    BY <1>1, <1>2, <1>4, <1>5, QuietFrameStep DEF IInv, workerVars
  <2>2. QED
    BY <1>1, <1>2, <1>3, <1>4, <1>5, <2>1, MoveStep DEF IInv, TypeOK
<1>6. CASE CanClaim(t)
  <2>1. "Exited" \in AppSlot
    BY DEF AppSlot
  <2>2. /\ ~InWorker /\ ~Lost /\ tls[t] # "Busy"
        /\ handoff' \in {"empty", "locked", "full"} /\ handoff' # "full"
        /\ tls' \in [Threads -> AppSlot] /\ tls'[t] = "Exited"
        /\ \A u \in Threads : u # t => tls'[u] = tls[u] /\ ~InTls(u)
        /\ \A u \in Threads, e \in Depths : ~InFrame(u, e)
    BY <1>2, <1>6, <2>1, TakeFacts
  <2>3. frame'[t][depth[t]].app = frame[t][depth[t]].app
    BY <1>1, <1>4, BecomesFacts DEF IInv, Top
  <2>4. \A u \in Threads, e \in Depths : ~InFrame(u, e)'
    BY <1>1, <1>4, <2>2, <2>3, BecomesFacts DEF IInv, InFrame
  <2>5. \A u \in Threads : InTls(u)' <=> u = t
    BY <2>2 DEF InTls
  <2>6. ~InWorker' /\ ~InHandoff' /\ ~Lost' /\ lost' = lost
    BY <1>2, <2>2 DEF InWorker, InHandoff, Lost, workerVars
  <2>7. \A u \in Threads : tls'[u] # "Busy"
    BY <2>2 DEF IInv, Ownership, BusyIffInFlight, Lost
  <2>8. Ownership'
    <3>1. AppNotShared'
      BY <2>4, <2>5, <2>6 DEF AppNotShared
    <3>2. AppHeld'
      BY <2>5 DEF AppHeld
    <3>3. BusyIffInFlight'
      BY <2>4, <2>6, <2>7 DEF BusyIffInFlight, Lost
    <3>4. QED
      BY <3>1, <3>2, <3>3 DEF Ownership
  <2>9. QED
    BY <1>1, <1>2, <1>3, <1>4, <2>2, <2>8, MoveStep DEF IInv, TypeOK
<1>7. QED
  BY <1>5, <1>6

(* Step 3 moves the App to the frame of the main thread, or nowhere.        *)
LEMMA ClaimIInv ==
  ASSUME IInv, NEW t \in Threads, Claim(t)
  PROVE  IInv'
<1>1. /\ depth[t] > 0 /\ Top(t).pc = "Claim"
      /\ UNCHANGED <<gateVars, workerVars, startup, lost>> /\ depth' = depth
  BY DEF Claim, At
<1>2. Top(t) \in Frame /\ FrameShape(Top(t)) /\ t = Main
  BY <1>1, TopFacts
<1>3. CASE ~CanClaim(t)
  <2> DEFINE g == [Top(t) EXCEPT !.pc = "Original"]
  <2>1. Becomes(t, g) /\ UNCHANGED <<tls, handoff>>
    BY <1>3 DEF Claim, Goto
  <2>2. g \in Frame /\ FrameShape(g) /\ g.pc = "Original" /\ g.app = Top(t).app
    BY <1>1, <1>2 DEF Frame, FramePc, FrameShape, Early, Driving, Publishing,
                      NotCalled, Called
  <2>3. Ownership'
    BY <1>1, <2>1, <2>2, QuietFrameStep DEF IInv, workerVars
  <2>4. QED
    BY <1>1, <1>2, <2>1, <2>2, <2>3, MoveStep DEF IInv, TypeOK
<1>4. CASE CanClaim(t)
  <2> DEFINE g == [Top(t) EXCEPT !.app = TRUE, !.pc = "Driver"]
  <2>1. Becomes(t, g) /\ TakeApp(t, "Busy") /\ "Busy" \in AppSlot
    BY <1>4 DEF Claim, AppSlot
  <2>2. g \in Frame /\ FrameShape(g) /\ g.pc = "Driver" /\ g.app
    BY <1>1, <1>2 DEF Frame, FramePc, FrameShape, Early, Driving, Publishing,
                      NotCalled, Called
  <2> HIDE DEF g
  <2>3. /\ ~InWorker /\ ~Lost /\ tls[t] # "Busy"
        /\ handoff' \in {"empty", "locked", "full"} /\ handoff' # "full"
        /\ tls' \in [Threads -> AppSlot] /\ tls'[t] = "Busy"
        /\ \A u \in Threads : u # t => tls'[u] = tls[u] /\ ~InTls(u)
        /\ \A u \in Threads, e \in Depths : ~InFrame(u, e)
    BY <1>4, <2>1, TakeFacts
  <2>4. depth[t] \in Depths
    BY <1>1, TopFacts
  <2>5. \A u \in Threads, e \in Depths : InFrame(u, e)' <=> u = t /\ e = depth[t]
    BY <1>1, <2>1, <2>2, <2>3, InFrameStep DEF IInv
  <2>6. \A u \in Threads : ~InTls(u)'
    BY <2>3 DEF InTls
  <2>7. ~InWorker' /\ ~InHandoff' /\ ~Lost' /\ lost' = lost
    BY <1>1, <2>3 DEF InWorker, InHandoff, Lost, workerVars
  <2>8. \A u \in Threads : tls'[u] = "Busy" <=> u = t
    BY <2>3 DEF IInv, Ownership, BusyIffInFlight, Lost
  <2>9. Ownership'
    <3>1. AppNotShared'
      BY <2>5, <2>6, <2>7 DEF AppNotShared
    <3>2. AppHeld'
      BY <2>4, <2>5 DEF AppHeld
    <3>3. BusyIffInFlight'
      BY <2>4, <2>5, <2>7, <2>8 DEF BusyIffInFlight, Lost
    <3>4. QED
      BY <3>1, <3>2, <3>3 DEF Ownership
  <2>10. QED
    BY <1>1, <1>2, <2>1, <2>2, <2>3, <2>9, MoveStep DEF IInv, TypeOK
<1>5. QED
  BY <1>3, <1>4

(* The frame that holds the App is alone with it, and its slot is Busy.     *)
LEMMA HolderFacts ==
  ASSUME IInv, NEW t \in Threads, depth[t] > 0, Top(t).app
  PROVE  /\ t = Main /\ tls[t] = "Busy" /\ ~InWorker /\ ~InHandoff /\ ~Lost
         /\ \A u \in Threads : ~InTls(u) /\ (tls[u] = "Busy" <=> u = t)
         /\ \A u \in Threads, e \in Depths : InFrame(u, e) <=> u = t /\ e = depth[t]
<1>1. depth[t] \in Depths /\ t = Main /\ InFrame(t, depth[t])
  BY TopFacts DEF InFrame, Top
<1>2. /\ ~InWorker /\ ~InHandoff /\ ~Lost /\ \A u \in Threads : ~InTls(u)
      /\ \A u \in Threads, e \in Depths : InFrame(u, e) => u = t /\ e = depth[t]
  BY <1>1 DEF IInv, Ownership, AppNotShared
<1>3. \A u \in Threads : tls[u] = "Busy" <=> u = t
  BY <1>1, <1>2 DEF IInv, Ownership, BusyIffInFlight, Lost
<1>4. QED
  BY <1>1, <1>2, <1>3

(* Commit puts the App back; since the slot is Busy it never leaks it.      *)
LEMMA CommitIInv ==
  ASSUME IInv, NEW t \in Threads, Commit(t)
  PROVE  IInv'
<1> DEFINE g == [Top(t) EXCEPT !.app = FALSE, !.pc = "Done"]
<1>1. /\ depth[t] > 0 /\ Top(t).pc = "Commit" /\ Becomes(t, g) /\ depth' = depth
      /\ UNCHANGED <<gateVars, workerVars, handoff, startup>>
  BY DEF Commit, At
<1>2. Top(t) \in Frame /\ FrameShape(Top(t)) /\ Top(t).app
  BY <1>1, TopFacts DEF FrameShape
<1>3. g \in Frame /\ FrameShape(g) /\ g.pc = "Done" /\ ~g.app
  BY <1>1, <1>2 DEF Frame, FramePc, FrameShape, Early, Driving, Publishing,
                    NotCalled, Called
<1> HIDE DEF g
<1>4. /\ t = Main /\ tls[t] = "Busy" /\ ~InWorker /\ ~InHandoff /\ ~Lost
      /\ \A u \in Threads : ~InTls(u) /\ (tls[u] = "Busy" <=> u = t)
      /\ \A u \in Threads, e \in Depths : InFrame(u, e) <=> u = t /\ e = depth[t]
  BY <1>1, <1>2, HolderFacts
<1>5. /\ lost' = lost /\ tls' = [tls EXCEPT ![t] = IF failed THEN "Exited" ELSE "Running"]
  BY <1>4 DEF Commit, IInv, TypeOK
<1>6. /\ tls' \in [Threads -> AppSlot] /\ tls'[t] \in {"Exited", "Running"}
      /\ \A u \in Threads : u # t => tls'[u] = tls[u]
  BY <1>5 DEF IInv, TypeOK, AppSlot
<1>7. \A u \in Threads, e \in Depths : ~InFrame(u, e)'
  BY <1>1, <1>3, <1>4, InFrameStep DEF IInv
<1>8. \A u \in Threads : (InTls(u)' <=> u = t) /\ tls'[u] # "Busy"
  BY <1>4, <1>6 DEF InTls
<1>9. ~InWorker' /\ ~InHandoff' /\ ~Lost'
  BY <1>1, <1>4, <1>5 DEF InWorker, InHandoff, Lost, workerVars
<1>10. Ownership'
  <2>1. AppNotShared'
    BY <1>7, <1>8, <1>9 DEF AppNotShared
  <2>2. AppHeld'
    BY <1>8 DEF AppHeld
  <2>3. BusyIffInFlight'
    BY <1>7, <1>8, <1>9 DEF BusyIffInFlight, Lost
  <2>4. QED
    BY <2>1, <2>2, <2>3 DEF Ownership
<1>11. QED
  BY <1>1, <1>3, <1>5, <1>6, <1>10, MoveStep DEF IInv, TypeOK

(* The Drop of an unwound frame leaks the App behind its Busy slot.         *)
LEMMA ForgetIInv ==
  ASSUME IInv, NEW t \in Threads, Forget(t)
  PROVE  IInv'
<1> DEFINE g == [Top(t) EXCEPT !.app = FALSE, !.pc = "Done"]
<1>1. /\ depth[t] > 0 /\ Top(t).pc = "Forget" /\ Becomes(t, g) /\ depth' = depth
      /\ UNCHANGED <<gateVars, workerVars, handoff, startup, tls>> /\ lost' = "leaked"
  BY DEF Forget, At
<1>2. Top(t) \in Frame /\ FrameShape(Top(t)) /\ Top(t).app
  BY <1>1, TopFacts DEF FrameShape
<1>3. g \in Frame /\ FrameShape(g) /\ g.pc = "Done" /\ ~g.app
  BY <1>1, <1>2 DEF Frame, FramePc, FrameShape, Early, Driving, Publishing,
                    NotCalled, Called
<1> HIDE DEF g
<1>4. /\ t = Main /\ tls[t] = "Busy" /\ ~InWorker /\ ~InHandoff /\ ~Lost
      /\ \A u \in Threads : ~InTls(u) /\ (tls[u] = "Busy" <=> u = t)
      /\ \A u \in Threads, e \in Depths : InFrame(u, e) <=> u = t /\ e = depth[t]
  BY <1>1, <1>2, HolderFacts
<1>5. \A u \in Threads, e \in Depths : ~InFrame(u, e)'
  BY <1>1, <1>3, <1>4, InFrameStep DEF IInv
<1>6. \A u \in Threads : ~InTls(u)' /\ (tls'[u] = "Busy" <=> u = t)
  BY <1>1, <1>4 DEF InTls
<1>7. ~InWorker' /\ ~InHandoff' /\ Lost'
  BY <1>1, <1>4 DEF InWorker, InHandoff, Lost, workerVars
<1>8. Ownership'
  <2>1. AppNotShared'
    BY <1>5, <1>6, <1>7 DEF AppNotShared
  <2>2. AppHeld'
    BY <1>7 DEF AppHeld
  <2>3. BusyIffInFlight'
    BY <1>1, <1>4, <1>5, <1>6 DEF BusyIffInFlight
  <2>4. QED
    BY <2>1, <2>2, <2>3 DEF Ownership
<1>9. QED
  BY <1>1, <1>3, <1>4, <1>8, MoveStep DEF IInv, TypeOK, Lost

-----------------------------------------------------------------------------
(* The theorems.                                                            *)

(* IInv is inductive.                                                       *)
LEMMA NextIInv == IInv /\ [Next]_vars => IInv'
<1>1. SUFFICES ASSUME IInv, [Next]_vars PROVE IInv'
  OBVIOUS
<1>2. CASE Worker
  BY <1>1, <1>2, WorkerIInv
<1>3. ASSUME NEW t \in Threads, EnterFrame(t) \/ OwnStep(t) \/ CalleeEnds(t)
      PROVE  IInv'
  BY <1>1, <1>3, EnterIInv, LocalSteps, GateSteps, MarkTlsIInv, ClaimExitIInv,
     ClaimIInv, CommitIInv, ForgetIInv, LeaveIInv DEF OwnStep, CalleeEnds
<1>4. CASE UNCHANGED vars
  BY <1>1, <1>4 DEF vars, gateVars, workerVars, appVars, stackVars, IInv, TypeOK,
     StackShape, FrameShape, MainOnly, WorkerShape, GateShape, FailedIsFinal,
     GateClosedDuringStartup, Ownership, AppNotShared, AppHeld, BusyIffInFlight,
     InWorker, InHandoff, InTls, InFrame, Lost
<1>5. QED
  BY <1>1, <1>2, <1>3, <1>4 DEF Next

(* The inductive invariant holds in every reachable state.                  *)
THEOREM Invariant == Spec => []IInv
<1>1. Init => IInv
  BY InitIInv
<1>2. IInv /\ [Next]_vars => IInv'
  BY NextIInv
<1>3. QED
  BY <1>1, <1>2, PTL DEF Spec

(* Every variable of the scheduler keeps its type, whatever the number of   *)
(* threads and the nesting.                                                 *)
THEOREM TypeCorrect == Spec => []TypeOK
<1>1. IInv => TypeOK
  BY DEF IInv
<1>2. QED
  BY <1>1, Invariant, PTL

(* The one App is never in two places, in particular not on two stacks.     *)
THEOREM AppNeverShared == Spec => []AppNotShared
<1>1. IInv => AppNotShared
  BY DEF IInv, Ownership
<1>2. QED
  BY <1>1, Invariant, PTL

(* The App is never mislaid, and its slot is Busy exactly while a frame     *)
(* holds it (or for good, once leaked).                                     *)
THEOREM AppNeverMislaid == Spec => []AppHeld /\ []BusyIffInFlight
<1>1. IInv => AppHeld /\ BusyIffInFlight
  BY DEF IInv, Ownership
<1>2. QED
  BY <1>1, Invariant, PTL

(* The original is called exactly once in every frame that returns.         *)
THEOREM OriginalOnce == Spec => []OriginalExactlyOnce
<1>1. IInv => OriginalExactlyOnce
  <2>1. SUFFICES ASSUME IInv, NEW t \in Threads, NEW d \in Depths
                 PROVE  /\ frame[t][d].calls <= 1
                        /\ frame[t][d].pc = "Done" => frame[t][d].calls = 1
    BY DEF OriginalExactlyOnce
  <2>2. FrameShape(frame[t][d]) /\ frame[t][d].pc \in FramePc
    BY <2>1 DEF IInv, StackShape, TypeOK, Frame
  <2>3. frame[t][d].calls \in {0, 1}
    BY <2>2 DEF FrameShape, FramePc, Early, Driving, Publishing, NotCalled, Called,
                IdleFrame
  <2>4. QED
    BY <2>2, <2>3 DEF FrameShape
<1>2. QED
  BY <1>1, Invariant, PTL

(* Drivers run on the main thread only, and never nested in one another.    *)
THEOREM DriversAreExclusive == Spec => []DriverExclusive
<1>1. IInv => DriverExclusive
  <2>1. SUFFICES ASSUME IInv, NEW t \in Threads, NEW d \in Depths,
                        frame[t][d].pc = "Driver"
                 PROVE  /\ t = Main /\ frame[t][d].app
                        /\ \A e \in Depths : frame[t][e].pc = "Driver" => e = d
    BY DEF DriverExclusive
  <2>2. \A e \in Depths : frame[t][e].pc = "Driver" => InFrame(t, e)
    BY <2>1 DEF IInv, StackShape, FrameShape, Driving, InFrame
  <2>3. QED
    BY <2>1, <2>2 DEF IInv, MainOnly, Ownership, AppNotShared, InFrame
<1>2. QED
  BY <1>1, Invariant, PTL

(* The gate's flag is clear until Startup has run, and a published failure  *)
(* is behind a control word that nobody reopens.                            *)
THEOREM GateOrder == Spec => []GateClosedDuringStartup /\ []FailedIsFinal
<1>1. IInv => GateClosedDuringStartup /\ FailedIsFinal
  BY DEF IInv, GateShape
<1>2. QED
  BY <1>1, Invariant, PTL

-----------------------------------------------------------------------------
(* The refinement.                                                          *)

(* What the program counters say of the abstract steps to come: who retires *)
(* the App has seen the gate closed for good, and who puts it back has      *)
(* driven it to the end.                                                    *)
StageShape ==
  /\ worker = "Clear" => control = "failed"
  /\ \A t \in Threads, d \in Depths :
       /\ frame[t][d].pc = "ClaimExit" => failed
       /\ frame[t][d].pc = "Forget" => control = "failed"
       /\ /\ frame[t][d].app /\ ~frame[t][d].unwound
          /\ frame[t][d].pc \in {"Original", "InOriginal", "Commit"}
          => startup

(* What a step of a frame has to respect of it.                             *)
LEMMA StageStep ==
  ASSUME IInv, StageShape, NEW t \in Threads, depth[t] > 0,
         NEW f \in Frame, Becomes(t, f), UNCHANGED worker,
         failed => failed', control = "failed" => control' = "failed", startup => startup',
         f.pc = "ClaimExit" => failed', f.pc = "Forget" => control' = "failed",
         f.app /\ ~f.unwound /\ f.pc \in {"Original", "InOriginal", "Commit"} => startup'
  PROVE  StageShape'
<1>1. /\ frame'[t][depth[t]] = f
      /\ \A u \in Threads, e \in Depths :
           u # t \/ e # depth[t] => frame'[u][e] = frame[u][e]
  BY BecomesFacts DEF IInv
<1>2. QED
  BY <1>1 DEF StageShape

(* Where the App is, if nobody moves it.                                    *)
LEMMA StageKept ==
  ASSUME UNCHANGED <<worker, handoff>>,
         \A u \in Threads : tls'[u] = "Running" <=> tls[u] = "Running",
         \A u \in Threads, e \in Depths : InFrame(u, e)' <=> InFrame(u, e)
  PROVE  AppStage' = AppStage
BY DEF AppStage, InWorker, InHandoff

(* The steps of a frame that leave the App where it is.                     *)
LEMMA FrameMoves ==
  ASSUME IInv, StageShape, NEW t \in Threads,
         \/ CheckFailed(t) \/ CheckThread(t) \/ DriverReturns(t) \/ DriverPanics(t)
         \/ GateOpen(t) \/ GateStore(t)
         \/ PublishClose(t) \/ PublishClear(t) \/ PublishFailed(t)
         \/ MarkTls(t) \/ CallOriginal(t) \/ OriginalReturns(t)
  PROVE  StageShape' /\ AppStage' = AppStage
<1>1. depth[t] > 0
  BY DEF CheckFailed, CheckThread, DriverReturns, DriverPanics, GateOpen, GateStore, PublishClose,
         PublishClear, PublishFailed, MarkTls, CallOriginal, OriginalReturns, At
<1>2. /\ depth[t] \in Depths /\ Top(t) \in Frame /\ FrameShape(Top(t))
      /\ Top(t).pc \in {"PublishClear", "PublishFailed"} => control = "failed"
      /\ Top(t).pc \in {"GateOpen", "GateStore"} => startup
  BY <1>1, TopFacts
<1>3. /\ Top(t).app /\ ~Top(t).unwound /\ Top(t).pc \in {"Original", "InOriginal"} => startup
  BY <1>2 DEF StageShape, Top
<1>4. /\ UNCHANGED <<worker, handoff>> /\ (startup => startup') /\ (failed => failed')
      /\ control = "failed" => control' = "failed"
  BY DEF CheckFailed, CheckThread, DriverReturns, DriverPanics, GateOpen, GateStore, PublishClose,
         PublishClear, PublishFailed, MarkTls, CallOriginal, OriginalReturns, gateVars, workerVars,
         appVars
<1>5. \A u \in Threads : tls'[u] = "Running" <=> tls[u] = "Running"
  BY DEF CheckFailed, CheckThread, DriverReturns, DriverPanics, GateOpen, GateStore, PublishClose,
         PublishClear, PublishFailed, MarkTls, CallOriginal, OriginalReturns, IInv, TypeOK
<1>6. \E g \in Frame :
        /\ Becomes(t, g) /\ g.app = Top(t).app
        /\ g.pc = "ClaimExit" => failed'
        /\ g.pc = "Forget" => control' = "failed"
        /\ g.app /\ ~g.unwound /\ g.pc \in {"Original", "InOriginal", "Commit"} => startup'
  <2> USE DEF Goto, At, Frame, FramePc, Phase
  <2>1. CASE CheckFailed(t)
    <3> DEFINE g == [Top(t) EXCEPT !.pc = IF failed THEN "ClaimExit" ELSE "CheckThread"]
    <3>1. Becomes(t, g) /\ UNCHANGED failed
      BY <2>1 DEF CheckFailed, gateVars
    <3>2. g \in Frame /\ g.app = Top(t).app /\ g.pc = IF failed THEN "ClaimExit" ELSE "CheckThread"
      BY <1>2
    <3>3. QED
      BY <3>1, <3>2
  <2>2. CASE CheckThread(t)
    <3> DEFINE g == [Top(t) EXCEPT !.pc = IF t = Main THEN "Claim" ELSE "PublishClose"]
    <3>1. Becomes(t, g)
      BY <2>2 DEF CheckThread
    <3>2. g \in Frame /\ g.app = Top(t).app /\ g.pc \in {"Claim", "PublishClose"}
      BY <1>2
    <3>3. QED
      BY <3>1, <3>2
  <2>3. CASE DriverReturns(t)
    <3> DEFINE g == [Top(t) EXCEPT !.pc = IF startup THEN "Original" ELSE "GateOpen"]
    <3>1. Becomes(t, g) /\ startup'
      BY <2>3 DEF DriverReturns
    <3>2. g \in Frame /\ g.app = Top(t).app /\ g.pc \in {"Original", "GateOpen"}
      BY <1>2
    <3>3. QED
      BY <3>1, <3>2
  <2>4. CASE DriverPanics(t)
    <3> DEFINE g == [Top(t) EXCEPT !.unwound = TRUE, !.pc = "PublishClose"]
    <3>1. Becomes(t, g)
      BY <2>4 DEF DriverPanics
    <3>2. g \in Frame /\ g.app = Top(t).app /\ g.pc = "PublishClose"
      BY <1>2
    <3>3. QED
      BY <3>1, <3>2
  <2>5. CASE GateOpen(t)
    <3> DEFINE g == [Top(t) EXCEPT !.pc = IF control = "closed" THEN "GateStore" ELSE "Original"]
    <3>1. Becomes(t, g) /\ startup
      BY <1>2, <2>5 DEF GateOpen
    <3>2. g \in Frame /\ g.app = Top(t).app /\ g.pc \in {"GateStore", "Original"}
      BY <1>2
    <3>3. QED
      BY <1>4, <3>1, <3>2
  <2>6. CASE GateStore(t)
    <3> DEFINE g == [Top(t) EXCEPT !.pc = "Original"]
    <3>1. Becomes(t, g) /\ startup
      BY <1>2, <2>6 DEF GateStore
    <3>2. g \in Frame /\ g.app = Top(t).app /\ g.pc = "Original"
      BY <1>2
    <3>3. QED
      BY <1>4, <3>1, <3>2
  <2>7. CASE PublishClose(t)
    <3> DEFINE g == [Top(t) EXCEPT !.pc = "PublishClear"]
    <3>1. Becomes(t, g)
      BY <2>7 DEF PublishClose
    <3>2. g \in Frame /\ g.app = Top(t).app /\ g.pc = "PublishClear"
      BY <1>2
    <3>3. QED
      BY <3>1, <3>2
  <2>8. CASE PublishClear(t)
    <3> DEFINE g == [Top(t) EXCEPT !.pc = "PublishFailed"]
    <3>1. Becomes(t, g)
      BY <2>8 DEF PublishClear
    <3>2. g \in Frame /\ g.app = Top(t).app /\ g.pc = "PublishFailed"
      BY <1>2
    <3>3. QED
      BY <3>1, <3>2
  <2>9. CASE PublishFailed(t)
    <3> DEFINE g == [Top(t) EXCEPT !.pc = AfterPublish(Top(t))]
    <3>1. Becomes(t, g) /\ control' = "failed" /\ Top(t).pc = "PublishFailed"
      BY <1>2, <1>4, <2>9 DEF PublishFailed
    <3>2. /\ g \in Frame /\ g.app = Top(t).app /\ g.unwound = Top(t).unwound
          /\ g.pc \in {"MarkTls", "Original", "Forget"}
          /\ g.pc = "Original" => g.unwound
      BY <1>2 DEF AfterPublish
    <3>3. QED
      BY <3>1, <3>2
  <2>10. CASE MarkTls(t)
    <3> DEFINE g == [Top(t) EXCEPT !.pc = "Original"]
    <3>1. Becomes(t, g) /\ Top(t).pc = "MarkTls"
      BY <2>10 DEF MarkTls
    <3>2. g \in Frame /\ g.app = Top(t).app /\ g.pc = "Original"
      BY <1>2
    <3>3. ~Top(t).app
      BY <1>2, <3>1 DEF FrameShape, Early
    <3>4. QED
      BY <3>1, <3>2, <3>3
  <2>11. CASE CallOriginal(t)
    <3> DEFINE g == [Top(t) EXCEPT !.phase = "Calling", !.pc = "InOriginal", !.calls = 1]
    <3>1. Top(t).calls = 0 /\ Top(t).pc = "Original" /\ startup' = startup
      BY <1>2, <2>11 DEF CallOriginal, appVars, FrameShape, NotCalled
    <3>2. Becomes(t, g)
      BY <2>11, <3>1 DEF CallOriginal
    <3>3. g \in Frame
      <4>1. \A n \in 0..2 : [Top(t) EXCEPT !.phase = "Calling", !.pc = "InOriginal",
                                          !.calls = n] \in Frame
        BY <1>2
      <4>2. QED
        BY <4>1
    <3>4. g.app = Top(t).app /\ g.unwound = Top(t).unwound /\ g.pc = "InOriginal"
      BY <1>2
    <3>5. QED
      BY <1>3, <3>1, <3>2, <3>3, <3>4
  <2>12. CASE OriginalReturns(t)
    <3> DEFINE g == [Top(t) EXCEPT !.phase = "After", !.pc = AfterOriginal(Top(t))]
    <3>1. Becomes(t, g) /\ Top(t).pc = "InOriginal" /\ startup' = startup
      BY <2>12 DEF OriginalReturns, appVars
    <3>2. /\ g \in Frame /\ g.app = Top(t).app /\ g.unwound = Top(t).unwound
          /\ g.pc \in {"Done", "PublishClose", "Commit"}
      BY <1>2 DEF AfterOriginal
    <3>3. QED
      BY <1>3, <3>1, <3>2
  <2>13. QED
    BY <2>1, <2>2, <2>3, <2>4, <2>5, <2>6, <2>7, <2>8, <2>9, <2>10, <2>11, <2>12
<1>7. PICK g \in Frame :
        /\ Becomes(t, g) /\ g.app = Top(t).app
        /\ g.pc = "ClaimExit" => failed'
        /\ g.pc = "Forget" => control' = "failed"
        /\ g.app /\ ~g.unwound /\ g.pc \in {"Original", "InOriginal", "Commit"} => startup'
  BY <1>6
<1>8. StageShape'
  BY <1>1, <1>4, <1>7, StageStep
<1>9. \A u \in Threads, e \in Depths : InFrame(u, e)' <=> InFrame(u, e)
  BY <1>1, <1>7, BecomesFacts DEF IInv, InFrame, Top
<1>10. AppStage' = AppStage
  BY <1>4, <1>5, <1>9, StageKept
<1>11. QED
  BY <1>8, <1>10

(* After a failure the App is claimed to be retired.                        *)
LEMMA ClaimExitRefines ==
  ASSUME IInv, StageShape, NEW t \in Threads, ClaimExit(t)
  PROVE  StageShape' /\ (AppStage' = AppStage \/ Lifecycle!Retire)
<1> DEFINE g == [Top(t) EXCEPT !.pc = "Original"]
<1>1. /\ depth[t] > 0 /\ Top(t).pc = "ClaimExit" /\ Becomes(t, g)
      /\ UNCHANGED <<gateVars, workerVars, startup, lost>>
      /\ IF CanClaim(t) THEN TakeApp(t, "Exited") ELSE UNCHANGED <<tls, handoff>>
  BY DEF ClaimExit, At, Goto
<1>2. Top(t) \in Frame /\ FrameShape(Top(t)) /\ depth[t] \in Depths
  BY <1>1, TopFacts
<1>3. g \in Frame /\ g.pc = "Original" /\ ~g.app /\ ~Top(t).app
  BY <1>1, <1>2 DEF Frame, FramePc, FrameShape, Early
<1> HIDE DEF g
<1>4. failed /\ control = "failed"
  BY <1>1, <1>2 DEF StageShape, Top, IInv, GateShape, FailedIsFinal
<1>5. UNCHANGED <<control, failed, startup, worker>>
  BY <1>1 DEF gateVars, workerVars
<1>6. StageShape'
  BY <1>1, <1>3, <1>5, StageStep
<1>7. \A u \in Threads, e \in Depths : InFrame(u, e)' <=> InFrame(u, e)
  BY <1>1, <1>3, BecomesFacts DEF IInv, InFrame, Top
<1>8. CASE ~CanClaim(t)
  BY <1>1, <1>5, <1>6, <1>7, <1>8, StageKept
<1>9. CASE CanClaim(t)
  <2>1. TakeApp(t, "Exited") /\ "Exited" \in AppSlot
    BY <1>1, <1>9 DEF AppSlot
  <2>2. /\ ~InWorker /\ handoff' # "full" /\ tls'[t] = "Exited"
        /\ \A u \in Threads : u # t => tls'[u] = tls[u] /\ ~InTls(u)
        /\ \A u \in Threads, e \in Depths : ~InFrame(u, e)
    BY <1>9, <2>1, TakeFacts
  <2>3. AppStage # "retired"
    BY <1>9, <2>2 DEF AppStage, CanClaim, InHandoff
  <2>4. AppStage' = "retired"
    <3>1. ~InWorker' /\ ~InHandoff'
      BY <1>5, <2>2 DEF InWorker, InHandoff
    <3>2. \A u \in Threads : tls'[u] # "Running"
      BY <2>2 DEF InTls
    <3>3. \A u \in Threads, e \in Depths : ~InFrame(u, e)'
      BY <1>7, <2>2
    <3>4. QED
      BY <3>1, <3>2, <3>3 DEF AppStage
  <2>5. QED
    BY <1>4, <1>5, <1>6, <2>3, <2>4 DEF Lifecycle!Retire
<1>10. QED
  BY <1>8, <1>9

(* Step 3 takes it to be driven.                                            *)
LEMMA ClaimRefines ==
  ASSUME IInv, StageShape, NEW t \in Threads, Claim(t)
  PROVE  StageShape' /\ (AppStage' = AppStage \/ Lifecycle!Take)
<1>1. /\ depth[t] > 0 /\ Top(t).pc = "Claim"
      /\ UNCHANGED <<control, failed, startup, worker>>
  BY DEF Claim, At, gateVars, workerVars
<1>2. Top(t) \in Frame /\ FrameShape(Top(t)) /\ depth[t] \in Depths
  BY <1>1, TopFacts
<1>3. CASE ~CanClaim(t)
  <2> DEFINE g == [Top(t) EXCEPT !.pc = "Original"]
  <2>1. Becomes(t, g) /\ UNCHANGED <<tls, handoff>>
    BY <1>3 DEF Claim, Goto
  <2>2. g \in Frame /\ g.pc = "Original" /\ ~g.app /\ ~Top(t).app
    BY <1>1, <1>2 DEF Frame, FramePc, FrameShape, Early
  <2> HIDE DEF g
  <2>3. StageShape'
    BY <1>1, <2>1, <2>2, StageStep
  <2>4. \A u \in Threads, e \in Depths : InFrame(u, e)' <=> InFrame(u, e)
    BY <1>1, <2>1, <2>2, BecomesFacts DEF IInv, InFrame, Top
  <2>5. QED
    BY <1>1, <2>1, <2>3, <2>4, StageKept
<1>4. CASE CanClaim(t)
  <2> DEFINE g == [Top(t) EXCEPT !.app = TRUE, !.pc = "Driver"]
  <2>1. Becomes(t, g) /\ TakeApp(t, "Busy") /\ "Busy" \in AppSlot
    BY <1>4 DEF Claim, AppSlot
  <2>2. g \in Frame /\ g.pc = "Driver" /\ g.app
    BY <1>1, <1>2 DEF Frame, FramePc
  <2> HIDE DEF g
  <2>3. StageShape'
    BY <1>1, <2>1, <2>2, StageStep
  <2>4. /\ ~InWorker /\ handoff' # "full" /\ \A u \in Threads, e \in Depths : ~InFrame(u, e)
    BY <1>4, <2>1, TakeFacts
  <2>5. AppStage \in {"offered", "resting"}
    BY <1>4, <2>4 DEF AppStage, CanClaim, InHandoff
  <2>6. AppStage' = "driven"
    <3>1. ~InWorker' /\ ~InHandoff'
      BY <1>1, <2>4 DEF InWorker, InHandoff
    <3>2. PICK d \in Depths : d = depth[t]
      BY <1>2
    <3>3. frame'[t][d].app
      BY <1>1, <2>1, <2>2, <3>2, BecomesFacts DEF IInv
    <3>4. QED
      BY <3>1, <3>3 DEF AppStage, InFrame
  <2>7. QED
    BY <1>1, <2>3, <2>5, <2>6 DEF Lifecycle!Take
<1>5. QED
  BY <1>3, <1>4

(* Step 6 lets it rest, or retires it; the Drop leaks it.                   *)
LEMMA GiveBackRefines ==
  ASSUME IInv, StageShape, NEW t \in Threads, Commit(t) \/ Forget(t)
  PROVE  StageShape' /\ (Lifecycle!Rest \/ Lifecycle!Retire)
<1> DEFINE g == [Top(t) EXCEPT !.app = FALSE, !.pc = "Done"]
<1>1. /\ depth[t] > 0 /\ Top(t).pc \in {"Commit", "Forget"} /\ Becomes(t, g)
      /\ UNCHANGED <<control, failed, startup, worker, handoff>>
  BY DEF Commit, Forget, At, gateVars, workerVars
<1>2. Top(t) \in Frame /\ FrameShape(Top(t)) /\ depth[t] \in Depths
  BY <1>1, TopFacts
<1>3. g \in Frame /\ g.pc = "Done" /\ ~g.app /\ Top(t).app
  BY <1>1, <1>2 DEF Frame, FramePc, FrameShape
<1> HIDE DEF g
<1>4. /\ tls[t] = "Busy" /\ ~InWorker /\ ~InHandoff
      /\ \A u \in Threads : ~InTls(u)
      /\ \A u \in Threads, e \in Depths : InFrame(u, e) <=> u = t /\ e = depth[t]
  BY <1>1, <1>3, HolderFacts
<1>5. StageShape'
  BY <1>1, <1>3, StageStep
<1>6. AppStage = "driven" /\ ~InWorker' /\ ~InHandoff'
  BY <1>1, <1>2, <1>4 DEF AppStage, InWorker, InHandoff
<1>7. \A u \in Threads, e \in Depths : ~InFrame(u, e)'
  BY <1>1, <1>3, <1>4, InFrameStep DEF IInv
<1>8. CASE Commit(t) /\ ~failed
  <2>1. startup
    BY <1>2, <1>3, <1>8 DEF Commit, At, StageShape, Top, FrameShape
  <2>2. tls'[t] = "Running"
    BY <1>4, <1>8 DEF Commit, IInv, TypeOK
  <2>3. AppStage' = "resting"
    BY <1>6, <1>7, <2>2 DEF AppStage
  <2>4. QED
    BY <1>1, <1>5, <1>6, <2>1, <2>3 DEF Lifecycle!Rest
<1>9. CASE (Commit(t) /\ failed) \/ Forget(t)
  <2>1. control = "failed"
    BY <1>2, <1>9 DEF Forget, At, StageShape, Top, IInv, GateShape, FailedIsFinal
  <2>2. \A u \in Threads : tls'[u] # "Running"
    BY <1>4, <1>9 DEF Commit, Forget, IInv, TypeOK, InTls
  <2>3. AppStage' = "retired"
    BY <1>6, <1>7, <2>2 DEF AppStage
  <2>4. QED
    BY <1>1, <1>5, <1>6, <2>1, <2>3 DEF Lifecycle!Retire
<1>10. QED
  BY <1>8, <1>9

(* Entering and leaving moves no App: the frame has none.                   *)
LEMMA EnterLeaveStutter ==
  ASSUME IInv, StageShape, NEW t \in Threads, EnterFrame(t) \/ LeaveFrame(t)
  PROVE  StageShape' /\ AppStage' = AppStage
<1>1. UNCHANGED <<control, failed, startup, worker, handoff, tls>>
  BY DEF EnterFrame, LeaveFrame, gateVars, workerVars, appVars
<1>2. CASE LeaveFrame(t)
  <2>1. depth[t] > 0 /\ Top(t).pc = "Done" /\ Becomes(t, IdleFrame)
    BY <1>2 DEF LeaveFrame, At
  <2>2. IdleFrame \in Frame /\ IdleFrame.pc = "Idle" /\ ~IdleFrame.app
    BY DEF IdleFrame, Frame, FramePc, Phase
  <2>3. ~Top(t).app
    BY <2>1, TopFacts DEF FrameShape
  <2>4. StageShape'
    BY <1>1, <2>1, <2>2, StageStep
  <2>5. \A u \in Threads, e \in Depths : InFrame(u, e)' <=> InFrame(u, e)
    BY <2>1, <2>2, <2>3, BecomesFacts DEF IInv, InFrame, Top
  <2>6. QED
    BY <1>1, <2>4, <2>5, StageKept
<1>3. CASE EnterFrame(t)
  <2> DEFINE n == depth[t] + 1
             g == [IdleFrame EXCEPT !.pc = IF published THEN "CheckFailed" ELSE "Done"]
  <2>1. n \in Depths /\ frame' = [frame EXCEPT ![t][n] = g]
    BY <1>3 DEF EnterFrame, IInv, TypeOK, Depths
  <2>2. ~g.app /\ g.pc \in {"CheckFailed", "Done"}
    BY DEF IdleFrame
  <2>3. ~frame[t][n].app
    <3>1. FrameShape(frame[t][n]) /\ frame[t][n].pc = "Idle"
      BY <2>1 DEF IInv, StackShape, TypeOK, Depths
    <3>2. QED
      BY <3>1 DEF FrameShape, IdleFrame
  <2> HIDE DEF g
  <2>4. /\ frame'[t][n] = g
        /\ \A u \in Threads, e \in Depths : u # t \/ e # n => frame'[u][e] = frame[u][e]
    BY <2>1 DEF IInv, TypeOK
  <2> HIDE DEF n
  <2>5. StageShape'
    BY <1>1, <2>2, <2>4 DEF StageShape
  <2>6. \A u \in Threads, e \in Depths : InFrame(u, e)' <=> InFrame(u, e)
    BY <2>2, <2>3, <2>4 DEF InFrame
  <2>7. QED
    BY <1>1, <2>5, <2>6, StageKept
<1>4. QED
  BY <1>2, <1>3

(* The worker offers the App, or drops it behind the gate it has closed.    *)
LEMMA WorkerRefines ==
  ASSUME IInv, StageShape, Worker
  PROVE  StageShape' /\ [Lifecycle!Next]_(Lifecycle!vars)
<1>1. /\ frame' = frame /\ tls' = tls /\ failed' = failed /\ startup' = startup
      /\ control = "failed" => control' = "failed"
  BY
     DEF Worker, PublishContext, InstallCas, Readback, LockHandoff, StoreApp, AbortClose, AbortClear,
         stackVars, gateVars, appVars
<1>2. worker' = "Clear" => control' = "failed"
  BY DEF Worker, PublishContext, InstallCas, Readback, LockHandoff, StoreApp, AbortClose, AbortClear
<1>3. StageShape'
  BY <1>1, <1>2 DEF StageShape
<1>4. \A u \in Threads, e \in Depths : InFrame(u, e)' <=> InFrame(u, e)
  BY <1>1 DEF InFrame
<1>5. InWorker /\ AppStage = "built"
  BY
     DEF Worker, PublishContext, InstallCas, Readback, LockHandoff, StoreApp, AbortClose, AbortClear,
         InWorker, AppStage
<1>6. CASE StoreApp
  <2>1. ~InWorker' /\ InHandoff' /\ control' = control
    BY <1>6 DEF StoreApp, InWorker, InHandoff, gateVars
  <2>2. AppStage' = "offered"
    BY <2>1 DEF AppStage
  <2>3. QED
    BY <1>1, <1>3, <1>5, <2>1, <2>2 DEF Lifecycle!Next, Lifecycle!Offer
<1>7. CASE AbortClear
  <2>1. ~InWorker' /\ control = "failed" /\ control' = control /\ handoff' = handoff
    BY <1>7 DEF AbortClear, InWorker, StageShape
  <2>2. /\ ~InHandoff' /\ \A u \in Threads : tls'[u] # "Running"
        /\ \A u \in Threads, e \in Depths : ~InFrame(u, e)'
    BY <1>1, <1>4, <1>5, <2>1 DEF IInv, Ownership, AppNotShared, InHandoff, InTls
  <2>3. AppStage' = "retired"
    BY <2>1, <2>2 DEF AppStage
  <2>4. QED
    BY <1>1, <1>3, <1>5, <2>1, <2>3 DEF Lifecycle!Next, Lifecycle!Retire
<1>8. CASE ~StoreApp /\ ~AbortClear
  <2>1. InWorker'
    BY <1>8 DEF Worker, PublishContext, InstallCas, Readback, LockHandoff, AbortClose, InWorker
  <2>2. AppStage' = AppStage
    BY <1>5, <2>1 DEF AppStage
  <2>3. control' = control \/ control' = "failed"
    BY <1>8 DEF Worker, PublishContext, InstallCas, Readback, LockHandoff, AbortClose, gateVars
  <2>4. QED
    BY <1>1, <1>3, <2>2, <2>3 DEF Lifecycle!Next, Lifecycle!Close, Lifecycle!vars
<1>9. QED
  BY <1>6, <1>7, <1>8

(* Every step is a step of AppLifecycle, or none.                           *)
LEMMA StepRefines ==
  ASSUME IInv, StageShape, [Next]_vars
  PROVE  StageShape' /\ [Lifecycle!Next]_(Lifecycle!vars)
<1> USE DEF Lifecycle!Next, Lifecycle!vars
<1>1. CASE UNCHANGED vars
  <2>1. UNCHANGED <<control, failed, startup, worker, handoff, tls, frame>>
    BY <1>1 DEF vars, gateVars, workerVars, appVars, stackVars
  <2>2. StageShape'
    BY <2>1 DEF StageShape
  <2>3. AppStage' = AppStage
    BY <2>1, StageKept DEF InFrame
  <2>4. QED
    BY <2>1, <2>2, <2>3
<1>2. CASE Worker
  BY <1>2, WorkerRefines
<1>3. ASSUME NEW t \in Threads, EnterFrame(t) \/ OwnStep(t) \/ CalleeEnds(t)
      PROVE  StageShape' /\ [Lifecycle!Next]_(Lifecycle!vars)
  <2>1. CASE EnterFrame(t) \/ LeaveFrame(t)
    <3>1. UNCHANGED <<startup, control>>
      BY <2>1 DEF EnterFrame, LeaveFrame, gateVars, appVars
    <3>2. QED
      BY <2>1, <3>1, EnterLeaveStutter
  <2>2. CASE ClaimExit(t) \/ Claim(t)
    <3>1. UNCHANGED <<startup, control>>
      BY <2>2 DEF ClaimExit, Claim, gateVars
    <3>2. QED
      BY <2>2, <3>1, ClaimExitRefines, ClaimRefines
  <2>3. CASE Commit(t) \/ Forget(t)
    BY <2>3, GiveBackRefines
  <2>4. CASE \/ CheckFailed(t) \/ CheckThread(t) \/ DriverPanics(t) \/ GateStore(t)
             \/ PublishClear(t) \/ PublishFailed(t) \/ MarkTls(t) \/ CallOriginal(t)
             \/ OriginalReturns(t)
    <3>1. UNCHANGED <<startup, control>>
      BY <2>4 DEF CheckFailed, CheckThread, DriverPanics, GateStore, PublishClear, PublishFailed,
                  MarkTls, CallOriginal, OriginalReturns, gateVars, appVars
    <3>2. QED
      BY <2>4, <3>1, FrameMoves
  <2>5. CASE DriverReturns(t) \/ GateOpen(t)
    <3>1. depth[t] > 0 /\ Top(t).pc \in {"Driver", "GateOpen"}
      BY <2>5 DEF DriverReturns, GateOpen, At
    <3>2. Top(t).app /\ depth[t] \in Depths /\ (Top(t).pc = "GateOpen" => startup)
      BY <3>1, TopFacts DEF FrameShape, Driving
    <3>3. AppStage = "driven"
      BY <3>1, <3>2, HolderFacts DEF AppStage
    <3>4. StageShape' /\ AppStage' = AppStage
      BY <2>5, FrameMoves
    <3>5. CASE DriverReturns(t)
      BY <3>3, <3>4, <3>5 DEF DriverReturns, gateVars, Lifecycle!Start
    <3>6. CASE GateOpen(t)
      BY <3>2, <3>3, <3>4, <3>6 DEF GateOpen, At, appVars, Lifecycle!Open
    <3>7. QED
      BY <2>5, <3>5, <3>6
  <2>6. CASE PublishClose(t)
    <3>1. StageShape' /\ AppStage' = AppStage
      BY <2>6, FrameMoves
    <3>2. QED
      BY <2>6, <3>1 DEF PublishClose, appVars, Lifecycle!Close
  <2>7. QED
    BY <1>3, <2>1, <2>2, <2>3, <2>4, <2>5, <2>6 DEF OwnStep, CalleeEnds
<1>4. QED
  BY <1>1, <1>2, <1>3 DEF Next

(* The scheduler, with its threads, frames, slots and atomics, implements   *)
(* AppLifecycle: one App, offered once, driven by one callback at a time,   *)
(* behind a gate that opens once, and retired behind one that is closed for *)
(* good.                                                                    *)
THEOREM SchedulerImplementsLifecycle == Spec => ImplementsLifecycle
<1>1. Init => StageShape /\ Lifecycle!Init
  <2>1. SUFFICES ASSUME Init PROVE StageShape /\ Lifecycle!Init
    OBVIOUS
  <2>2. StageShape
    <3>1. \A t \in Threads, d \in Depths : frame[t][d].pc = "Idle"
      BY <2>1 DEF Init, IdleFrame
    <3>2. QED
      BY <2>1, <3>1 DEF Init, StageShape
  <2>3. Lifecycle!Init
    BY <2>1 DEF Init, Lifecycle!Init, AppStage, InWorker
  <2>4. QED
    BY <2>2, <2>3
<1>2. IInv /\ StageShape /\ [Next]_vars => StageShape' /\ [Lifecycle!Next]_(Lifecycle!vars)
  BY StepRefines
<1>3. QED
  BY <1>1, <1>2, Invariant, PTL DEF Spec, ImplementsLifecycle, Lifecycle!Spec
=============================================================================
