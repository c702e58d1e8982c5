------------------------------- MODULE Startup --------------------------------
(***************************************************************************)
(* The runtime from scsp_start to a plugin at work: Bootstrap builds an    *)
(* App whose one plugin is UnlockFps (production_plugins lists it if the   *)
(* configuration unlocks), hands it off or tears it down, and frames of    *)
(* the main thread emit events all the while.                              *)
(***************************************************************************)
EXTENDS Bootstrap

CONSTANTS Threads, GameRate, GameVsync   (* of UnlockFps                     *)

VARIABLES setting, slots, unity, plugin, setter, offMain

F == INSTANCE UnlockFps

fpsVars == <<setting, slots, unity, plugin, setter, offMain>>
vars    == <<bootVars, observed, fpsVars>>

Init == BootstrapInit /\ F!FpsInit

-----------------------------------------------------------------------------

(* The worker's App, with the plugin or without.                            *)
Build(e)    == BuildApp(e) /\ (F!Build \/ UNCHANGED fpsVars)
Teardown(e) == Rollback(e) /\ F!Teardown

BootstrapStep(e) ==
  \/ (EntryStep(e) \/ WorkerStep(e)) /\ UNCHANGED fpsVars
  \/ Build(e) \/ Teardown(e)

(* The first frame that takes the App runs the plugin's Startup.            *)
Frame ==
  /\ \E e \in Entries : worker[e].app = "handed off"
  /\ F!Startup
  /\ UNCHANGED <<bootVars, observed>>

Plugin == F!FpsNext /\ UNCHANGED <<bootVars, observed>>

Environment ==
  /\ GameProgresses \/ \E e \in Entries : DeadlinePasses(e)
  /\ UNCHANGED fpsVars

(* The hook entries emit too, once there are any, and all emitters count.   *)
Events ==
  /\ \/ Drain \/ \E t \in Emitters : CountDropped(t)
     \/ Emit("main") /\ \E e \in Entries : worker[e].app # "none"
  /\ UNCHANGED <<bootVars, fpsVars>>

Next ==
  \/ \E e \in Entries : BootstrapStep(e)
  \/ Frame \/ Plugin \/ Environment \/ Events

Spec == Init /\ [][Next]_vars

(* Threads go on once they run, the clock passes every deadline, and the    *)
(* drain worker goes on taking. Whether the game ever comes up is open.     *)
FairSpec ==
  /\ Spec /\ WF_vars(Drain /\ UNCHANGED <<bootVars, fpsVars>>)
  /\ \A e \in Entries : /\ WF_vars(BootstrapStep(e))
                        /\ WF_vars(DeadlinePasses(e) /\ UNCHANGED fpsVars)

-----------------------------------------------------------------------------
(* Properties.                                                              *)

AnswerHolds == F!AnswerHolds

(* However a bootstrap ends, its worker leaves nothing behind: it is        *)
(* detached, and unless the App was handed off the gate has failed for good *)
(* and the plugin's replacements are out of their slots.                    *)
EndsClean ==
  \A e \in Entries : WorkerAt(e, "Ended") =>
    /\ ~worker[e].attached
    /\ \/ worker[e].app = "handed off"
       \/ worker[e].gate \in {"none", "failed"} /\ \A w \in F!Setters : slots[w] # "ours"

(* A bootstrap that has begun ends, even if the game never comes up; and an *)
(* event that waits is reported, if the drain worker could be spawned.      *)
StartSettles ==
  /\ \A e \in Entries : ~WorkerAt(e, "None") ~> WorkerAt(e, "Ended")
  /\ \A n \in 1..MaxEvents : InQueue(n) /\ drainer = "running" ~> InReport(n)
=============================================================================
