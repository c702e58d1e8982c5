------------------------------ MODULE UnlockFps -------------------------------
(***************************************************************************)
(* The unlock_fps plugin (crates/unlock_fps/src/lib.rs): the hooks of the  *)
(* two setters, the route that carries the switch to them, and the debug   *)
(* topic that changes it and applies it at once. The game calls the        *)
(* setters on any thread; another party may take either slot for good.     *)
(* Installing and dispatching are HookSite's in detail.                    *)
(***************************************************************************)
EXTENDS Naturals

CONSTANTS
  Threads,       (* threads that call the setters, "main" among them       *)
  GameRate, GameVsync   (* what the game sets                              *)

VARIABLES
  setting,       (* FpsState.unlock_fps, the route's cell, the last answer *)
  slots,         (* who owns the slots of the two setters                  *)
  unity,         (* the values Unity works with                            *)
  plugin,        (* pc of the plugin on the main thread, its gate          *)
  setter,        (* a call of a setter: pc, thread, which one, its value   *)
  offMain        (* history: a setter was called beside the main thread    *)

Setters == {"rate", "vsync"}

(* What a setter's handler makes of the game's value, and apply_setting's.  *)
Locked   == [rate |-> 60, vsync |-> 1]
Unlocked == [rate |-> 120, vsync |-> 0]
Value(switch) == IF switch = "on" THEN Unlocked ELSE Locked

NoCall == [pc |-> "Idle", thread |-> "main", which |-> "rate", value |-> 0]

FpsInit ==
  /\ setting = [state |-> "unset", cell |-> "unset", answer |-> "none"]
  /\ slots = [w \in Setters |-> "original"]
  /\ unity = [rate |-> GameRate, vsync |-> GameVsync]
  /\ plugin = [pc |-> "Absent", gate |-> "closed"]
  /\ setter = NoCall /\ offMain = FALSE

-----------------------------------------------------------------------------
(* The plugin on the main thread.                                           *)

PluginAt(pc) == plugin.pc = pc
MainIsFree   == setter.pc = "Idle" \/ setter.thread # "main"

(* The plugin is listed only if the configuration unlocks; its build may    *)
(* fail, and is then undone.                                                *)
Build ==
  /\ PluginAt("Absent")
  /\ \/ /\ slots' = [w \in Setters |-> "ours"]
        /\ setting' = [setting EXCEPT !.state = "on"]
        /\ plugin' = [plugin EXCEPT !.pc = "Built"]
     \/ UNCHANGED <<slots, setting>> /\ plugin' = [pc |-> "Retired", gate |-> "failed"]
  /\ UNCHANGED <<unity, setter, offMain>>

Retired == plugin' = [pc |-> "Retired", gate |-> "failed"]
Restored == slots' = [w \in Setters |-> IF slots[w] = "ours" THEN "original" ELSE slots[w]]

(* The owner fails in one of its systems, or the App is torn down by the    *)
(* bootstrap worker before it was handed off.                               *)
Retire ==
  /\ PluginAt("Idle") /\ MainIsFree
  /\ Retired /\ Restored
  /\ UNCHANGED <<setting, unity, setter, offMain>>

Teardown ==
  /\ IF PluginAt("Built") THEN Retired /\ Restored ELSE UNCHANGED <<plugin, slots>>
  /\ UNCHANGED <<setting, unity, setter, offMain>>

Startup ==
  /\ PluginAt("Built") /\ MainIsFree
  /\ plugin' = [plugin EXCEPT !.pc = "Vsync"]
  /\ UNCHANGED <<setting, slots, unity, setter, offMain>>

(* Mutant: the setters' handlers are not told.                              *)
Set_Untold(switch) ==
  /\ PluginAt("Idle") /\ MainIsFree
  /\ setting' = [setting EXCEPT !.state = switch]
  /\ plugin' = [plugin EXCEPT !.pc = "Vsync"]
  /\ UNCHANGED <<slots, unity, setter, offMain>>

(* fps_set_handler: the switch and the route first, then the two setters.   *)
Set(switch) ==
  /\ PluginAt("Idle") /\ MainIsFree
  /\ setting' = [setting EXCEPT !.state = switch, !.cell = switch]
  /\ plugin' = [plugin EXCEPT !.pc = "Vsync"]
  /\ UNCHANGED <<slots, unity, setter, offMain>>

(* Startup opens the gate or retires the plugin, the topic answers.         *)
Succeeds ==
  /\ plugin' = [pc |-> "Idle", gate |-> "open"]
  /\ setting' = [setting EXCEPT !.answer = IF plugin.gate = "open" THEN "ok" ELSE @]
  /\ UNCHANGED slots

Fails ==
  IF plugin.gate = "open"
  THEN /\ plugin' = [plugin EXCEPT !.pc = "Idle"]
       /\ setting' = [setting EXCEPT !.answer = "error"]
       /\ UNCHANGED slots
  ELSE Retired /\ Restored /\ UNCHANGED setting

(* call_original_on_main of one setter; a slot that is lost is left alone.  *)
Apply(w) ==
  IF slots[w] = "ours"
  THEN unity' = [unity EXCEPT ![w] = Value(setting.state)[w]]
  ELSE UNCHANGED unity

ApplyVsync ==
  /\ PluginAt("Vsync") /\ Apply("vsync")
  /\ IF slots["vsync"] = "ours"
     THEN plugin' = [plugin EXCEPT !.pc = "Rate"] /\ UNCHANGED <<setting, slots>>
     ELSE Fails
  /\ UNCHANGED <<setter, offMain>>

ApplyRate ==
  /\ PluginAt("Rate") /\ Apply("rate")
  /\ IF slots["rate"] = "ours" THEN Succeeds ELSE Fails
  /\ UNCHANGED <<setter, offMain>>

PluginStep == ApplyVsync \/ ApplyRate

-----------------------------------------------------------------------------
(* The game and the other party.                                            *)

(* A call through a slot that is not ours sets the value.                   *)
GameSets(t, w) ==
  /\ setter.pc = "Idle"
  /\ t = "main" => plugin.pc \notin {"Vsync", "Rate"}
  /\ LET value == IF w = "rate" THEN GameRate ELSE GameVsync
     IN  IF slots[w] = "ours"
         THEN /\ setter' = [pc |-> "Dispatch", thread |-> t, which |-> w, value |-> value]
              /\ UNCHANGED unity
         ELSE unity' = [unity EXCEPT ![w] = value] /\ UNCHANGED setter
  /\ offMain' = (offMain \/ t # "main")
  /\ UNCHANGED <<setting, slots, plugin>>

(* rate_replacement and vsync_replacement: the original gets the unlocked   *)
(* value if the route says so, the game's if not, or if the gate is closed; *)
(* a slot that is lost meanwhile skips the call.                            *)
Dispatch ==
  /\ setter.pc = "Dispatch"
  /\ IF slots[setter.which] # "ours"
     THEN setter' = NoCall
     ELSE setter' = [setter EXCEPT
            !.pc = "Original",
            !.value = IF plugin.gate = "open" /\ setting.cell = "on"
                      THEN Unlocked[setter.which] ELSE @]
  /\ UNCHANGED <<setting, slots, unity, plugin, offMain>>

CallOriginal ==
  /\ setter.pc = "Original"
  /\ unity' = [unity EXCEPT ![setter.which] = setter.value]
  /\ setter' = NoCall
  /\ UNCHANGED <<setting, slots, plugin, offMain>>

OtherTakesSlot(w) ==
  /\ slots[w] = "ours"
  /\ slots' = [slots EXCEPT ![w] = "other"]
  /\ UNCHANGED <<setting, unity, plugin, setter, offMain>>

FpsNext ==
  \/ \E switch \in {"on", "off"} : Set(switch)
  \/ Retire \/ PluginStep \/ Dispatch \/ CallOriginal
  \/ \E w \in Setters : OtherTakesSlot(w) \/ \E t \in Threads : GameSets(t, w)

-----------------------------------------------------------------------------

(* What unlock_fps.set has answered holds: after an ok that unlocks, Unity  *)
(* stays unlocked, whatever the game sets, until the next set, unless the   *)
(* game calls a setter beside the main thread or a slot is lost; an error   *)
(* means that one is, and leaves switch and route agreed all the same.      *)
AnswerHolds ==
  PluginAt("Idle") =>
    /\ setting.answer = "ok" /\ setting.state = "on" /\ ~offMain
         /\ (\A w \in Setters : slots[w] = "ours") => unity = Unlocked
    /\ setting.answer = "error" => \E w \in Setters : slots[w] = "other"
    /\ setting.cell \in {"unset", setting.state}
=============================================================================
