------------------------------- MODULE HookSite -------------------------------
(***************************************************************************)
(* One static hook site over one method pointer slot: publication,         *)
(* installation, dispatch of the game's calls, and the restore action of   *)
(* the owner ledger (crates/core/src/plugin_api/hook.rs,                   *)
(* crates/core/src/method_slot.rs). The main thread builds and retires the *)
(* owner; the game calls the method on any thread; somebody else may hook  *)
(* the same slot, and remove itself again.                                 *)
(*                                                                         *)
(* A hook of the other mechanism patches the entry of the method's code    *)
(* (EntryPatchMemory of crates/core/src/entry_patch.rs): its slot is a     *)
(* word of its own, written after the code, and the trampoline is its      *)
(* original.                                                               *)
(*                                                                         *)
(* One action is one access to shared memory.                              *)
(***************************************************************************)
EXTENDS Naturals

CONSTANTS
  Calls,         (* concurrent calls of the hooked method                  *)
  Mechanisms,    (* of "slot" and "entry", those the target may declare    *)
  ForeignHooks   (* whether another party hooks the slot                   *)

ASSUME HookSiteAssumption ==
  Mechanisms \subseteq {"slot", "entry"} /\ ForeignHooks \in BOOLEAN

VARIABLES
  mechanism,     (* T::MECHANISM                                           *)
  slot,          (* the methodPointer word, or the state word of the patch *)
  code,          (* what the entry of the method's code leads to           *)
  foreign,       (* what the foreign hook has saved, and whether it left   *)
  site,          (* SiteInner: published, original_addr, active            *)
  installed,     (* the conservative flag                                  *)
  bound,         (* MethodPointerSlot.original                             *)
  main,          (* program counter of the main thread                     *)
  restored,      (* what the ledger's restore action returned              *)
  runtimeGate, pluginGate,
  call           (* the activations of the replacement                     *)

gates    == <<runtimeGate, pluginGate>>
memory   == <<mechanism, slot, code>>
siteVars == <<site, installed, bound, restored>>
vars     == <<mechanism, slot, code, foreign, siteVars, main, gates, call>>

-----------------------------------------------------------------------------

None == "none"

(* A call: its program point, its OriginalGuard, how often the original was *)
(* entered.                                                                 *)
IdleCall == [pc |-> "Idle", phase |-> "Before", calls |-> 0]

Init ==
  /\ mechanism \in Mechanisms /\ slot = "original" /\ code = "original"
  /\ foreign = [saved |-> None, left |-> FALSE]
  /\ site = [published |-> FALSE, addr |-> None, active |-> FALSE]
  /\ installed = FALSE /\ bound = None /\ restored = "no"
  /\ main = "Publish" /\ runtimeGate = "closed" /\ pluginGate = "closed"
  /\ call = [c \in Calls |-> IdleCall]

-----------------------------------------------------------------------------
(* The main thread: HookBuilder::handler and HookBuilder::install.          *)

Step(p, q) == main = p /\ main' = q

Publish ==
  /\ Step("Publish", "Bind")
  /\ site' = [site EXCEPT !.published = TRUE]
  /\ UNCHANGED <<memory, foreign, installed, bound, restored, gates, call>>

(* The target is resolved, validated and bound, or one of these fails and   *)
(* with it the build of the plugin.                                         *)
Bind ==
  /\ main = "Bind"
  /\ \/ main' = "Capture" /\ bound' = slot /\ UNCHANGED pluginGate
     \/ main' = "Failed" /\ pluginGate' = "failed" /\ UNCHANGED bound
  /\ UNCHANGED <<memory, foreign, site, installed, restored, runtimeGate, call>>

Capture ==
  /\ Step("Capture", "Activate")
  /\ site' = [site EXCEPT !.addr = bound]
  /\ UNCHANGED <<memory, foreign, installed, bound, restored, gates, call>>

Activate ==
  /\ Step("Activate", "Cas")
  /\ site' = [site EXCEPT !.active = TRUE]
  /\ UNCHANGED <<memory, foreign, installed, bound, restored, gates, call>>

(* SlotConflict: the build of the plugin fails, its gate closes.            *)
InstallCas ==
  /\ main = "Cas" /\ mechanism = "slot"
  /\ IF slot = bound
     THEN slot' = "replacement" /\ main' = "Confirm" /\ UNCHANGED pluginGate
     ELSE main' = "Failed" /\ pluginGate' = "failed" /\ UNCHANGED slot
  /\ UNCHANGED <<mechanism, code, foreign, siteVars, runtimeGate, call>>

(* EntryPatchMemory::compare_exchange: the page is replaced, or that fails  *)
(* before the replacement or after it, at the readback.                     *)
PatchEntry ==
  /\ main = "Cas" /\ mechanism = "entry"
  /\ \/ code' = "replacement" /\ main' = "PatchFlag" /\ UNCHANGED pluginGate
     \/ code' \in {code, "replacement"} /\ main' = "Failed" /\ pluginGate' = "failed"
  /\ UNCHANGED <<mechanism, slot, foreign, siteVars, runtimeGate, call>>

StorePatched ==
  /\ Step("PatchFlag", "Confirm")
  /\ slot' = "replacement"
  /\ UNCHANGED <<mechanism, code, foreign, siteVars, gates, call>>

InstallConfirm ==
  /\ main = "Confirm"
  /\ main' = IF slot = "replacement" THEN "Arm" ELSE "Rollback"
  /\ UNCHANGED <<memory, foreign, siteVars, gates, call>>

(* InstallationFailed: one ownership-aware restore, whose outcome is not    *)
(* looked at; the build fails.                                              *)
InstallRollback ==
  /\ Step("Rollback", "Failed")
  /\ slot' = IF slot = "replacement" THEN bound ELSE slot
  /\ pluginGate' = "failed"
  /\ UNCHANGED <<mechanism, code, foreign, siteVars, runtimeGate, call>>

Arm ==
  /\ Step("Arm", "Installed")
  /\ installed' = TRUE
  /\ UNCHANGED <<memory, foreign, site, bound, restored, gates, call>>

(* The owner's Startup succeeds, or the owner retires: its gate closes      *)
(* before its ledger runs.                                                  *)
OpenPlugin ==
  /\ main = "Installed" /\ pluginGate = "closed"
  /\ pluginGate' = "open"
  /\ UNCHANGED <<memory, foreign, siteVars, main, runtimeGate, call>>

Retire ==
  /\ Step("Installed", "Disarm")
  /\ pluginGate' = "failed"
  /\ UNCHANGED <<memory, foreign, siteVars, runtimeGate, call>>

(* Mutant: the restore action acts only if the flag is clear.               *)
Disarm_Inverted ==
  /\ main = "Disarm"
  /\ installed' = FALSE
  /\ main' = IF ~installed THEN "RestoreCas" ELSE "Retired"
  /\ restored' = IF ~installed THEN restored ELSE "ok"
  /\ UNCHANGED <<memory, foreign, site, bound, gates, call>>

(* The restore action of the ledger.                                        *)
Disarm ==
  /\ main = "Disarm"
  /\ installed' = FALSE
  /\ main' = IF installed THEN "RestoreCas" ELSE "Retired"
  /\ restored' = IF installed THEN restored ELSE "ok"
  /\ UNCHANGED <<memory, foreign, site, bound, gates, call>>

(* Mutant: the original is stored, whoever owns the slot.                   *)
RestoreCas_Store ==
  /\ Step("RestoreCas", "RestoreConfirm") /\ mechanism = "slot"
  /\ slot' = bound
  /\ UNCHANGED <<mechanism, code, foreign, siteVars, gates, call>>

RestoreCas ==
  /\ main = "RestoreCas" /\ mechanism = "slot"
  /\ IF slot = "replacement"
     THEN slot' = bound /\ main' = "RestoreConfirm" /\ UNCHANGED restored
     ELSE restored' = "lost" /\ main' = "Retired" /\ UNCHANGED slot
  /\ UNCHANGED <<mechanism, code, foreign, site, installed, bound, gates, call>>

(* A failing restore of the code is reported as drift.                      *)
UnpatchEntry ==
  /\ main = "RestoreCas" /\ mechanism = "entry"
  /\ \/ code' = "original" /\ main' = "UnpatchFlag" /\ UNCHANGED restored
     \/ code' \in {code, "original"} /\ main' = "Retired" /\ restored' = "lost"
  /\ UNCHANGED <<mechanism, slot, foreign, site, installed, bound, gates, call>>

StoreUnpatched ==
  /\ Step("UnpatchFlag", "RestoreConfirm")
  /\ slot' = bound
  /\ UNCHANGED <<mechanism, code, foreign, siteVars, gates, call>>

RestoreConfirm ==
  /\ main = "RestoreConfirm"
  /\ main' = IF slot = bound THEN "Retired" ELSE "Rearm"
  /\ restored' = IF slot = bound THEN "ok" ELSE "failed"
  /\ UNCHANGED <<memory, foreign, site, installed, bound, gates, call>>

Rearm ==
  /\ Step("Rearm", "Retired")
  /\ installed' = TRUE
  /\ UNCHANGED <<memory, foreign, site, bound, restored, gates, call>>

MainStep ==
  \/ Publish \/ Bind \/ Capture \/ Activate
  \/ InstallCas \/ PatchEntry \/ StorePatched \/ InstallConfirm \/ InstallRollback \/ Arm
  \/ Disarm \/ RestoreCas \/ UnpatchEntry \/ StoreUnpatched \/ RestoreConfirm \/ Rearm

(* The scheduler opens the RuntimeGate after Startup, a failure closes it.  *)
OpenRuntime ==
  /\ runtimeGate = "closed"
  /\ runtimeGate' = "open"
  /\ UNCHANGED <<memory, foreign, siteVars, main, pluginGate, call>>

CloseRuntime ==
  /\ runtimeGate # "failed"
  /\ runtimeGate' = "failed"
  /\ UNCHANGED <<memory, foreign, siteVars, main, pluginGate, call>>

-----------------------------------------------------------------------------
(* The foreign hook: it takes the slot once and puts back what it found,    *)
(* if it still owns the slot.                                               *)

ForeignInstall ==
  /\ ForeignHooks /\ mechanism = "slot" /\ foreign.saved = None
  /\ foreign' = [foreign EXCEPT !.saved = slot]
  /\ slot' = "foreign"
  /\ UNCHANGED <<mechanism, code, siteVars, main, gates, call>>

ForeignRemove ==
  /\ slot = "foreign" /\ ~foreign.left
  /\ foreign' = [foreign EXCEPT !.left = TRUE]
  /\ slot' = foreign.saved
  /\ UNCHANGED <<mechanism, code, siteVars, main, gates, call>>

-----------------------------------------------------------------------------
(* HookSite::dispatch.                                                      *)

At(c, p) == call[c].pc = p

Goto(c, p) == call' = [call EXCEPT ![c].pc = p]

notCall == <<memory, foreign, siteVars, main, gates>>

(* The game reaches the replacement through the slot or the patched code,   *)
(* or the foreign hook calls what it has saved.                             *)
Enter(c) ==
  /\ At(c, "Idle")
  /\ CASE mechanism = "entry" -> code = "replacement"
       [] slot = "foreign"     -> foreign.saved = "replacement"
       [] OTHER                -> slot = "replacement"
  /\ Goto(c, "Load")
  /\ UNCHANGED notCall

LoadSite(c) ==
  /\ At(c, "Load")
  /\ Goto(c, IF site.published /\ site.active THEN "Slot" ELSE "Fallback")
  /\ UNCHANGED notCall

(* Mutant: the flag decides, not the slot.                                  *)
CheckSlot_ByFlag(c) ==
  /\ At(c, "Slot")
  /\ Goto(c, IF installed THEN "Addr" ELSE "Fallback")
  /\ UNCHANGED notCall

CheckSlot(c) ==
  /\ At(c, "Slot")
  /\ Goto(c, IF slot = "replacement" THEN "Addr" ELSE "Fallback")
  /\ UNCHANGED notCall

LoadAddr(c) ==
  /\ At(c, "Addr")
  /\ Goto(c, IF site.addr # None THEN "RuntimeGate" ELSE "Fallback")
  /\ UNCHANGED notCall

CheckRuntimeGate(c) ==
  /\ At(c, "RuntimeGate")
  /\ Goto(c, IF runtimeGate = "open" THEN "PluginGate" ELSE "Passthrough")
  /\ UNCHANGED notCall

(* Mutant: only the RuntimeGate is looked at.                               *)
CheckPluginGate_Ignored(c) ==
  /\ At(c, "PluginGate")
  /\ Goto(c, "Handler")
  /\ UNCHANGED notCall

CheckPluginGate(c) ==
  /\ At(c, "PluginGate")
  /\ Goto(c, IF pluginGate = "open" THEN "Handler" ELSE "Passthrough")
  /\ UNCHANGED notCall

(* Callback::call_original; a second call of it does nothing.               *)
CallOriginal(c) ==
  /\ At(c, "Handler") /\ call[c].phase = "Before"
  /\ call' = [call EXCEPT
       ![c] = [pc |-> "InOriginal", phase |-> "Calling", calls |-> @.calls + 1]]
  /\ UNCHANGED notCall

OriginalReturns(c) ==
  /\ At(c, "InOriginal")
  /\ call' = [call EXCEPT ![c].pc = "Handler", ![c].phase = "After"]
  /\ UNCHANGED notCall

HandlerReturns(c) ==
  /\ At(c, "Handler")
  /\ Goto(c, IF call[c].phase = "Before" THEN "Passthrough" ELSE "Done")
  /\ UNCHANGED notCall

(* Mutant: a panic is always followed by the original.                      *)
HandlerPanics_Retries(c) ==
  /\ At(c, "Handler") \/ At(c, "InOriginal")
  /\ Goto(c, "Passthrough")
  /\ UNCHANGED notCall

HandlerPanics(c) ==
  /\ At(c, "Handler") \/ At(c, "InOriginal")
  /\ Goto(c, IF call[c].phase = "Before" THEN "Passthrough" ELSE "Fallback")
  /\ UNCHANGED notCall

Passthrough(c) ==
  /\ At(c, "Passthrough")
  /\ call' = [call EXCEPT ![c] = [pc |-> "Done", phase |-> @.phase, calls |-> @.calls + 1]]
  /\ UNCHANGED notCall

Return(c) ==
  /\ At(c, "Done") \/ At(c, "Fallback")
  /\ call' = [call EXCEPT ![c] = IdleCall]
  /\ UNCHANGED notCall

CallStep(c) ==
  \/ LoadSite(c) \/ CheckSlot(c) \/ LoadAddr(c)
  \/ CheckRuntimeGate(c) \/ CheckPluginGate(c)
  \/ CallOriginal(c) \/ OriginalReturns(c) \/ HandlerReturns(c) \/ HandlerPanics(c)
  \/ Passthrough(c) \/ Return(c)

Next ==
  \/ MainStep \/ OpenPlugin \/ Retire
  \/ OpenRuntime \/ CloseRuntime
  \/ ForeignInstall \/ ForeignRemove
  \/ \E c \in Calls : Enter(c) \/ CallStep(c)

Spec == Init /\ [][Next]_vars

(* The main thread and every call go on; a handler that is back from the    *)
(* original does not stay forever.                                          *)
FairSpec ==
  /\ Spec /\ WF_vars(MainStep)
  /\ \A c \in Calls : WF_vars(CallStep(c))

-----------------------------------------------------------------------------
(* Properties.                                                              *)

(* Whatever the handler does (return early, call the original twice, panic  *)
(* before, in or after it), dispatch enters the original at most once, and  *)
(* exactly once unless it answers with the fallback.                        *)
OriginalOnce ==
  \A c \in Calls : /\ call[c].calls <= 1
                   /\ At(c, "Done") => call[c].calls = 1

(* No call is skipped while a method pointer is being hooked, or later      *)
(* while it is not being restored: a call answers without the original only *)
(* after the restore has begun or another party has taken the slot. A hook  *)
(* of the other mechanism skips calls also between the replacement of the   *)
(* code and the write of its word, and for good if that patch fails.        *)
NoSkipBeforeRestore ==
  [][\A c \in Calls :
       ~At(c, "Fallback") /\ At(c, "Fallback")' /\ call[c].calls = 0 =>
         \/ main \in {"RestoreConfirm", "Rearm", "Retired"}
         \/ mechanism = "slot" /\ foreign.saved = "replacement"
         \/ mechanism = "entry" /\ main \in {"PatchFlag", "Failed"}]_vars

(* Neither install, its rollback, nor the restore action ever overwrites a  *)
(* hook that somebody put over ours, or loses the one we were put over.     *)
ForeignHookKept ==
  /\ foreign.saved = "replacement" /\ ~foreign.left => slot = "foreign"
  /\ foreign.saved = "original" /\ ~foreign.left /\ slot # "foreign" =>
       slot = "replacement" /\ bound = "foreign"

(* Once the owner is retired, or its build has failed, its replacement is   *)
(* out of the slot, unless somebody else put it there after taking it over; *)
(* a restore that is reported as done has also put the code back.           *)
QuiescentAfterRetirement ==
  /\ main \in {"Retired", "Failed"} /\ slot = "replacement" =>
       \/ foreign.saved = "replacement" /\ foreign.left
       \/ mechanism = "entry" /\ restored = "lost"
  /\ mechanism = "entry" /\ restored = "ok" => code = "original"

(* After the owner's gate has closed, from some point on no handler of it   *)
(* runs, and the main thread has settled the slot.                          *)
RetirementQuiesces ==
  pluginGate = "failed" ~>
    [](main \in {"Retired", "Failed"} /\ \A c \in Calls : ~At(c, "Handler"))

=============================================================================
