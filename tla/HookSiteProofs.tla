---------------------------- MODULE HookSiteProofs ----------------------------
(***************************************************************************)
(* Proofs about HookSite for every set of calls, with and without another  *)
(* party at the slot. The properties rest on what the main thread's        *)
(* program point says about the site, the slot and the code, and on what a *)
(* call that has reached the replacement may rely on.                      *)
(***************************************************************************)
EXTENDS HookSite, TLAPS

-----------------------------------------------------------------------------
(* The inductive invariant.                                                 *)

Building == {"Publish", "Bind", "Capture", "Activate", "Cas"}
Hooked   == {"Confirm", "Arm", "Installed", "Disarm", "RestoreCas", "UnpatchFlag"}
Undoing  == {"RestoreConfirm", "Rearm", "Retired"}
MainPc   == Building \cup Hooked \cup Undoing \cup {"PatchFlag", "Rollback", "Failed"}

Checks == {"Load", "Slot", "Addr", "RuntimeGate", "PluginGate", "Passthrough"}
CallPc == Checks \cup {"Idle", "Handler", "InOriginal", "Done", "Fallback"}

Phase == {"Before", "Calling", "After"}
Activation == [pc : CallPc, phase : Phase, calls : Nat]

Gate  == {"closed", "open", "failed"}

TypeOK ==
  /\ mechanism \in {"slot", "entry"}
  /\ slot \in {"original", "replacement", "foreign"} /\ code \in {"original", "replacement"}
  /\ foreign \in [saved : {None, "original", "replacement"}, left : BOOLEAN]
  /\ site \in [published : BOOLEAN, addr : {None, "original", "foreign"}, active : BOOLEAN]
  /\ installed \in BOOLEAN /\ bound \in {None, "original", "foreign"}
  /\ restored \in {"no", "ok", "lost", "failed"}
  /\ main \in MainPc /\ runtimeGate \in Gate /\ pluginGate \in Gate
  /\ call \in [Calls -> Activation]

(* What a call knows at its program point.                                  *)
NotCalled(a) == a.phase = "Before" /\ a.calls = 0

ActivationShape(a) ==
  /\ a.pc = "Idle" \/ a.pc \in Checks => NotCalled(a)
  /\ a.pc = "Handler" => NotCalled(a) \/ (a.phase = "After" /\ a.calls = 1)
  /\ a.pc = "InOriginal" => a.phase = "Calling" /\ a.calls = 1
  /\ a.pc = "Done" => a.calls = 1
  /\ a.pc = "Fallback" => a.calls <= 1

CallShape == \A c \in Calls : ActivationShape(call[c])

(* The site is complete before the replacement can be reached.              *)
Armed    == site.published /\ site.active /\ site.addr # None
Replaced == slot = "replacement" \/ code = "replacement" \/ foreign.saved = "replacement"

SiteShape ==
  /\ main # "Publish" => site.published
  /\ main \notin {"Publish", "Bind", "Failed"} => bound # None
  /\ main \notin {"Publish", "Bind", "Capture", "Failed"} => site.addr # None
  /\ main \notin {"Publish", "Bind", "Capture", "Activate", "Failed"} => site.active
  /\ main \in {"Installed", "Disarm"} => installed
  /\ restored = "ok" => main = "Retired"
  /\ Replaced => Armed
  /\ main \in Building => ~Replaced

(* A method pointer, which two parties write.                               *)
SlotShape ==
  /\ slot = "foreign" \/ bound = "foreign" => foreign.saved # None
  /\ mechanism = "slot" =>
       /\ code = "original" /\ main \notin {"PatchFlag", "UnpatchFlag"}
       /\ main = "Confirm" /\ slot # "replacement" => foreign.saved = "replacement"
       /\ main = "Rollback" => foreign.saved = "replacement"
       /\ main \in {"RestoreConfirm", "Rearm"} =>
            slot # "replacement" /\ (foreign.saved = "replacement" => foreign.left)

(* A patched entry, whose word follows its code.                            *)
EntryShape ==
  mechanism = "entry" =>
    /\ foreign.saved = None /\ main # "Rollback"
    /\ main \in Hooked => slot = "replacement"
    /\ main \in {"PatchFlag", "RestoreConfirm", "Rearm", "Failed"} => slot # "replacement"
    /\ main \in {"UnpatchFlag", "RestoreConfirm"} => code = "original"
    /\ code = "replacement" /\ slot # "replacement" =>
         main \in {"PatchFlag", "Failed"} \cup Undoing

(* When a call that has reached the replacement may find the slot changed.  *)
MaySkip ==
  \/ main \in Undoing
  \/ mechanism = "slot" /\ foreign.saved = "replacement"
  \/ mechanism = "entry" /\ main \in {"PatchFlag", "Failed"}

Exposed ==
  \A c \in Calls : ~At(c, "Idle") => Armed /\ (slot # "replacement" => MaySkip)

SharedInv == SiteShape /\ SlotShape /\ EntryShape /\ ForeignHookKept /\ QuiescentAfterRetirement

IInv == TypeOK /\ CallShape /\ SharedInv /\ Exposed

-----------------------------------------------------------------------------
(* The invariant holds initially.                                           *)
LEMMA InitIInv == Init => IInv
<1>1. SUFFICES ASSUME Init PROVE IInv
  OBVIOUS
<1>2. TypeOK
  BY <1>1, HookSiteAssumption DEF Init, TypeOK, None, IdleCall, MainPc, Building, Gate,
              Activation, CallPc, Checks, Phase
<1>3. CallShape /\ Exposed
  BY <1>1 DEF Init, CallShape, ActivationShape, Exposed, At, IdleCall, NotCalled, Checks
<1>4. SharedInv
  BY <1>1 DEF Init, SharedInv, SiteShape, SlotShape, EntryShape, ForeignHookKept,
              QuiescentAfterRetirement, Replaced, Building, Hooked, Undoing, None
<1>5. QED
  BY <1>2, <1>3, <1>4 DEF IInv

-----------------------------------------------------------------------------
(* Steps of the main thread, the gates and the other party.                 *)

(* A step that leaves the calls where they are keeps their shape; those     *)
(* that have reached the replacement must be able to rely on the site, and  *)
(* on the slot for as long as it is not being given up.                     *)
LEMMA CallsUntouched ==
  ASSUME IInv, UNCHANGED call, TypeOK', SharedInv',
         Armed => Armed',
         Armed /\ (slot # "replacement" => MaySkip) /\ slot' # "replacement" => MaySkip'
  PROVE  IInv'
<1>1. CallShape'
  BY DEF IInv, CallShape, At
<1>2. Exposed'
  BY DEF IInv, Exposed, At
<1>3. QED
  BY <1>1, <1>2 DEF IInv

(* Binding and publishing, before anything can be reached.                  *)
LEMMA BuildSteps == IInv /\ (Publish \/ Bind \/ Capture \/ Activate) => IInv'
<1>1. SUFFICES ASSUME IInv, Publish \/ Bind \/ Capture \/ Activate PROVE IInv'
  OBVIOUS
<1> USE <1>1 DEF IInv, Step, memory, siteVars, gates, vars, None
<1>2. /\ main \in Building /\ ~Replaced /\ ~Replaced'
      /\ UNCHANGED <<call, foreign, slot, code, mechanism, restored>>
  BY DEF Publish, Bind, Capture, Activate, Building, SharedInv, SiteShape, Replaced
<1>3. TypeOK'
  <2>1. site' \in [published : BOOLEAN, addr : {None, "original", "foreign"}, active : BOOLEAN]
    BY DEF Publish, Bind, Capture, Activate, TypeOK
  <2>2. /\ bound' \in {None, "original", "foreign"} /\ installed' \in BOOLEAN
        /\ main' \in MainPc /\ runtimeGate' \in Gate /\ pluginGate' \in Gate
    BY <1>2 DEF Publish, Bind, Capture, Activate, TypeOK, MainPc, Building, Gate, Replaced
  <2>3. QED
    BY <1>2, <2>1, <2>2 DEF TypeOK
<1>4. SiteShape'
  BY <1>2 DEF Publish, Bind, Capture, Activate, TypeOK, SharedInv, SiteShape, Building
<1>5. SlotShape' /\ EntryShape'
  BY <1>2 DEF Publish, Bind, Capture, Activate, TypeOK, SharedInv, SlotShape, EntryShape, Building,
              Hooked, Undoing, Replaced
<1>6. ForeignHookKept' /\ QuiescentAfterRetirement'
  BY <1>2 DEF Publish, Bind, Capture, Activate, TypeOK, SharedInv, ForeignHookKept, Building,
              QuiescentAfterRetirement, Replaced
<1>7. (Armed => Armed') /\ (slot # "replacement" => ~MaySkip) /\ slot # "replacement"
  BY <1>2 DEF Publish, Bind, Capture, Activate, TypeOK, SharedInv, SiteShape, Armed, Building,
              MaySkip, Undoing, Replaced
<1>8. QED
  BY <1>2, <1>3, <1>4, <1>5, <1>6, <1>7, CallsUntouched DEF SharedInv


(* Installing, and what undoes it at once.                                  *)
LEMMA InstallSteps ==
  ASSUME IInv,
         \/ InstallCas \/ PatchEntry \/ StorePatched \/ InstallConfirm
         \/ InstallRollback \/ Arm \/ OpenPlugin \/ Retire
  PROVE  IInv'
<1> USE DEF IInv, SharedInv, Step, memory, siteVars, gates, None, TypeOK, MainPc, Building,
            Hooked, Undoing, SiteShape, SlotShape, EntryShape, Replaced
<1>1. CASE InstallCas
  <2> USE <1>1 DEF InstallCas
  <2>1. TypeOK'
    BY DEF Gate
  <2>2. SharedInv'
    BY DEF Armed, ForeignHookKept, QuiescentAfterRetirement
  <2>3. (slot # "replacement" => MaySkip) /\ slot' # "replacement" => MaySkip'
    BY DEF MaySkip
  <2>4. QED
    BY <2>1, <2>2, <2>3, CallsUntouched DEF Armed
<1>2. CASE PatchEntry
  <2> USE <1>2 DEF PatchEntry
  <2>1. TypeOK'
    BY DEF Gate
  <2>2. SharedInv'
    BY DEF Armed, ForeignHookKept, QuiescentAfterRetirement
  <2>3. (slot # "replacement" => MaySkip) /\ slot' # "replacement" => MaySkip'
    BY DEF MaySkip
  <2>4. QED
    BY <2>1, <2>2, <2>3, CallsUntouched DEF Armed
<1>3. CASE StorePatched
  <2> USE <1>3 DEF StorePatched
  <2>1. TypeOK'
    BY DEF Gate
  <2>2. SharedInv'
    BY DEF Armed, ForeignHookKept, QuiescentAfterRetirement
  <2>3. (slot # "replacement" => MaySkip) /\ slot' # "replacement" => MaySkip'
    BY DEF MaySkip
  <2>4. QED
    BY <2>1, <2>2, <2>3, CallsUntouched DEF Armed
<1>4. CASE InstallConfirm
  <2> USE <1>4 DEF InstallConfirm
  <2>1. TypeOK'
    BY DEF Gate
  <2>2. SharedInv'
    BY DEF Armed, ForeignHookKept, QuiescentAfterRetirement
  <2>3. (slot # "replacement" => MaySkip) /\ slot' # "replacement" => MaySkip'
    BY DEF MaySkip
  <2>4. QED
    BY <2>1, <2>2, <2>3, CallsUntouched DEF Armed
<1>5. CASE InstallRollback
  <2> USE <1>5 DEF InstallRollback
  <2>1. TypeOK'
    BY DEF Gate
  <2>2. SharedInv'
    BY DEF Armed, ForeignHookKept, QuiescentAfterRetirement
  <2>3. (slot # "replacement" => MaySkip) /\ slot' # "replacement" => MaySkip'
    BY DEF MaySkip
  <2>4. QED
    BY <2>1, <2>2, <2>3, CallsUntouched DEF Armed
<1>6. CASE Arm
  <2> USE <1>6 DEF Arm
  <2>1. TypeOK'
    BY DEF Gate
  <2>2. SharedInv'
    BY DEF Armed, ForeignHookKept, QuiescentAfterRetirement
  <2>3. (slot # "replacement" => MaySkip) /\ slot' # "replacement" => MaySkip'
    BY DEF MaySkip
  <2>4. QED
    BY <2>1, <2>2, <2>3, CallsUntouched DEF Armed
<1>7. CASE OpenPlugin
  <2> USE <1>7 DEF OpenPlugin
  <2>1. TypeOK'
    BY DEF Gate
  <2>2. SharedInv'
    BY DEF Armed, ForeignHookKept, QuiescentAfterRetirement
  <2>3. (slot # "replacement" => MaySkip) /\ slot' # "replacement" => MaySkip'
    BY DEF MaySkip
  <2>4. QED
    BY <2>1, <2>2, <2>3, CallsUntouched DEF Armed
<1>8. CASE Retire
  <2> USE <1>8 DEF Retire
  <2>1. TypeOK'
    BY DEF Gate
  <2>2. SharedInv'
    BY DEF Armed, ForeignHookKept, QuiescentAfterRetirement
  <2>3. (slot # "replacement" => MaySkip) /\ slot' # "replacement" => MaySkip'
    BY DEF MaySkip
  <2>4. QED
    BY <2>1, <2>2, <2>3, CallsUntouched DEF Armed
<1>9. QED
  BY <1>1, <1>2, <1>3, <1>4, <1>5, <1>6, <1>7, <1>8

(* The restore action.                                                      *)
LEMMA RestoreSteps ==
  ASSUME IInv, Disarm \/ RestoreCas \/ UnpatchEntry \/ StoreUnpatched \/ RestoreConfirm \/ Rearm
  PROVE  IInv'
<1> USE DEF IInv, SharedInv, Step, memory, siteVars, gates, None, TypeOK, MainPc, Building,
            Hooked, Undoing, SiteShape, SlotShape, EntryShape, Replaced
<1>1. CASE Disarm
  <2> USE <1>1 DEF Disarm
  <2>1. TypeOK'
    <3>1. main' \in MainPc /\ restored' \in {"no", "ok", "lost", "failed"}
      OBVIOUS
    <3>2. /\ installed' \in BOOLEAN
          /\ UNCHANGED <<mechanism, slot, code, foreign, site, bound, runtimeGate, pluginGate, call>>
      OBVIOUS
    <3>3. TypeOK
      OBVIOUS
    <3>4. QED
      BY ONLY <3>1, <3>2, <3>3
  <2>2. SharedInv'
    BY DEF Armed, ForeignHookKept, QuiescentAfterRetirement
  <2>3. (slot # "replacement" => MaySkip) /\ slot' # "replacement" => MaySkip'
    BY DEF MaySkip
  <2>4. QED
    BY <2>1, <2>2, <2>3, CallsUntouched DEF Armed
<1>2. CASE RestoreCas
  <2> USE <1>2 DEF RestoreCas
  <2>1. TypeOK'
    BY DEF Gate
  <2>2. SharedInv'
    BY DEF Armed, ForeignHookKept, QuiescentAfterRetirement
  <2>3. (slot # "replacement" => MaySkip) /\ slot' # "replacement" => MaySkip'
    BY DEF MaySkip
  <2>4. QED
    BY <2>1, <2>2, <2>3, CallsUntouched DEF Armed
<1>3. CASE UnpatchEntry
  <2> USE <1>3 DEF UnpatchEntry
  <2>1. TypeOK'
    BY DEF Gate
  <2>2. SharedInv'
    BY DEF Armed, ForeignHookKept, QuiescentAfterRetirement
  <2>3. (slot # "replacement" => MaySkip) /\ slot' # "replacement" => MaySkip'
    BY DEF MaySkip
  <2>4. QED
    BY <2>1, <2>2, <2>3, CallsUntouched DEF Armed
<1>4. CASE StoreUnpatched
  <2> USE <1>4 DEF StoreUnpatched
  <2>1. TypeOK'
    BY DEF Gate
  <2>2. SharedInv'
    BY DEF Armed, ForeignHookKept, QuiescentAfterRetirement
  <2>3. (slot # "replacement" => MaySkip) /\ slot' # "replacement" => MaySkip'
    BY DEF MaySkip
  <2>4. QED
    BY <2>1, <2>2, <2>3, CallsUntouched DEF Armed
<1>5. CASE RestoreConfirm
  <2> USE <1>5 DEF RestoreConfirm
  <2>1. TypeOK'
    BY DEF Gate
  <2>2. SharedInv'
    BY DEF Armed, ForeignHookKept, QuiescentAfterRetirement
  <2>3. (slot # "replacement" => MaySkip) /\ slot' # "replacement" => MaySkip'
    BY DEF MaySkip
  <2>4. QED
    BY <2>1, <2>2, <2>3, CallsUntouched DEF Armed
<1>6. CASE Rearm
  <2> USE <1>6 DEF Rearm
  <2>1. TypeOK'
    BY DEF Gate
  <2>2. SharedInv'
    BY DEF Armed, ForeignHookKept, QuiescentAfterRetirement
  <2>3. (slot # "replacement" => MaySkip) /\ slot' # "replacement" => MaySkip'
    BY DEF MaySkip
  <2>4. QED
    BY <2>1, <2>2, <2>3, CallsUntouched DEF Armed
<1>7. QED
  BY <1>1, <1>2, <1>3, <1>4, <1>5, <1>6

(* The RuntimeGate, and the other party at the slot.                        *)
LEMMA OtherSteps ==
  ASSUME IInv, OpenRuntime \/ CloseRuntime \/ ForeignInstall \/ ForeignRemove
  PROVE  IInv'
<1> USE DEF IInv, SharedInv, Step, memory, siteVars, gates, None, TypeOK, MainPc, Building,
            Hooked, Undoing, SiteShape, SlotShape, EntryShape, Replaced
<1>1. CASE OpenRuntime
  <2> USE <1>1 DEF OpenRuntime
  <2>1. TypeOK'
    BY DEF Gate
  <2>2. SharedInv'
    BY DEF Armed, ForeignHookKept, QuiescentAfterRetirement
  <2>3. (slot # "replacement" => MaySkip) /\ slot' # "replacement" => MaySkip'
    BY DEF MaySkip
  <2>4. QED
    BY <2>1, <2>2, <2>3, CallsUntouched DEF Armed
<1>2. CASE CloseRuntime
  <2> USE <1>2 DEF CloseRuntime
  <2>1. TypeOK'
    BY DEF Gate
  <2>2. SharedInv'
    BY DEF Armed, ForeignHookKept, QuiescentAfterRetirement
  <2>3. (slot # "replacement" => MaySkip) /\ slot' # "replacement" => MaySkip'
    BY DEF MaySkip
  <2>4. QED
    BY <2>1, <2>2, <2>3, CallsUntouched DEF Armed
<1>3. CASE ForeignInstall
  <2> USE <1>3 DEF ForeignInstall
  <2>1. TypeOK'
    BY DEF Gate
  <2>2. SharedInv'
    BY DEF Armed, ForeignHookKept, QuiescentAfterRetirement
  <2>3. (slot # "replacement" => MaySkip) /\ slot' # "replacement" => MaySkip'
    BY DEF MaySkip
  <2>4. QED
    BY <2>1, <2>2, <2>3, CallsUntouched DEF Armed
<1>4. CASE ForeignRemove
  <2> USE <1>4 DEF ForeignRemove
  <2>1. TypeOK'
    <3>1. slot' \in {"original", "replacement", "foreign"}
      OBVIOUS
    <3>2. foreign' \in [saved : {None, "original", "replacement"}, left : BOOLEAN]
      OBVIOUS
    <3>3. QED
      BY <3>1, <3>2
  <2>2. SharedInv'
    BY DEF Armed, ForeignHookKept, QuiescentAfterRetirement
  <2>3. (slot # "replacement" => MaySkip) /\ slot' # "replacement" => MaySkip'
    BY DEF MaySkip
  <2>4. QED
    BY <2>1, <2>2, <2>3, CallsUntouched DEF Armed
<1>5. QED
  BY <1>1, <1>2, <1>3, <1>4

-----------------------------------------------------------------------------
(* Steps of a call.                                                         *)

(* A call that gets a shape that fits, and relies on nothing it may not     *)
(* rely on, keeps the invariant.                                            *)
LEMMA CallMoves ==
  ASSUME IInv, UNCHANGED notCall, NEW c \in Calls, NEW a \in Activation,
         call' = [call EXCEPT ![c] = a], ActivationShape(a),
         a.pc # "Idle" => Armed /\ (slot # "replacement" => MaySkip)
  PROVE  IInv'
<1> USE DEF notCall, memory, siteVars, gates
<1>1. TypeOK'
  BY DEF IInv, TypeOK
<1>2. CallShape'
  BY DEF IInv, TypeOK, CallShape, ActivationShape, NotCalled
<1>3. SharedInv'
  BY DEF IInv, SharedInv, SiteShape, SlotShape, EntryShape, ForeignHookKept,
         QuiescentAfterRetirement, Armed, Replaced
<1>4. Exposed'
  BY DEF IInv, TypeOK, Exposed, At, Armed, MaySkip
<1>5. QED
  BY <1>1, <1>2, <1>3, <1>4 DEF IInv

(* The game gets to the replacement only when the site is complete.         *)
LEMMA EnterStep == ASSUME IInv, NEW c \in Calls, Enter(c) PROVE IInv'
<1> DEFINE a == [call[c] EXCEPT !.pc = "Load"]
<1>1. a \in Activation /\ ActivationShape(a) /\ call' = [call EXCEPT ![c] = a]
  BY
     DEF IInv, TypeOK, Enter, Goto, At, Activation, CallPc, Checks, CallShape, ActivationShape, NotCalled
<1>2. Replaced
  BY DEF Enter, Replaced
<1>3. slot # "replacement" => MaySkip
  BY DEF IInv, TypeOK, SharedInv, Enter, SlotShape, EntryShape, MaySkip
<1>4. Armed
  BY <1>2 DEF IInv, SharedInv, SiteShape
<1>5. QED
  BY <1>1, <1>3, <1>4, CallMoves DEF Enter

(* Steps of the game's calls.                                               *)
LEMMA CallSteps == ASSUME IInv, NEW c \in Calls, CallStep(c) PROVE IInv'
<1>1. ~At(c, "Idle") /\ UNCHANGED notCall
  BY DEF CallStep, LoadSite, CheckSlot, LoadAddr, CheckRuntimeGate, CheckPluginGate, CallOriginal,
         OriginalReturns, HandlerReturns, HandlerPanics, Passthrough, Return, At
<1>2. Armed /\ (slot # "replacement" => MaySkip)
  BY <1>1 DEF IInv, Exposed
<1>3. call[c] \in Activation /\ ActivationShape(call[c])
  BY DEF IInv, TypeOK, CallShape
<1>4. SUFFICES \E a \in Activation : ActivationShape(a) /\ call' = [call EXCEPT ![c] = a]
  BY <1>1, <1>2, CallMoves
<1> USE <1>3 DEF Activation, ActivationShape, CallPc, Checks, Phase, NotCalled, At
<1>5. ASSUME NEW p \in CallPc, Goto(c, p),
             ActivationShape([call[c] EXCEPT !.pc = p])
      PROVE  \E a \in Activation : ActivationShape(a) /\ call' = [call EXCEPT ![c] = a]
  <2>1. [call[c] EXCEPT !.pc = p] \in Activation
    OBVIOUS
  <2>2. call' = [call EXCEPT ![c] = [call[c] EXCEPT !.pc = p]]
    BY <1>5 DEF Goto
  <2>3. QED
    BY <1>5, <2>1, <2>2
<1>6. CASE LoadSite(c) \/ CheckSlot(c) \/ LoadAddr(c) \/ CheckRuntimeGate(c) \/ CheckPluginGate(c)
  <2>1. \E p \in {"Slot", "Addr", "RuntimeGate", "PluginGate", "Passthrough", "Handler", "Fallback"} :
          Goto(c, p) /\ call[c].pc \in Checks
    BY <1>6 DEF LoadSite, CheckSlot, LoadAddr, CheckRuntimeGate, CheckPluginGate
  <2>2. QED
    BY <2>1, <1>5
<1>7. CASE HandlerReturns(c)
  BY <1>7, <1>5 DEF HandlerReturns
<1>8. CASE HandlerPanics(c)
  BY <1>8, <1>5 DEF HandlerPanics
<1>9. CASE CallOriginal(c)
  <2> DEFINE a == [pc |-> "InOriginal", phase |-> "Calling", calls |-> call[c].calls + 1]
  <2>1. call' = [call EXCEPT ![c] = a]
    BY <1>9 DEF CallOriginal
  <2>2. a \in Activation /\ ActivationShape(a)
    BY <1>9 DEF CallOriginal
  <2>3. QED
    BY <2>1, <2>2
<1>10. CASE OriginalReturns(c)
  <2> DEFINE a == [call[c] EXCEPT !.pc = "Handler", !.phase = "After"]
  <2>1. call' = [call EXCEPT ![c] = a]
    BY <1>10 DEF OriginalReturns
  <2>2. a \in Activation /\ ActivationShape(a)
    BY <1>10 DEF OriginalReturns
  <2>3. QED
    BY <2>1, <2>2
<1>11. CASE Passthrough(c)
  <2> DEFINE a == [pc |-> "Done", phase |-> call[c].phase, calls |-> call[c].calls + 1]
  <2>1. call' = [call EXCEPT ![c] = a]
    BY <1>11 DEF Passthrough
  <2>2. a \in Activation /\ ActivationShape(a)
    BY <1>11 DEF Passthrough
  <2>3. QED
    BY <2>1, <2>2
<1>12. CASE Return(c)
  BY <1>12 DEF Return, IdleCall
<1>13. QED
  BY <1>6, <1>7, <1>8, <1>9, <1>10, <1>11, <1>12 DEF CallStep

-----------------------------------------------------------------------------
(* Every step keeps the invariant.                                         *)
LEMMA NextIInv == IInv /\ [Next]_vars => IInv'
<1>1. SUFFICES ASSUME IInv, [Next]_vars PROVE IInv'
  OBVIOUS
<1>2. CASE UNCHANGED vars
  <2>1. UNCHANGED notCall /\ UNCHANGED call
    BY <1>2 DEF vars, notCall, memory, siteVars, gates
  <2>2. TypeOK' /\ SharedInv' /\ (Armed => Armed') /\ (MaySkip => MaySkip')
    BY <1>1, <2>1 DEF IInv, TypeOK, SharedInv, SiteShape, SlotShape, EntryShape, ForeignHookKept,
         QuiescentAfterRetirement, Armed, Replaced, MaySkip, notCall, memory, siteVars, gates
  <2>3. QED
    BY <1>1, <2>1, <2>2, CallsUntouched DEF notCall, memory
<1>3. QED
  BY <1>1, <1>2, BuildSteps, InstallSteps, RestoreSteps, OtherSteps, EnterStep, CallSteps
     DEF Next, MainStep

(* The inductive invariant holds of every behaviour.                        *)
LEMMA Invariance == Spec => []IInv
BY InitIInv, NextIInv, PTL DEF Spec

(* A step of the code can bring a call to its fallback without the original *)
(* only through the look at the slot.                                       *)
LEMMA SkipStep ==
  ASSUME IInv, Next, NEW c \in Calls,
         ~At(c, "Fallback"), At(c, "Fallback")', call[c].calls = 0
  PROVE  MaySkip
<1>1. call[c].pc # "Fallback" /\ call'[c].pc = "Fallback"
  BY DEF At
<1>2. PICK d \in Calls : Enter(d) \/ CallStep(d)
  <2>1. call' # call
    BY <1>1
  <2>2. QED
    BY <2>1 DEF Next, MainStep, Publish, Bind, Capture, Activate, InstallCas, PatchEntry,
         StorePatched, InstallConfirm, InstallRollback, Arm, OpenPlugin, Retire, Disarm,
         RestoreCas, UnpatchEntry, StoreUnpatched, RestoreConfirm, Rearm, OpenRuntime,
         CloseRuntime, ForeignInstall, ForeignRemove
<1>3. /\ call \in [Calls -> Activation] /\ ActivationShape(call[c])
      /\ call[c].pc # "Idle" => Armed /\ (slot # "replacement" => MaySkip)
  BY DEF IInv, TypeOK, CallShape, Exposed, At
<1> USE <1>1, <1>3 DEF Goto, At, Activation
<1>4. CASE CheckSlot(d)
  BY <1>4 DEF CheckSlot
<1>5. CASE LoadSite(d) \/ LoadAddr(d)
  BY <1>5 DEF LoadSite, LoadAddr, Armed
<1>6. CASE CheckRuntimeGate(d) \/ CheckPluginGate(d) \/ Enter(d)
  BY <1>6 DEF CheckRuntimeGate, CheckPluginGate, Enter
<1>7. CASE HandlerReturns(d) \/ HandlerPanics(d)
  BY <1>7 DEF HandlerReturns, HandlerPanics, ActivationShape, NotCalled
<1>8. CASE CallOriginal(d) \/ OriginalReturns(d)
  BY <1>8 DEF CallOriginal, OriginalReturns
<1>9. CASE Passthrough(d) \/ Return(d)
  BY <1>9 DEF Passthrough, Return, IdleCall
<1>10. QED
  BY <1>2, <1>4, <1>5, <1>6, <1>7, <1>8, <1>9 DEF CallStep

-----------------------------------------------------------------------------
(* The theorems.                                                            *)

(* Every variable has its type, whatever the parties do.                    *)
THEOREM TypeCorrect == Spec => []TypeOK
BY Invariance, PTL DEF IInv

(* dispatch enters the original at most once, and once unless it answers    *)
(* with the fallback, for any number of concurrent calls.                   *)
THEOREM OriginalEnteredOnce == Spec => []OriginalOnce
<1>1. IInv => OriginalOnce
  <2>1. ASSUME NEW a \in Activation, ActivationShape(a)
        PROVE  a.calls <= 1 /\ (a.pc = "Done" => a.calls = 1)
    BY <2>1 DEF ActivationShape, NotCalled, Activation, CallPc
  <2>2. QED
    BY <2>1 DEF IInv, TypeOK, CallShape, OriginalOnce, At
<1>2. QED
  BY <1>1, Invariance, PTL

(* Neither install, its rollback nor the restore action loses a hook of     *)
(* another party.                                                           *)
THEOREM ForeignHooksKept == Spec => []ForeignHookKept
<1>1. IInv => ForeignHookKept
  BY DEF IInv, SharedInv
<1>2. QED
  BY <1>1, Invariance, PTL

(* A retired owner's replacement is out of the slot, unless another party   *)
(* has put it back or an entry's restore was reported lost, and an entry's  *)
(* restore that was reported done has put the code back.                    *)
THEOREM RetirementQuiescent == Spec => []QuiescentAfterRetirement
<1>1. IInv => QuiescentAfterRetirement
  BY DEF IInv, SharedInv
<1>2. QED
  BY <1>1, Invariance, PTL

(* No call goes without its original while the hook stands, but in the      *)
(* windows that the property names.                                         *)
THEOREM CallsNotSkipped == Spec => NoSkipBeforeRestore
<1> DEFINE Kept == \A c \in Calls :
                     ~At(c, "Fallback") /\ At(c, "Fallback")' /\ call[c].calls = 0 =>
                       \/ main \in {"RestoreConfirm", "Rearm", "Retired"}
                       \/ mechanism = "slot" /\ foreign.saved = "replacement"
                       \/ mechanism = "entry" /\ main \in {"PatchFlag", "Failed"}
<1>1. IInv /\ [Next]_vars => [Kept]_vars
  BY SkipStep DEF MaySkip, Undoing
<1>2. QED
  BY <1>1, Invariance, PTL DEF Spec, NoSkipBeforeRestore

=============================================================================
