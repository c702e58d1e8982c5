---------------------------- MODULE PluginLifecycle ----------------------------
(***************************************************************************)
(* The owners of an App, from registration to retirement: plugin builds,   *)
(* the Startup driver, the Update driver, the local rollbacks and the      *)
(* teardown of a failed bootstrap (crates/runtime/src/app.rs, manager.rs,  *)
(* host.rs; crates/core/src/plugin_api/phase.rs). One action is one step   *)
(* that a plugin, another thread or a restore action can tell apart.       *)
(*                                                                         *)
(* Plugin code is any sequence of registrations that ends well or badly.   *)
(* Whether a restore action itself fails is only logged, so both outcomes  *)
(* are one step. Debug topics and routes have modules of their own.        *)
(***************************************************************************)
EXTENDS Integers, Sequences, FiniteSetsExt

CONSTANTS
  NOwners,       (* plugins, numbered in registration order                *)
  Resources,     (* resource types of the AppWorld                         *)
  MaxInserts,    (* bound: resources each owner inserts                    *)
  MaxEffects     (* bound: restore actions each owner registers            *)

ASSUME LifecycleAssumption ==
  NOwners \in Nat \ {0} /\ {MaxInserts, MaxEffects} \subseteq [1..NOwners -> Nat]

VARIABLES
  world,         (* the resource types present in the AppWorld             *)
  state, gate,   (* PluginRecord.state, PluginRecord.gate                  *)
  inserted,      (* PluginRecord.inserted, the resource ledger             *)
  effects,       (* PluginRecord.effects, the restore ledger               *)
  inventory,     (* what the last sync_inventory saw of the states         *)
  phase, pc,     (* the driver that runs, and where it is                  *)
  cur, todo,     (* its owner, and the owners left of its snapshot         *)
  pending,       (* inserts queued by the Startup system that has returned *)
  provided,      (* history: the resources an owner ever inserted          *)
  registered,    (* history: how many restore actions it registered        *)
  undone,        (* history: the restore actions taken from its ledger     *)
  found,         (* history: what its systems could find in the AppWorld   *)
  retiredIn      (* history: the phase whose failure retired it            *)

records == <<state, gate, inserted, effects>>
driver  == <<phase, pc, cur, todo, pending>>
history == <<provided, registered, undone, found, retiredIn>>
vars    == <<world, records, inventory, driver, history>>

-----------------------------------------------------------------------------

Owners == 1..NOwners
Kind   == {"AnyThread", "MainThread"}

Active == {o \in Owners : state[o] = "Active"}

(* The phases of the main thread; the others run on the bootstrap worker.   *)
HasMainThread == phase \in {"Startup", "Update"}

At(f, p) == phase = f /\ pc = p

Init ==
  /\ world = {}
  /\ state = [o \in Owners |-> "Unknown"] /\ gate = [o \in Owners |-> "closed"]
  /\ inserted = [o \in Owners |-> <<>>] /\ effects = [o \in Owners |-> <<>>]
  /\ inventory = state
  /\ phase = "Build" /\ pc = "Next" /\ cur = 0 /\ todo = {} /\ pending = <<>>
  /\ provided = [o \in Owners |-> {}]
  /\ registered = [o \in Owners |-> 0] /\ undone = [o \in Owners |-> <<>>]
  /\ found = [o \in Owners |-> {}] /\ retiredIn = [o \in Owners |-> "no"]

-----------------------------------------------------------------------------
(* What plugins do through AppCtx and StartupCtx.                           *)

(* The insert closure succeeded and the ledger records it.                  *)
Insert(o, r) ==
  /\ r \notin world
  /\ world' = world \cup {r}
  /\ inserted' = [inserted EXCEPT ![o] = Append(@, r)]
  /\ provided' = [provided EXCEPT ![o] = @ \cup {r}]

Register(o, kind) ==
  /\ registered[o] < MaxEffects[o]
  /\ effects' = [effects EXCEPT
       ![o] = Append(@, [id |-> registered[o] + 1, kind |-> kind])]
  /\ registered' = [registered EXCEPT ![o] = @ + 1]

(* A failure sends the driver into the rollback of the current owner.       *)
Fail ==
  /\ pc' = "Close"
  /\ retiredIn' = [retiredIn EXCEPT ![cur] = phase]
  /\ UNCHANGED <<phase, cur, todo>>

-----------------------------------------------------------------------------
(* Build, on the bootstrap worker: App::add_plugin_dyn.                     *)

BeginOwner ==
  /\ At("Build", "Next") /\ cur < NOwners
  /\ cur' = cur + 1 /\ pc' = "Run"
  /\ state' = [state EXCEPT ![cur + 1] = "Active"]
  /\ UNCHANGED <<world, gate, inserted, effects, inventory, phase, todo,
                 pending, history>>

BuildInsert ==
  /\ At("Build", "Run") /\ Len(inserted[cur]) < MaxInserts[cur]
  /\ \E r \in Resources : Insert(cur, r)
  /\ UNCHANGED <<state, gate, effects, inventory, driver, registered, undone,
                 found, retiredIn>>

(* A hook is installed: its restore action goes to the ledger.              *)
BuildRegister ==
  /\ At("Build", "Run")
  /\ Register(cur, "AnyThread")
  /\ UNCHANGED <<world, state, gate, inserted, inventory, driver, provided, undone,
                 found, retiredIn>>

BuildOk ==
  /\ At("Build", "Run")
  /\ pc' = "Next" /\ inventory' = state
  /\ UNCHANGED <<world, state, gate, inserted, effects, phase, cur, todo, pending, history>>

(* Any registration may fail (a resource or topic that exists, a target     *)
(* that drifted, a slot that is taken), and with it the build.              *)
BuildFails ==
  /\ At("Build", "Run")
  /\ Fail
  /\ UNCHANGED <<world, records, inventory, pending, provided, registered, undone,
                 found>>

(* All plugins are built: the App is handed off, and the first LateUpdate   *)
(* runs the Startup driver; or the bootstrap fails and tears the App down.  *)
RunStartup ==
  /\ At("Build", "Next") /\ cur = NOwners
  /\ phase' = "Startup" /\ todo' = Active
  /\ UNCHANGED <<world, records, inventory, pc, cur, pending, history>>

TeardownAll ==
  /\ At("Build", "Next") /\ cur = NOwners
  /\ phase' = "Teardown" /\ todo' = Owners
  /\ UNCHANGED <<world, records, inventory, pc, cur, pending, history>>

-----------------------------------------------------------------------------
(* The drivers' loop over the owners of their snapshot.                     *)

NextOwner ==
  /\ phase \in {"Startup", "Update"} /\ pc = "Next" /\ todo # {}
  /\ cur' = Min(todo) /\ todo' = todo \ {cur'}
  /\ pc' = "Run"
  /\ UNCHANGED <<world, records, inventory, phase, pending, history>>

(* teardown_all: the latest owner first, the retired ones are skipped.      *)
NextTornDown ==
  /\ At("Teardown", "Next") /\ todo # {}
  /\ cur' = Max(todo) /\ todo' = todo \ {cur'}
  /\ IF cur' \in Active
     THEN pc' = "Close" /\ retiredIn' = [retiredIn EXCEPT ![cur'] = "Teardown"]
     ELSE UNCHANGED <<pc, retiredIn>>
  /\ UNCHANGED <<world, records, inventory, phase, pending, provided, registered, undone,
                 found>>

(* The snapshot is used up; the inventory is synchronised.                  *)
LoopEnds ==
  /\ phase # "Build" /\ pc = "Next" /\ todo = {}
  /\ pc' = "Rest" /\ inventory' = state
  /\ UNCHANGED <<world, records, phase, cur, todo, pending, history>>

RunUpdate ==
  /\ HasMainThread /\ pc = "Rest"
  /\ phase' = "Update" /\ pc' = "Next" /\ todo' = Active
  /\ UNCHANGED <<world, records, inventory, cur, pending, history>>

-----------------------------------------------------------------------------
(* Startup systems of the current owner.                                    *)

Inserts == UNION {[1..n -> Resources] : n \in 0..2}

(* A system returns Ok; its inserts are queued, its restore actions are in  *)
(* the ledger.                                                              *)
StartupSystem ==
  /\ At("Startup", "Run")
  /\ \E ins \in Inserts :
       /\ Len(inserted[cur]) + Len(ins) <= MaxInserts[cur]
       /\ pending' = ins
  /\ \/ \E k \in Kind : Register(cur, k)
     \/ UNCHANGED <<effects, registered>>
  /\ pc' = "Apply"
  /\ found' = [found EXCEPT ![cur] = @ \cup world]
  /\ UNCHANGED <<world, state, gate, inserted, inventory, phase, cur, todo, provided,
                 undone, retiredIn>>

(* A system returns an error, panics, or lacks a parameter: what it queued  *)
(* is dropped, what it registered stays registered.                         *)
StartupSystemFails ==
  /\ At("Startup", "Run")
  /\ \/ \E k \in Kind : Register(cur, k)
     \/ UNCHANGED <<effects, registered>>
  /\ Fail
  /\ UNCHANGED <<world, state, gate, inserted, inventory, pending, provided, undone,
                 found>>

ApplyInsert ==
  /\ At("Startup", "Apply") /\ pending # <<>>
  /\ Insert(cur, Head(pending))
  /\ pending' = Tail(pending)
  /\ UNCHANGED <<state, gate, effects, inventory, phase, pc, cur, todo, registered,
                 undone, found, retiredIn>>

(* Mutant: the ledger is written whether or not the insert succeeded.       *)
ApplyConflict_Recorded ==
  /\ At("Startup", "Apply") /\ pending # <<>> /\ Head(pending) \in world
  /\ pending' = <<>>
  /\ inserted' = [inserted EXCEPT ![cur] = Append(@, Head(pending))]
  /\ Fail
  /\ UNCHANGED <<world, state, gate, effects, inventory, provided, registered, undone,
                 found>>

ApplyConflict ==
  /\ At("Startup", "Apply") /\ pending # <<>> /\ Head(pending) \in world
  /\ pending' = <<>>
  /\ Fail
  /\ UNCHANGED <<world, records, inventory, provided, registered, undone, found>>

Applied ==
  /\ At("Startup", "Apply") /\ pending = <<>>
  /\ pc' = "Run"
  /\ UNCHANGED <<world, records, inventory, phase, cur, todo, pending, history>>

(* Every Startup system has succeeded: the owner's gate opens (a compare-   *)
(* exchange from closed), whatever its Update systems will find.            *)
OwnerStarts ==
  /\ At("Startup", "Run")
  /\ gate' = [gate EXCEPT ![cur] = IF @ = "closed" THEN "open" ELSE @]
  /\ pc' = "Next"
  /\ UNCHANGED <<world, state, inserted, effects, inventory, phase, cur, todo, pending,
                 history>>

-----------------------------------------------------------------------------
(* Update systems of the current owner.                                     *)

(* Every system finds its parameters, which are looked for only now.        *)
UpdateOk ==
  /\ At("Update", "Run")
  /\ found' = [found EXCEPT ![cur] = @ \cup world]
  /\ pc' = "Next"
  /\ UNCHANGED <<world, records, inventory, phase, cur, todo, pending, provided, registered,
                 undone, retiredIn>>

UpdateFails ==
  /\ At("Update", "Run")
  /\ Fail
  /\ UNCHANGED <<world, records, inventory, pending, provided, registered, undone,
                 found>>

-----------------------------------------------------------------------------
(* The local rollbacks: build_rollback, startup_rollback, update_retire and *)
(* the loop body of teardown_all.                                           *)

(* Mutants of the first step: the gate is left to the end; a failing Update *)
(* rolls the resources back too.                                            *)
Close_Late ==
  /\ pc = "Close"
  /\ IF phase = "Update"
     THEN pc' = "Restore" /\ state' = [state EXCEPT ![cur] = "Retired"]
     ELSE pc' = "Remove" /\ UNCHANGED state
  /\ UNCHANGED <<world, gate, inserted, effects, inventory, phase, cur, todo, pending,
                 history>>

Close_Removes ==
  /\ pc = "Close"
  /\ gate' = [gate EXCEPT ![cur] = "failed"]
  /\ pc' = "Remove"
  /\ UNCHANGED <<world, state, inserted, effects, inventory, phase, cur, todo, pending,
                 history>>

(* An Update retires the owner at once and keeps its resources.             *)
Close ==
  /\ pc = "Close"
  /\ gate' = [gate EXCEPT ![cur] = "failed"]
  /\ IF phase = "Update"
     THEN pc' = "Restore" /\ state' = [state EXCEPT ![cur] = "Retired"]
     ELSE pc' = "Remove" /\ UNCHANGED state
  /\ UNCHANGED <<world, inserted, effects, inventory, phase, cur, todo, pending,
                 history>>

(* Mutant: one resource only.                                               *)
RemoveOne_Once ==
  /\ pc = "Remove" /\ inserted[cur] # <<>>
  /\ world' = world \ {inserted[cur][Len(inserted[cur])]}
  /\ inserted' = [inserted EXCEPT ![cur] = SubSeq(@, 1, Len(@) - 1)]
  /\ pc' = "Restore"
  /\ UNCHANGED <<state, gate, effects, inventory, phase, cur, todo, pending, history>>

RemoveOne ==
  /\ pc = "Remove" /\ inserted[cur] # <<>>
  /\ world' = world \ {inserted[cur][Len(inserted[cur])]}
  /\ inserted' = [inserted EXCEPT ![cur] = SubSeq(@, 1, Len(@) - 1)]
  /\ UNCHANGED <<state, gate, effects, inventory, driver, history>>

Removed ==
  /\ pc = "Remove" /\ inserted[cur] = <<>>
  /\ pc' = "Restore"
  /\ UNCHANGED <<world, records, inventory, phase, cur, todo, pending, history>>

(* Mutants: the ledger is run first in, first out; a failing action ends    *)
(* the rollback.                                                            *)
RestoreOne_Fifo ==
  /\ pc = "Restore" /\ effects[cur] # <<>>
  /\ undone' = [undone EXCEPT ![cur] = Append(@, [id |-> Head(effects[cur]).id, ran |-> TRUE])]
  /\ effects' = [effects EXCEPT ![cur] = Tail(@)]
  /\ UNCHANGED <<world, state, gate, inserted, inventory, driver, provided, registered,
                 found, retiredIn>>

RestoreOne_Stops ==
  /\ pc = "Restore" /\ effects[cur] # <<>>
  /\ LET e == effects[cur][Len(effects[cur])]
     IN  undone' = [undone EXCEPT ![cur] =
           Append(@, [id |-> e.id, ran |-> e.kind = "AnyThread" \/ HasMainThread])]
  /\ effects' = [effects EXCEPT ![cur] = SubSeq(@, 1, Len(@) - 1)]
  /\ state' = [state EXCEPT ![cur] = "Retired"]
  /\ pc' = "Next"
  /\ UNCHANGED <<world, gate, inserted, inventory, phase, cur, todo, pending, provided,
                 registered, found, retiredIn>>

(* execute_restore: the last action leaves the ledger; one that needs the   *)
(* main thread is reported as failed where there is none.                   *)
RestoreOne ==
  /\ pc = "Restore" /\ effects[cur] # <<>>
  /\ LET e == effects[cur][Len(effects[cur])]
     IN  undone' = [undone EXCEPT ![cur] =
           Append(@, [id |-> e.id, ran |-> e.kind = "AnyThread" \/ HasMainThread])]
  /\ effects' = [effects EXCEPT ![cur] = SubSeq(@, 1, Len(@) - 1)]
  /\ UNCHANGED <<world, state, gate, inserted, inventory, driver, provided, registered,
                 found, retiredIn>>

Retired ==
  /\ pc = "Restore" /\ effects[cur] = <<>>
  /\ state' = [state EXCEPT ![cur] = "Retired"]
  /\ pc' = "Next"
  /\ inventory' = IF phase = "Build" THEN state' ELSE inventory
  /\ UNCHANGED <<world, gate, inserted, effects, phase, cur, todo, pending, history>>

Rollback == Close \/ RemoveOne \/ Removed \/ RestoreOne \/ Retired

-----------------------------------------------------------------------------

Next ==
  \/ BeginOwner \/ BuildInsert \/ BuildRegister \/ BuildOk \/ BuildFails
  \/ RunStartup \/ TeardownAll \/ NextOwner \/ NextTornDown \/ LoopEnds \/ RunUpdate
  \/ StartupSystem \/ StartupSystemFails \/ ApplyInsert \/ ApplyConflict \/ Applied
  \/ OwnerStarts \/ UpdateOk \/ UpdateFails
  \/ Rollback

Spec == Init /\ [][Next]_vars

(* A thread inside a rollback goes on: restore actions return.              *)
FairSpec == Spec /\ WF_vars(Rollback)

-----------------------------------------------------------------------------
(* Properties.                                                              *)

(* The ledgers of all owners together are the world: no resource is in two  *)
(* places, and none is in the world unrecorded. A rollback can therefore    *)
(* never remove what another plugin inserted, nor leave anything behind.    *)
LedgerIsWorld ==
  /\ \A o \in Owners : \A i \in DOMAIN inserted[o] : inserted[o][i] \in world
  /\ \A o, p \in Owners : \A i \in DOMAIN inserted[o], j \in DOMAIN inserted[p] :
       inserted[o][i] = inserted[p][j] => o = p /\ i = j
  /\ \A r \in world : \E o \in Owners : \E i \in DOMAIN inserted[o] : inserted[o][i] = r

(* Every registered restore action is in the ledger or was taken from it    *)
(* once, the latest first, through all failures and panics on the way; and  *)
(* none that needs the main thread ever meets a rollback without one.       *)
RestoredOnceInReverse ==
  \A o \in Owners :
    /\ registered[o] = Len(effects[o]) + Len(undone[o])
    /\ \A i \in DOMAIN effects[o] : effects[o][i].id = i
    /\ \A i \in DOMAIN undone[o] : undone[o][i] = [id |-> registered[o] + 1 - i, ran |-> TRUE]

(* Between two drivers the App is settled: the inventory shows every owner  *)
(* as it is, and a retired one has nothing left to undo, but the resources  *)
(* of one that was retired by an Update.                                    *)
SettledBetweenDrivers ==
  pc = "Rest" =>
    /\ inventory = state
    /\ \A o \in Owners : state[o] = "Retired" =>
         effects[o] = <<>> /\ (inserted[o] = <<>> \/ retiredIn[o] = "Update")

(* Nothing of an owner is undone while its callbacks can still enter plugin *)
(* code, and a gate once closed for good is never opened again.             *)
GateClosesFirst ==
  [][\A o \in Owners :
       /\ Len(inserted'[o]) < Len(inserted[o]) \/ Len(effects'[o]) < Len(effects[o])
            => gate[o] = "failed"
       /\ gate[o] = "failed" => gate'[o] = "failed"]_vars

(* An Update failure takes no resource away from anybody. What the systems  *)
(* of a started owner could find is lost only to the Startup rollback of a  *)
(* plugin registered after it; and what its Update systems take and do not  *)
(* find was inserted by nobody, or only by plugins that were rolled back    *)
(* before the first Update.                                                 *)
DependencyLostOnlyToStartup ==
  \A o \in Owners : gate[o] = "open" =>
    /\ \A r \in found[o] \ world :
         \E p \in Owners : p > o /\ r \in provided[p] /\ retiredIn[p] = "Startup"
    /\ \A p \in Owners : ~(provided[p] \subseteq world) => retiredIn[p] \in {"Build", "Startup"}

(* Whatever its restore actions do, a failed owner ends up retired, with    *)
(* every restore action tried.                                              *)
RollbackCompletes ==
  \A o \in Owners : retiredIn[o] # "no" ~>
    (state[o] = "Retired" /\ Len(undone[o]) = registered[o])
=============================================================================
