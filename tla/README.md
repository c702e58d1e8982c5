# ShinySongTools: a TLA+ development of the plugin runtime

This directory specifies the concurrent core of ShinySongTools: the runtime that
is injected into the game, takes over its `LateUpdate`, drives a Bevy-ECS `App`
of plugins from it, lets plugins hook other methods of the game (through their
method pointers or by patching their code), and serves a debug control plane to
one client at a time. The modules are translated from the
source and their properties are model-checked by TLC on small instances. What the
scheduler, hook sites, the plugin lifecycle, bootstrap and `unlock_fps`, the relay of debug
topics, the debug transport, the routes and `translation_dump` promise at every moment is proved by
TLAPS for all values of their constants, and so is that the scheduler implements its abstract specification.

    cd tla
    tlc -workers 2 -config Scheduler.cfg MCScheduler
    for m in Scheduler HookSite PluginLifecycle Startup CallbackRelay DebugTransport \
             CommandDrain TranslationDump; do
      tlapm ${m}Proofs.tla
    done

`PROJECT.json` lists the components, the runs, the source lines of every
definition, the hazards of the code with the properties that watch them, a
mutant for every property, the findings and the theorems.

Source paths below are relative to `src/`.

## 1. The system

| Part | Source | State | Operations | Concurrency and failure |
|---|---|---|---|---|
| Scheduler | `crates/runtime/src/scheduler.rs`, `handoff.rs`, `gate.rs`, `crates/core/src/original.rs` | `failed`, the `Handoff`, per-thread `AppSlot`, per-frame `SchedulerFrame` | `execute`, `claim_app`, `commit`, `Drop`, `publish_global_failure` | any thread may enter; nested callbacks; panics; races with the bootstrap worker |
| Gates | `crates/core/src/gate.rs` | control word and reader flag | `open`, `close`, `is_open` | two separate stores, opened and closed on different threads |
| Hook sites | `crates/core/src/plugin_api/hook.rs`, `crates/core/src/method_slot.rs` | published site, `original_addr`, active and installed flags, the game's slot or the state word of a patched entry | publish, bind, install, dispatch, restore | calls on all threads during install and restore; other hooking libraries |
| Plugin lifecycle | `crates/runtime/src/app.rs`, `manager.rs`, `host.rs`, `crates/core/src/plugin_api/phase.rs` | `AppWorld`, per-owner state, gate, resource ledger and restore ledger, inventory | build, Startup, Update, rollback, retirement, teardown | failure at every registration and system; callbacks on other threads meanwhile |
| Debug topics | `crates/core/src/plugin_api/debug.rs`, `crates/core/src/container.rs`, `crates/runtime/src/core_state.rs` | channel of a topic, its pending counter, two one-place slots | enqueue, handler system, relay system, `handle_pending`, `fail_pending_requests` | lock-free try operations between relay and hook entries; panics; retirement |
| Debug transport | `crates/debug/src/lib.rs` | inbox, outbox, active ids, generation | accept, read, write, dispatch | I/O worker against main thread; reconnects; full queues; global failure |
| Routes and mailboxes | `crates/core/src/container.rs`, `crates/core/src/plugin_api/route.rs`, `crates/runtime/src/routes.rs` | `LatestCell`, `BoundedQueue`, `SharedSlot`, route registry | `try_send`, `take`, `CommandDrain` | callbacks write while the driver drains |
| Bootstrap ladder, FFI | `crates/runtime/src/bootstrap.rs`, `ffi.rs` | one-shot start flag, readiness steps and deadlines, the worker's attachment | `scsp_start`, `run_bootstrap` | called again on any thread; polls a game that is still starting; every rung may fail |
| Observability | `crates/runtime/src/observability.rs`, `crates/core/src/event.rs` | bounded event queue, drop counter | `try_emit`, worker drain | many producers, one consumer, which may fail to start |
| Entry patch | `crates/core/src/entry_patch.rs` | the patched words, the trampoline, the state word | plan, relocate, patch, unpatch | rewritten branches; threads that enter between patch and state word; page writes that fail half-way |
| Plugins | `crates/unlock_fps`, `crates/translation_dump` | settings and diagnostics; a dump with dirty flags | hooks, topics, periodic flush | hooks against systems |
| Introspection | `crates/runtime/src/introspection.rs`, `inventory.rs` | snapshots | update, read | copies that must be refreshed |
| IL2CPP bridge, recon, main-thread token, errors, test support, tools | rest of `crates/`, `experiments`, `tools` | none that lasts | | |

How they interact. The bootstrap worker builds the `App` (Lifecycle/Build), publishes
the scheduler's context, installs the `LateUpdate` hook and leaves the `App` in the
`Handoff`. The first `LateUpdate` on the main thread takes it, runs Startup, opens
the RuntimeGate, and later calls run Update. Plugin hooks (HookSite) read the
RuntimeGate and their owner's PluginGate on the game's threads. The DebugPlugin's
dispatch system runs inside Update; it moves requests from the transport's inbox
into the channel of a topic. Topics of the main domain are served by a system, topics
of the callback domain by a relay system and two slots that a hook entry polls. A
failing owner is rolled back locally; a panic of the driver, or a wrong thread, fails
the whole runtime, closes the gate for good and retires the `App`.

What makes each part correct, and hard:

- Scheduler: one `App`, never in two hands, never mislaid; the original called
  exactly once per frame on all paths; no plugin code off the main thread, nested in
  itself, or after a failure; the gate shut until Startup is done. Tests run one
  thread and one frame at a time.
- Gates: once closed never open; the flag and the control word are two atomics.
- HookSite: the original entered once whatever a handler does; no foreign hook lost;
  nobody runs the handler of a retired owner; no call lost in a window.
- Lifecycle: rollback undoes exactly what the owner did, in reverse, after its gate
  has closed, on a thread that may do so; nobody else loses anything by it.
- Routes: what a callback was told is accepted reaches the main thread once and in
  order, or a newer value has taken its place; callbacks that go on sending cannot keep
  a frame from ending.
- translation_dump: a text that was seen is saved, what was saved stays saved, through
  failing writes and crashes.
- Bootstrap: one attempt, whatever calls it; IL2CPP untouched until the game is ready; every
  way out detaches the worker, closes the gate and undoes the plugins' hooks.
- Observability: an event is reported in order, or counted as dropped; nobody waits.
- Entry patch: the displaced instructions do in the trampoline what they did at the entry.
- unlock_fps: an unlock that was answered ok stays in force whatever the game sets on its main
  thread.
- Topics and transport: every request answered once, with its own answer, on its own
  connection, or known to be lost; counters exact through panics and retirement.

## 2. Modules

| Module | Models | Lowest step |
|---|---|---|
| `AppLifecycle` | what the scheduler promises about the `App` and the gate: built, offered, driven, resting, retired | one abstract step |
| `Scheduler` | the scheduler, the Handoff, the RuntimeGate, the end of the bootstrap worker; refines `AppLifecycle` | one access to shared memory |
| `SchedulerProofs` | the theorems about `Scheduler`, with the refinement of `AppLifecycle` | |
| `HookSite` | one hook site over one slot or one patched entry, its owner's build and retirement, concurrent calls, a foreign hook | one access to shared memory, one page replaced |
| `DisplacedCode` | what a hook at an entry promises: the displaced instructions, executed as if nobody had moved them | one instruction |
| `EntryPatch` | patch, plan, trampoline and a thread that runs through them; refines `DisplacedCode` | one word executed |
| `CodePlaces` | the places a thread may be at, shared by both | |
| `Observability` | the compact event queue and its drain worker | one access to the queue or the counter |
| `Bootstrap` | `scsp_start`, the readiness ladder and every way it ends; extends `Observability` | one rung, one look at the game or the clock |
| `UnlockFps` | the plugin of that name: setters' hooks, route, topic, native calls | one native call, one dispatch |
| `Startup` | `Bootstrap` composed with an instance of `UnlockFps`, whose `App` it builds, hands off or tears down | |
| `PluginLifecycle` | all owners of an `App` from build to retirement | one registration, insert, removal or restore action |
| `CallbackRelay` | one topic of the callback domain | one operation on a slot or channel |
| `DebugTransport` | the transport with one topic of the main domain | one critical section |
| `CommandDrain` | routes from callbacks to the main thread of all three mailbox kinds, and the stage of Update that empties them | one operation on a mailbox |
| `TranslationDump` | the plugin of that name on top of an instance of `CommandDrain`: capture, merge, flush, bulk topics, crash and restart | one operation on a mailbox, one file replaced |
| `HookSiteProofs`, `PluginLifecycleProofs`, `StartupProofs`, `CallbackRelayProofs`, `DebugTransportProofs`, `CommandDrainProofs`, `TranslationDumpProofs` | the theorems about the module of that name; `StartupProofs` also about `Bootstrap`, `Observability` and `UnlockFps`, of which it is composed | |
| `MC...` | model values and definitions for TLC | |

Names follow the source. Where an action stands for part of a function, the program
counter values name the step that comes next (`"Claim"`, `"GateStore"`, ...).

**Scheduler.** `frame[t]` is the stack of frames of thread `t`, of which the top one
runs; nested callbacks can only be entered while the frame below is in a callee (the
driver or the original). `tls[t]` is its `AppSlot`. `control` and `flag` are the two
atomics of `RuntimeGate`, so `open` and `close` are two actions each. `worker` goes from
`publish_context` to `Done` or to the rollback of a failed `install_hook`. The panics
that `execute` recovers from are those of the drivers; a system's panic is caught
inside `run_system` and belongs to `PluginLifecycle`. `lost` says when the `App` was given
up on purpose (leaked by the bottom-line `Drop`, dropped by the worker).

**AppLifecycle** has three variables and six actions. The refinement mapping
(`AppStage`) computes where the `App` is from the worker, the Handoff, the frames and
the slots. It drops threads, stacks, the flag and the original.

**HookSite.** `mechanism` is what the target declares. For `"slot"` the word `slot` is the game's
method pointer; for `"entry"` it is the virtual state word of `EntryPatchMemory`, and `code`
says where a call of the method really goes: replacing the page and storing the word are two
actions, and the page may be replaced although its readback fails. The main thread is one program counter from `publish` through
`MethodPointerSlot::bind`/`install` to the restore action of the ledger. A call records
its `OriginalGuard` phase and how often it entered the original. The gates are one value
each, the one that a reader sees; the window between their two stores is the subject
of `Scheduler`. The foreign hook installs once, and removes itself once if it still owns
the slot, as a well-behaved library does. It never takes a patched entry: the state word
would not show it.

**EntryPatch.** A word is a record of the fields its encoding has; immediates keep the width
of their field (`Field`, `Sext`), and the bit number and the distance of a test-bit branch are one
number, as in bits 23 to 5 of the instruction, because the code masks and or's across the two.
`Position` is `ops_pos`, `Trampoline` what `build_trampoline` leaves in the page. A behaviour picks
a window, a replacement's distance and the data its tests find, builds the trampoline, and runs
one thread through it a word at a time; the processor's actions are external. The refinement mapping `Displaced` says which
instruction of the function a place in the trampoline stands for; the words of a far sequence
stand for one instruction until the one that decides. Places in the patched words map to
`Lost`, which `DisplacedCode` never reaches.

**Observability, Bootstrap, Startup.** An event is its number in the order of the emissions. A
refused push and the counter it raises are two actions. `entry[e]` is a call of `scsp_start`,
`worker[e]` the worker it spawned, by its rung; "late" says that the clock has passed the deadline
of the poll it is in, and looking at the game and at the clock are two actions. A panic in a
call is caught by the outermost guard and becomes an event. Each rung may fail.
`Startup` gives the App one plugin or none, runs its Startup in the first frame after
the hand-off, and lets `UnlockFps` go on from there.

**UnlockFps.** `setting` has the three places of the switch: the resource, the cell of the route,
the last answer. `unity` is what the original setters were last told. `setter` is one
call of a setter that arrived at a replacement, between its dispatch and the original. Another
party may take either slot, for good. The plugin's gate stands for both gates.

**PluginLifecycle.** `phase` and `pc` say which driver runs and where; `cur` is the
owner it works on and `todo` what is left of its snapshot of the active owners. A plugin's
build is any sequence of inserts and hook registrations that succeeds or fails; a
Startup system queues inserts that are applied when it has returned, and its restore
actions are registered immediately. Opening the gate asks nothing of the parameters of Update
systems, as these are looked up at their first run; an Update that does not find one fails (`UpdateFails`).
History variables record what each owner ever
provided, registered, what the world held when its systems ran (`found`), and which restore actions were run. The stages of Update before
the systems touch neither ledger nor owner state; `CommandDrain` has a module of its
own, `MessageMaintenance` (Bevy's double buffering of messages) has none.

**CallbackRelay.** A request is its number, an answer the number of the request whose
handler produced it, so that a wrong pairing shows. Slot operations are `try_lock`s that
may fail only while somebody else is at an operation on that slot. The reference that
the relay still has to the payload between `try_send` and the pop of the queue is the
relay's program counter `"Pop"`. `onMain` is fixed at the start: whether the hooked
method is called on the main thread only.

**DebugTransport.** Each critical section of a transport lock is one action. Framing and
JSON parsing are abstracted to which answer a frame gets: valid, refused with its id
(`"undelivered"`), or refused without (`"nameless"`). `"undelivered"` also stands for the
built-in topics, whose answers differ in content only. Requests whose id is `null` are
never tracked as active by the code and are covered by `"nameless"`. What `retain` and `drain`
leave of a queue is `Retain`, the increasing enumeration (`InOrder`) of the places that stay: it is the
same sequence as a filter written recursively, in a form the provers can reason about.

**CommandDrain.** `Table` is the route table in registration order, `box[r]` what the
mailbox of a route holds. A value is the number of its send, so that order, loss and
duplication show in `accepted` and `delivered`. `LatestCell` and `BoundedQueue` are lock-free and
linearizable, so each operation on one is one action; `SharedSlot` only tries its
lock and may find it taken while somebody else is at an operation on the same slot
(`Contended`, `DrainAt`). `drain.todo` is the set of routes that the stage has still to visit; it
is always at the first of them, as routes are visited in the order of their registration. The
watermark of a route (`drain.left`) is read when the stage
reaches that route, as in the code; `mark` records what it allowed. Bevy's `Messages<T>`
is the sequence `delivered[r]`.

**TranslationDump.** `D == INSTANCE CommandDrain` with the two bounded routes of the plugin; `Content`
says what the n-th send carries: a key with a text, or a text that is not UTF-16. `entries`,
`lyrics`, the two dirty flags and `frames` are the fields of `DumpState`, `disk` the two
files it is saved to and the files of the bulk topics. `main` walks a frame: drain, `dump_update` (`MergeNext` for each record of the first loop, then
`DumpUpdate`), then any number of debug requests. The table
is replaced by a rename, so its write succeeds or fails as a whole; the lyrics file is renamed
into place even if its last buffer could not be written, so it may be `Torn`. `Crash` may
happen between any two steps; `Restart` begins with `DumpState::load`, which reads the table and
not the lyrics, and retires the plugin if that fails. The bulk topics step through a
batch of keys per request; here a request is for one key, which has the same states
between requests. `disk.files` says of the files of a key whether there are none, whether one is cut
off, or whether all are whole: the files are written in place, so a request that fails
may leave one cut off (`LeftAs`), as does a crash, which is that failure followed by `Crash`. A topic in
`Skipping` (lyricsdump) leaves what exists as it is, and passes a pattern over whose name cannot
be allocated (`WrittenAs`). Keys are numbers, in the order in which the handlers list them; `Place` is the
index of a key in that list, which `Ids` gives as a set.

## 3. Runs

Nine runs hold, and three show a disagreement between the code and what is said of it.

| Run | Question | Instance | Result |
|---|---|---|---|
| `scheduler` | all safety, refinement and liveness of the scheduler | main thread and a wrong thread, nesting 3 | holds |
| `scheduler_gate_race` | `failed` implies a closed gate | same, nesting 2 | violated |
| `hook_site` | original once, skipped calls, foreign hooks kept, quiescence, for both mechanisms | two calls, foreign hook | holds |
| `entry_patch` | the trampoline implements the displaced code | all windows of one instruction, and of four with two that are not plain, without the branches of the next row; four distances of the replacement | holds |
| `entry_patch_test_bit` | a relocated test-bit branch tests its bit and goes as far as it should | the same windows with test-bit branches whose distances have high or negative bits | violated |
| `lifecycle` | ledgers, order of undoing, retirement, lost dependencies | three owners, two resource types | holds |
| `relay` | counter, handled once, right answer, every request answered | two hook entries, ceiling 2, four requests | holds |
| `relay_panic` | a panicking request is itself answered | same | violated |
| `debug` | isolation, answered once, ids, nothing lost, every frame answered | two connections, one id, three frames, queues of 2 | holds |
| `command_drain` | no loss, order, watermark, delivery | a route of each kind, two owners, two hook entries, capacity 2, three sends | holds |
| `translation_dump` | accumulation, saving, bulk dumps | two keys, two texts, two sends, queues of 1, flush every 2 frames, both bulk topics, one crash | holds |
| `startup` | one probe, events accounted for, clean ends, answers that hold, settling | two calls of `scsp_start`, one plugin, two setter threads, queue of 1, two events | holds |

Why the bounds are enough to be of interest:

- *Scheduler.* Two threads give every race between the thread that drives the `App` and
  one that fails the runtime, and both race the worker. Two frames on a stack are
  needed for a nested callback to find the slot `Busy`, three for one nested in the
  original of a nested frame. The proofs cover every set of threads and every depth.
- *HookSite.* Calls do not share state with each other; two show that they do not
  disturb each other's guards, and the slot's other writers are the main thread and
  the foreign hook.
- *PluginLifecycle.* Three owners give one before and one after the one that fails. Owner 2
  inserts two resources and registers two restore actions (order matters from two on), owner 1
  inserts one (a provider for later owners, a source of conflicts), and so does owner 3, whose Startup rollback takes it from the
  two that have started.
- *CallbackRelay.* Two entries are what it takes for two requests to be in flight; a
  ceiling of 2 is met with three requests, and a fourth makes a refusal overtake.
- *EntryPatch.* Sizes and positions of a window depend on each instruction's own kind and target,
  and a relocated branch on those between it and its target: two instructions that are not plain
  put an expanding one before, behind and inside a branch in the window, of four words, the largest there
  is. Distances lie in the window both ways and outside it both ways. The replacement
  is near, far, and at both ends of the reach of a branch. Distances of test-bit
  branches are those for which the code's masks do no harm; the others are in `entry_patch_test_bit`:
  the refinement fails of them.
- *DebugTransport.* Two connections are one replaced and one live. Three frames fill a
  queue of 2 and reuse an id twice; frames with different ids do not interact but through the
  queues, which the same id fills as well.
- *Startup.* A second call of `scsp_start` is what the marker is for. Two events overflow a queue
  of one, before the drain worker runs or while it does. The game sets one rate and one vsync,
  neither of them the unlocked value; a second thread makes calls that overlap a set.
- *CommandDrain.* A route of each kind in one table lets the stage skip, contend and
  drain in one pass. Three values on a queue of 2 meet the full queue, and a value that comes
  after the watermark. Two entries contend with each other on a shared slot as
  well as with the stage.
- *TranslationDump.* One key has two texts, so that `Merge` meets a new key, a change and a repetition, after a
  restart as well; two sends fill a queue of 1. The dictionary brings the other key, before or after, so that
  scenariodump's list grows at either end while it is gone through; lyricsdump has one key, whose
  file may be cut off and met again. One crash is followed by a whole session on what
  it left. A text that cannot be decoded is no part of the instance; the proofs cover it.

Bounds in the guards: `MaxDepth` (nesting), `MaxInserts` and `MaxEffects` (per owner),
`MaxRequests`, `MaxFrames`, `MaxEvents` and `MaxSends` (of a behaviour), `MaxConnections`, `MaxCrashes`.
`MaxPending`, `MaxInbox`, `MaxOutbox`, `Capacity` and `FlushInterval` are the program's own
limits with smaller values. `CHECK_DEADLOCK` is off in all
runs: a game may stop calling, a failed bootstrap ends, and the bounds end behaviours.

### Fairness

- `Scheduler!FairSpec`: weak fairness of the worker and of each frame's own steps (a running
  thread goes on; no step waits for another thread, since the Handoff is only
  `try_lock`ed); the game keeps calling `LateUpdate` on its main thread, as it does
  once per rendered frame; a driver and the original return even if nested callbacks
  interrupt them again and again (strong fairness per stack level). Nothing is assumed of
  calls on the wrong thread.
- `HookSite!FairSpec`: the main thread's straight-line code and the calls go on. Neither
  opening, closing nor retirement is assumed to happen.
- `EntryPatch!Spec`: the one thread goes on, as the abstract one does.
- `Startup!FairSpec`: calls of `scsp_start`, the bootstrap worker and the drain worker go on, and the
  clock passes every deadline. Neither the loader nor the game is assumed to progress, nor the
  plugin or the game's setters.
- `PluginLifecycle!FairSpec`: only a rollback that has begun goes on; a restore action returns.
- `CallbackRelay!FairSpec`: the relay system runs once per frame and the game goes on calling the
  hooked method; both are strongly fair since they alternate on one thread when
  `onMain`, where each is disabled while the other runs.
- `DebugTransport!FairSpec`: both threads go on. Clients are not assumed to connect, send or
  leave.
- `CommandDrain!FairSpec` and `TranslationDump!FairSpec`: the game keeps rendering frames, so the
  main thread's steps go on, and a `try_send` that has begun ends, as none of them waits. Nothing
  is assumed to be sent. A shared slot is contended for ever only by callbacks that send for
  ever; `MaxSends` bounds those, so that delivery through a shared slot is shown for
  finite bursts only. A frame serves no more requests than its topics had pending
  (`DEBUG_MAX_PENDING`), so that it ends (strong fairness of `EndFrame`). Neither topics, crashes nor
  restarts are assumed to happen.

## 4. What the runs show

*Scheduler.* The one `App` is always in exactly one place (`AppNotShared`, `AppHeld`); the
original is entered exactly once in a frame on each path through `execute`, its panic
recovery and `Drop` (`OriginalExactlyOnce`); drivers run on the main thread in the
frame that holds the `App` and never in each other (`DriverExclusive`); callbacks are let in
only after Startup (`GateClosedDuringStartup`); an `App` in the Handoff is eventually claimed
(`HandoffIsClaimed`); a failure ends all driving for good (`FailureRetiresApp`); and all of it
implements `AppLifecycle` (`ImplementsLifecycle`).

*HookSite.* The original is entered once per call whatever the handler does (`OriginalOnce`); a
hook of another party is never overwritten (`ForeignHookKept`); a retired owner's
replacement is out of the slot, unless the other party puts it back or the restore of a patched entry
is reported lost (`QuiescentAfterRetirement`), and its handlers stop running for
good (`RetirementQuiesces`). `NoSkipBeforeRestore` says exactly when a call may return without the
original: with a method pointer, only after the restore has begun or another party has taken
the slot; with a patched entry also between the replacement of the code and the store of its
word, and for good after a patch whose readback failed.

*EntryPatch.* `ImplementsDisplaced`: in the windows of the run, calling the
original through the trampoline executes the same instructions, takes the same branches, leaves
to the same places and comes back to the same points, and no thread is ever sent into the
overwritten words; a window with `adr`, `adrp` or a literal load of a general register is refused. Two
exceptions: literal loads of vector registers, which the planner lets pass, are executed in their turn but load
from elsewhere (`RunVectorLiteral`; the constant `Strays` of `DisplacedCode` excepts them from its promise); and
windows with test-bit branches whose old distance has the bits that the masks keep are not in the run, because the
refinement is false of them (3 below).

*Startup.* `ProbedOnceWhenReady`: however often and wherever `scsp_start` is called, `il2cpp_domain_get` is
probed at most once and only in a game that is ready. `EndsClean`: a bootstrap that has ended without a
hand-off has its gate closed for good (if it had one), its thread detached and its plugin's
replacements out of their slots. `EventsAccounted`: every event is reported, waiting, or counted as
dropped, in order and once. `StartSettles`: a bootstrap that began ends, even if the game never comes
up, and a waiting event is reported if the drain worker could be spawned. `AnswerHolds`: after `unlock_fps.set`
has answered ok to an unlock, Unity stays unlocked whatever the game sets on its main thread, until the next
set, as long as both slots are ours and the game has called no setter on another thread (nothing is said of
Unity's values after an ok to "off"); an error means that a slot is lost, and the switch and its route agree all the same.

*PluginLifecycle.* `LedgerIsWorld`: the ledgers partition the world at every moment, so that no
rollback can remove another owner's resource. `RestoredOnceInReverse` (and an action that
needs the main thread never meets a rollback without it), `GateClosesFirst`,
`RollbackCompletes`, and `SettledBetweenDrivers`: while no driver runs, a retired owner has
left nothing behind that its rollback undoes, and the inventory is current.
`DependencyLostOnlyToStartup` is about owners whose gate is open. What the world held when their systems
ran is taken from it only by the Startup rollback of an owner that was registered later; Update failures take
nothing away. A started owner may also lack a parameter of its Update from the start: the gate opens after the Startup systems,
and `LazyUpdateSystem` looks its parameters up only when it first runs, where it fails and retires the owner.
Then nobody provided it, or only owners that Build or Startup had rolled back: `APP.md:76`, `110` and
`PLUGIN_API.md:69`, `103` describe both ways, and the property says there is no third.

*CallbackRelay.* `PendingIsExact` and the first half of `HandledOnceAnswersMatch` (no request is handled
twice, none that was answered as undelivered is handled at all) hold on any threads, with
contention, panics and retirement. That answers match their requests, and `EveryRequestAnswered`, hold as
long as the method is called on the main thread only and no handler has panicked.

*DebugTransport.* `AnsweredOnceAndHere` (no answer reaches another connection than its request came
from, none is given twice), `NothingIsLost` (up to a full outbox and the stale drain),
`CarefulFrameIsNotRefused` (a client that waits for its answers is never told that an id is active),
`OneFramePerId` (at most one frame of an id is under way, but for what a refused duplicate frees; see
below), `RetiredIsNotServed`, `EveryFrameAnswered`.

*CommandDrain.* `DrainContract`: a queue delivers everything it has accepted, in order and in a frame no
more than the stage saw when it came to it; a single slot loses only what a newer value replaced and
delivers nothing twice. `EveryValueArrives`: what is stored is delivered, replaced, or
its owner retires.

*TranslationDump.* `TableAccumulates`: a key of `localify.json` survives every flush, crash and restart.
`EveryTextIsSaved`: a merged text gets to disk unless another text replaces it, or a failed write
or a crash ends the plugin first. `DoneMeansAll`: a bulk topic that reports `done` has gone past
all its keys, provided that the table has not grown since it began, and scenariodump has then left the files of
each of them whole, whatever earlier requests and crashes had cut off. It does not hold of the files of lyricsdump
(see below), nor can it: a pattern whose name cannot be allocated is passed over silently (`lib.rs:1296-1298`).

### Disagreements of the code with what its comments and documents say

1. `scheduler_gate_race` (`FailedImpliesGateClosed`): `RuntimeGate::open` sets the control word and then the flag; a failure
   published by another thread in between is followed by `flag = true`, and the gate
   reads as open for good (`crates/core/src/gate.rs:82`; `crates/runtime/src/scheduler.rs:201-203`).
2. `relay_panic` (`PanicIsAnswered`): a panicking callback handler leaves its request in flight, and every later answer
   goes to the request before its own (`debug.rs:502`; `crates/debug/README.md:146`).
3. `entry_patch_test_bit` (`TestBitRelocated`): a relocated `tbz` or `tbnz` keeps high bits of its old distance: three of them
   when it skips a far jump, four when it stays in the window, where a backward distance
   overwrites the bit number as well (`crates/core/src/entry_patch.rs:465`, `460`; `458-459`, `464`). Branches
   whose old distance has these bits clear, which is up to 1023 words forward, are relocated
   correctly if they do not go backward inside the window.

Others were met while modelling and have no run of their own:

- `execute` looks at `failed` before it checks the thread (`scheduler.rs:260`, `273`), so that after a
  global failure a wrong thread may take the `App` from the Handoff and retain it.
- When `install_hook` fails after `publish_context`, `failed` stays false (`bootstrap.rs:420-427`).
- The branch for a refused Handoff publish cannot tear down an `App` it no longer has
  (`bootstrap.rs:433`); no second publish exists that would take it.
- A call that entered the replacement before the restore and looks at the slot after it answers
  with the fallback, without the original (`hook.rs:255`), though `hook.rs:220-224` says it is never
  skipped; `NoSkipBeforeRestore` is the claim that holds. A patched entry opens the same window at
  installation, and leaves it open if the readback fails after the page was replaced: the word says
  pristine, so nothing restores the code (`entry_patch.rs:205-212`, `651-663`).
- The refusal of a duplicate id frees that id (`crates/debug/src/lib.rs:210`; `28-30`), so that a third
  frame with it is accepted while the first is under way. `OneFramePerId` names the exception.
- The planner's test for literal loads compares five bits with a value that the literal loads of vector
  registers do not have, so that these are copied and load from elsewhere, although "literal loads still fail
  closed" (`entry_patch.rs:309`; `246-247`); `entry_patch` has them in its windows. The same test refuses
  pre-indexed stores, which could be copied.
- A lyrics file that a failed write or a crash has cut off exists, so lyricsdump skips it in every later request and
  reports `done` over it (`translation_dump/src/lib.rs:1320`, `1108`); a pattern whose name cannot be allocated is
  skipped without a trace (`1296-1298`). The comment says "files that exist are written" (`1246-1247`).
- `[fps] unlock_fps = true` sets the frame rate at Startup, but the route that the setters' handlers
  read is only written by `unlock_fps.set` (`unlock_fps/src/lib.rs:169`, `278`): until then the game's own next
  call sets its rate again. A call of a setter on another thread that passed its dispatch before a
  set ends after it, and overwrites what was answered.
- A `dlopen` of the image that fails is logged as an exceeded deadline (`ffi.rs:99`), and a game that
  becomes ready between the last look and the clock is given up (`bootstrap.rs:189-196`).
- A drain worker that cannot be spawned is never tried again (`observability.rs:118`): events are
  then only counted.
- A requeued request may be replaced in the slot by the next one (`debug.rs:491-499`). The
  counter stays exact, as `PendingIsExact` shows; in the model the overtaken entry loses it only
  with entries on another thread.
- The relay delivers when the request slot is empty, not when the answer is there
  (`debug.rs:527`, against `503-504`): with hook entries on several threads two requests
  are in flight, one answer is lost and the other paired with the wrong request. Matching answers are
  therefore stated for methods called on the main thread only.
- The dispatch system reads the generation before it locks the inbox
  (`crates/debug/src/lib.rs:465`, `472`): frames of a connection accepted in between are dropped
  although they are current. `NothingIsLost` excepts them.
- The watermark is read per route when the stage reaches it, and latest and shared
  routes ignore it (`app.rs:294-306`), so that a value written after the stage began may be
  delivered in the same frame. The comment there says it stays queued until the next.
- A record that only changes the lyrics never makes a flush due (`translation_dump/src/lib.rs:238`), a
  failed lyrics write clears `lyrics_dirty` (`268`), an error of the last buffer goes unseen
  and leaves a cut-off file in place (`263-266`), and the file of the last session is
  overwritten without being read.
- `dump_update` may merge new keys while a bulk topic is under way; those that sort before its
  cursor are skipped, and it reports `done` all the same (`lib.rs:1174`).
- The dictionary walk reads ids as `u32`, the hooks record them as `i32` (`lib.rs:1070`, `46`), so
  that a negative id gets two keys.
- `get_bytes_replacement` writes files inside the hook (`lib.rs:492`), which a crash may cut off and
  nothing repairs; the same file asks hooks not to do I/O.
- After a global failure the dispatch system does not run any more, so that the requests
  that wait get no `runtime_unavailable` (`crates/debug/src/lib.rs:492`, `23-24`).

## 5. Proofs

Every theorem is about the `Spec` of its module, without fairness, so it holds of `FairSpec`
as well. Assumptions on constants are the named ones of the modules (`SchedulerAssumption`, ...):
a main thread among the threads, queues of at least one place, bounds that are
natural numbers. None restricts a constant to the values of a run. Each inductive invariant was
checked by TLC on the run's instance before it was proved. The proofs have the same
layout: lemmas about the data; then the invariant holds initially, and each action keeps
each of its conjuncts; then the theorems. What follows says what
makes each invariant inductive, since hardly any of the properties is by itself.

### `SchedulerProofs`: every set of threads, every depth of nesting

| Theorem | States |
|---|---|
| `TypeCorrect` | `Spec => []TypeOK` |
| `AppNeverShared` | `Spec => []AppNotShared` |
| `AppNeverMislaid` | `Spec => []` of `AppHeld` and of `BusyIffInFlight` |
| `OriginalOnce` | `Spec => []OriginalExactlyOnce` |
| `DriversAreExclusive` | `Spec => []DriverExclusive` |
| `GateOrder` | `Spec => []` of `GateClosedDuringStartup` and of `FailedIsFinal` |
| `SchedulerImplementsLifecycle` | `Spec => ImplementsLifecycle` |

`IInv` is the conjunction of

- `TypeOK`;
- `StackShape`: what each frame knows at its program counter (`FrameShape`: the phase of
  the original, whether it has the `App`); what lies above the top of a stack is idle,
  and every frame below it is in a callee, so that only the top frame moves;
- `MainOnly`: only frames of the main thread hold the `App` or reach `Claim`;
- `WorkerShape`: what the worker's program counter says about the context, the hook and
  the `App` it may have dropped;
- `GateShape`: the two gate properties, with what the program counters of openers and
  publishers say about the control word and `startup`;
- `Ownership`: where the `App` is, as one statement with exactly one holder, with the slot
  of that thread `Busy` exactly while a frame of it holds the `App`.

`Ownership` is what `AppNotShared` and `AppHeld` need to be kept by `Claim`, `Commit` and `Forget`: a
claim must know that no other holder exists, and the commit that the slot is still `Busy`.
It in turn needs `StackShape` (one frame of a thread moves) and `MainOnly` (one thread
drives).

The refinement maps every step of the scheduler to a step of `AppLifecycle` or to a stutter. It
needs `StageShape` besides: who is about to retire the `App` has seen the gate closed for good or
`failed` set, and who is about to put it back after a drive that ended has left Startup behind.
`Ownership` makes the mapping `AppStage` a function of one holder: a step that
moves the `App` changes the stage as the abstract action says, and all the others leave it.

### `HookSiteProofs`: every set of calls, both mechanisms, with and without a foreign hook

| Theorem | States |
|---|---|
| `TypeCorrect` | `Spec => []TypeOK` |
| `OriginalEnteredOnce` | `Spec => []OriginalOnce` |
| `ForeignHooksKept` | `Spec => []ForeignHookKept` |
| `RetirementQuiescent` | `Spec => []QuiescentAfterRetirement` |
| `CallsNotSkipped` | `Spec => NoSkipBeforeRestore`, an action property |

`CallShape` gives each call the phase of its `OriginalGuard` by its program counter, which is
`OriginalOnce`. The rest is about the site: `SiteShape` (complete before the
replacement can be reached: the reason why no call meets an unpublished site), `SlotShape` (who
may have written a method pointer at each point of `install` and of the restore) and `EntryShape` (page and
word of a patched entry can differ only at certain points). `Exposed` says when a call that has
reached the replacement may find something else in the slot; that is what
`NoSkipBeforeRestore` asks of the step that would skip.

### `PluginLifecycleProofs`: every number of owners, every set of resources

| Theorem | States |
|---|---|
| `TypeCorrect` | `Spec => []TypeOK` |
| `WorldIsRecorded` | `Spec => []LedgerIsWorld` |
| `RestoresAreExact` | `Spec => []RestoredOnceInReverse` |
| `SettledAtRest` | `Spec => []SettledBetweenDrivers` |
| `DependenciesKept` | `Spec => []DependencyLostOnlyToStartup` |
| `NothingUndoneBehindOpenGate` | `Spec => GateClosesFirst`, an action property |

`DriverInv` says what a driver knows: the owner it works on is active until its rollback has
begun, is not among those to come, and has its gate closed for good before anything is undone
(`DriverShape`); owners are whole while active and emptied once retired, but for the one a
rollback is at (`OwnerShape`); Startup opens gates in the order of the owners (`GateOrder`).
`DependencyInv` is about what owners find: what an owner provided stays in its ledger, and so in the world,
until a Build, a Startup or a teardown rolls it back (`Held`); nothing vanishes while the systems of one owner
start, and nobody finds anything before (`FoundSoFar`); and what a started owner has found and the world lacks
was lost to the Startup of a later owner (`LostToStartup`).
`LedgerInv` says that what a ledger lists was provided by its owner (`Recorded`), and that the drivers
which run off the main thread meet no restore action that needs it (`NoMainThreadEffects`).
`DependencyLostOnlyToStartup` needs `GateOrder`: the rollback of a Startup cannot reach
an owner that came before the one that fails.

### `StartupProofs`: every set of calls of `scsp_start`, every capacity of the event queue

| Theorem | States |
|---|---|
| `ProbeIsSafe` | `Spec => []ProbedOnceWhenReady` |
| `NoEventLost` | `Spec => []EventsAccounted` |
| `BootstrapEndsClean` | `Spec => []EndsClean` |
| `AnswersHold` | `Spec => []AnswerHolds` |

`ObservedInv`: reported and waiting events together are in order, and none is newer than the last
emission (`NotAhead`), so that the next one can be put behind. `BootInv`: the start marker lets
one call through (`OneClaim`), whose worker holds at each rung what the code gave it there
(`WorkerShape`, `ContextShape`), and only that worker probes, in a game that is ready (`ProbeShape`).
`FpsInv`: the plugin's replacements are in their slots while it lives, switch and route agree once
an answer was given, and a setter's call that passed its dispatch on the main thread
carries the unlocked value (`SlotShape`, `SettingShape`, `CallShape`, `Applied`). `AppShape` ties the two: the plugin
lives in the `App` of that one worker, so a bootstrap that ends without a hand-off ends it too.

### `CallbackRelayProofs`: every set of hook entries, every ceiling, every number of requests

| Theorem | States |
|---|---|
| `TypeCorrect` | `Spec => []TypeOK` |
| `EachRequestInOnePlace` | `Spec => []PendingIsExact` |
| `RequestsHandledOnce` | `Spec => []HandledOnceAnswersMatch` |

`PendingIsExact` counts occurrences in queues; the lemmas `CountAppend`, `CountTail`,
... say what each queue operation does to the counts. `Delivery` says for each request who may
still hand it to a handler: the queue until the relay has sent it, then the slot or the one hook entry
that took it. `Retirement` says that nothing is undelivered before the retirement and nothing
queued after it. `Exchange` holds as long as the method is called on the main thread only: relay
and hook entries take turns (`Turns`), and until a handler panics one request at
most is under way (`SingleFlight`), so that the front of the in-flight list is the
request that the answer belongs to.

### `DebugTransportProofs`: every set of ids, every queue limit, every number of connections and frames

| Theorem | States |
|---|---|
| `TypeCorrect` | `Spec => []TypeOK` |
| `AnswersAreOnceAndHere` | `Spec => []AnsweredOnceAndHere` |
| `FramesAreNotLost` | `Spec => []NothingIsLost` |
| `CarefulClientsAreServed` | `Spec => []CarefulFrameIsNotRefused` |
| `IdsAreExclusive` | `Spec => []OneFramePerId` |
| `RetirementIsFinal` | `Spec => RetiredIsNotServed`, an action property |

A request is in one of four places (with the worker, in the inbox, with the main thread, in the
channel), an answer in one of four (channel, main thread, outbox, worker). `Apart` says that
no place has an entry twice and no two places share one, so that the proof may look at two
sets, `Pending` and `Answers`. `Ledger` is stated of these sets: they hold only frames that were
read (`Genuine`); a frame has one answer, and then is not pending (`Unique`); the handler's counts
agree with both (`HandlerInv`); a frame of the live connection is in one of them or accounted for
(`NothingLost`). An id is active because of a frame that still waits for an answer that carries
the id (`ActiveInv`), which is why a client that waits is not refused. The other direction,
`BusyInv`, is `OneFramePerId` carried to the end: the id of a frame that went to the topic stays active
until its answer is written, unless the answer to a refused frame with that id freed it. Seven lemmas
(`LoseSome`, `LoseOld`, `AnswerOne`, `DeliverOne`, `ReadOne`, `WriteOne`, `AnswerTopic`) say what a step may do to
the two sets, and each action is an instance of one. That an answer of the topic is never dropped while its
connection lives takes the order of the generations (`Origin`): the channel holds
nothing newer than the run of the dispatch system that filled it.

### `CommandDrainProofs`: every route table, every capacity, every number of hook entries

| Theorem | States |
|---|---|
| `TypeCorrect` | `Spec => []TypeOK` |
| `DrainKeepsContract` | `Spec => []DrainContract` |

The contract of a route is `Faithful` (what was delivered and what waits occurs in
order within what was accepted, is all of it for a queue, and ends with the newest value), and the lemmas
`FaithfulAppend`, `FaithfulReplace` and `FaithfulTake` say that storing and delivering keep
it. The watermark needs `LeftToTake`: while a queue is drained, what it has delivered and what is left to
take make up the mark. `StageShape` says that what the stage takes is there.

### `TranslationDumpProofs`: every finite set of keys, every captured content, every number of probes and crashes

| Theorem | States |
|---|---|
| `TypeCorrect` | `Spec => []TypeOK` |
| `NoKeyIsLost` | `Spec => TableAccumulates`, an action property |
| `DoneProbesAreComplete` | `Spec => []DoneMeansAll` |
| `RoutesKeepContract` | `Spec => []R!DrainContract` |

The proofs about the routes are those of `CommandDrainProofs`, instantiated as `R` with the two queues of the
plugin: each step of the plugin on the routes is a step of `CommandDrain`, except for `Restart`,
which empties them. Among others, `R!TypeOK` says that what is delivered was captured, so that what is
merged is a text. `DiskIsLoaded` says that a running process has every key that the disk has: it loads them
when it starts, and `EntriesGrow` says that no step but a restart loses one. `ProbesKept` says that the list that a
probe began with is part of the list of now, and as long as the two are equal, all keys with a place before the cursor
have been gone past, with whole files if the probe does not skip (a request rewrites only the files at its
cursor, so those behind it stay). Places are cardinalities, and it takes `PlaceIsBeforeEnd` and
`NextIsAtCursor` to see that a cursor at the end has left every key behind.

### Only model-checked

- Liveness: `HandoffIsClaimed`, `FailureRetiresApp`, `RetirementQuiesces`, `RollbackCompletes`, `StartSettles`,
  `EveryRequestAnswered`, `EveryFrameAnswered`, `EveryValueArrives` and `EveryTextIsSaved`. Fairness is out of the
  prover's reach.
- `EntryPatch` and its refinement: its fields are computed with bitwise operators, which the
  prover does not have.

## 6. Not modelled

- The typestate of `HookBuilder` and the `MainThreadToken` (enforced by the compiler);
  `InstalledHook::restore` (used by tests only).
- Entry patches: page tables, instruction caches and barriers; `x16`, which the trampoline clobbers and
  AAPCS lets it; code elsewhere in the function that branches into the patched words, which the
  code does not look for; `b.al`, whose inversion is no condition and which no compiler emits.
- A panic inside the bootstrap worker, which ends its thread with the attachment dropped and the gate
  closed as it began; the timing probe, a diagnostic feature.
- `EntryPatchMemory` of several hooks on one entry: each target is hooked once.
- Bounded and shared routes from the main thread to callbacks: no plugin uses them.
- The files written by `get_bytes_replacement`, the status topic and the parsing of payloads in
  `translation_dump`.
- A poisoned Handoff and a second publish: no caller reaches them.
- Payloads of the debug protocol, type mismatches of the relay's `Any` and extra references
  to its `Arc`s: no code produces them.
- Memory order: the models are sequentially consistent. The code uses acquire and release
  on every flag that they share, and the claims above are about program order.
- Formatting, logging, IL2CPP calls beyond what the bootstrap asks of them, packaging and tools.

## 7. Plan

Every part of the runtime with state of its own has a module, and all of those that the
provers can reason about have proofs: all safety properties of the runs but those of `EntryPatch`.

The map covers the runtime's own crates; the largest parts without a module are the build tools, the
experiments, the fake game of the tests and the readers of IL2CPP metadata.
