---------------------------- MODULE StartupProofs -----------------------------
(***************************************************************************)
(* Proofs about Startup for every set of calls, emitters and threads, every *)
(* capacity of the event queue and whatever the game sets. The one-shot     *)
(* marker lets one call through, so that there is one worker at most; what  *)
(* its program counter says about the gate, the App and the context is what *)
(* a bootstrap that ends relies on. The plugin's slots follow its program   *)
(* counter, and that follows the App.                                       *)
(***************************************************************************)
EXTENDS Startup, SequenceTheorems, FiniteSetTheorems, TLAPS

-----------------------------------------------------------------------------
(* The inductive invariant: the events.                                     *)

Known == reported \o queue

ObservedType ==
  /\ queue \in Seq(Nat) /\ reported \in Seq(Nat) /\ dropped \in Nat /\ sent \in Nat
  /\ IsFiniteSet(refused)

NotAhead == \A i \in DOMAIN Known : Known[i] <= sent

ObservedInv == ObservedType /\ EventsAccounted /\ NotAhead

-----------------------------------------------------------------------------
(* The bootstrap.                                                           *)

EntryPc  == {"Idle", "Claim", "Args", "Spawn", "Panicked", "Returned"}
Opening  == {"Image", "ImageLate", "Exports"}
Gated    == {"Ready", "ReadyLate", "Domain", "Attach"}
Loaded   == {"Hydrate", "Build"}
Built    == {"Publish", "Install", "Rollback", "Handoff"}
WorkerPc == Opening \cup Gated \cup Loaded \cup Built \cup {"None", "Ended"}
Probed   == Loaded \cup Built \cup {"Attach", "Ended"}

Worker == [pc : WorkerPc, late : BOOLEAN, gate : {"none", "closed", "failed"},
           attached : BOOLEAN, app : {"none", "built", "torn down", "handed off"}]

BootType ==
  /\ entry \in [Entries -> EntryPc] /\ root \in BOOLEAN /\ started \in BOOLEAN
  /\ worker \in [Entries -> Worker] /\ game \in [image : BOOLEAN, ready : BOOLEAN]
  /\ probes \in {0, 1}

(* The marker lets one call through.                                        *)
Claimed(e) == entry[e] \in {"Args", "Spawn"} \/ worker[e].pc # "None"

OneClaim ==
  /\ \A e \in Entries : Claimed(e) => started
  /\ \A e, f \in Entries : Claimed(e) /\ Claimed(f) => e = f
  /\ \A e \in Entries : entry[e] \in {"Args", "Spawn"} => worker[e].pc = "None"

(* What a worker holds on its rung of the ladder.                           *)
WorkerShape(w) ==
  /\ w.pc = "None" => w = NoWorker
  /\ w.pc \in Opening => w.gate = "none" /\ w.app = "none" /\ ~w.attached
  /\ w.pc \in Gated => w.gate = "closed" /\ w.app = "none" /\ ~w.attached
  /\ w.pc \in Loaded => w.gate = "closed" /\ w.app = "none"
  /\ w.pc \in Built => w.gate = "closed" /\ w.app = "built"
  /\ w.pc = "Ended" => /\ ~w.attached /\ w.app # "built"
                       /\ w.app = "handed off" \/ w.gate \in {"none", "failed"}

(* The context and the probe belong to that worker.                         *)
ContextShape ==
  /\ \A e \in Entries : worker[e].pc \in {"Install", "Rollback", "Handoff"} => context = e
  /\ context # Nobody =>
       \E e \in Entries : worker[e].pc \in {"Install", "Rollback", "Handoff", "Ended"}

ProbeShape ==
  /\ probes = 1 => game.ready /\ \E e \in Entries : worker[e].pc \in Probed
  /\ \A e \in Entries : WorkerAt(e, "Domain") => game.ready

BootInv ==
  BootType /\ OneClaim /\ (\A e \in Entries : WorkerShape(worker[e])) /\ ContextShape /\ ProbeShape

-----------------------------------------------------------------------------
(* The plugin.                                                              *)

Setters == {"rate", "vsync"}
Switch  == {"unset", "on", "off"}
AtWork  == {"Vsync", "Rate", "Idle"}

FpsType ==
  /\ setting \in [state : Switch, cell : Switch, answer : {"none", "ok", "error"}]
  /\ slots \in [Setters -> {"original", "ours", "other"}]
  /\ unity = [w \in Setters |-> unity[w]]
  /\ plugin \in [pc : AtWork \cup {"Absent", "Built", "Retired"}, gate : {"closed", "open", "failed"}]
  /\ setter.pc \in {"Idle", "Dispatch", "Original"} /\ setter.which \in Setters
  /\ DOMAIN setter = {"pc", "thread", "which", "value"}
  /\ offMain \in BOOLEAN

(* The plugin's replacements are in their slots while it lives.             *)
SlotShape ==
  \A w \in Setters :
    /\ slots[w] = "ours" => plugin.pc \in AtWork \cup {"Built"}
    /\ plugin.pc \in AtWork \cup {"Built"} => slots[w] # "original"

(* It lives in the App of that one worker.                                  *)
AppShape ==
  /\ plugin.pc = "Built" => \E e \in Entries : worker[e].app \in {"built", "handed off"}
  /\ plugin.pc \in AtWork => \E e \in Entries : worker[e].app = "handed off"

(* Switch, route and answer.                                                *)
SettingShape ==
  /\ plugin.pc \in AtWork \cup {"Built"} => setting.state # "unset"
  /\ plugin.pc \in {"Absent", "Built"} => setting.cell = "unset" /\ plugin.gate = "closed"
  /\ setting.cell \in {"unset", setting.state}
  /\ plugin.gate = "closed" => setting.answer = "none"
  /\ plugin.pc \in AtWork => plugin.gate \in {"open", "closed"}
  /\ plugin.pc = "Idle" => plugin.gate = "open"
  /\ plugin.pc \in {"Vsync", "Rate"} /\ plugin.gate = "open" => setting.cell # "unset"
  /\ setting.answer # "none" => setting.cell # "unset"
  /\ setting.answer = "error" => \E w \in Setters : slots[w] = "other"

(* Calls that the game makes of the setters.                                *)
CallShape ==
  /\ setter.pc # "Idle" /\ setter.thread # "main" => offMain
  /\ plugin.pc \in {"Vsync", "Rate"} => setter.pc = "Idle" \/ setter.thread # "main"
  /\ /\ plugin.pc = "Idle" /\ setting.cell = "on"
     /\ setter.pc = "Original" /\ setter.thread = "main"
     => setter.value = F!Unlocked[setter.which]

Applied ==
  plugin.pc = "Rate" /\ ~offMain /\ (\A w \in Setters : slots[w] = "ours") =>
    unity["vsync"] = F!Value(setting.state)["vsync"]

FpsCore == FpsType /\ SlotShape /\ SettingShape /\ CallShape /\ Applied /\ AnswerHolds

FpsInv == FpsCore /\ AppShape

IInv == ObservedInv /\ BootInv /\ FpsInv

-----------------------------------------------------------------------------
(* The events.                                                              *)

(* An event joins at the end of what is known; a report moves none of it.   *)
LEMMA KnownGrows ==
  ASSUME NEW S, NEW r \in Seq(S), NEW q \in Seq(S), NEW n \in S
  PROVE  r \o Append(q, n) = Append(r \o q, n)
<1>1. <<n>> \in Seq(S) /\ r \o q \in Seq(S)
  BY ConcatProperties
<1>2. Append(q, n) = q \o <<n>> /\ Append(r \o q, n) = (r \o q) \o <<n>>
  BY <1>1, AppendIsConcat
<1>3. (r \o q) \o <<n>> = r \o (q \o <<n>>)
  BY <1>1, ConcatAssociative
<1>4. QED
  BY <1>2, <1>3, Zenon

(* A report moves the oldest event that waits, and changes no order.        *)
LEMMA KnownStays ==
  ASSUME NEW S, NEW r \in Seq(S), NEW q \in Seq(S), q # <<>>
  PROVE  Append(r, Head(q)) \o Tail(q) = r \o q
<1>1. Head(q) \in S /\ Tail(q) \in Seq(S) /\ <<Head(q)>> \in Seq(S)
  BY HeadTailProperties
<1>2. <<Head(q)>> \o Tail(q) = q
  <2>1. Len(q) \in Nat \ {0} /\ 1 \in 1..Len(q) /\ Len(q) \in 1..Len(q)
    BY EmptySeq, LenProperties
  <2>2. SubSeq(q, 1, Len(q)) = <<q[1]>> \o SubSeq(q, 1 + 1, Len(q))
    BY <2>1, SubSeqRecursiveFirst
  <2>3. SubSeq(q, 1, Len(q)) = q /\ SubSeq(q, 2, Len(q)) = Tail(q) /\ Head(q) = q[1]
    BY <2>1, SubSeqFull, TailIsSubSeq
  <2>4. QED
    BY <2>2, <2>3
<1>3. Append(r, Head(q)) = r \o <<Head(q)>>
  BY <1>1, AppendIsConcat
<1>4. (r \o <<Head(q)>>) \o Tail(q) = r \o (<<Head(q)>> \o Tail(q))
  BY <1>1, ConcatAssociative
<1>5. QED
  BY <1>2, <1>3, <1>4, Zenon

(* An emission: the event is the latest, and is queued or to be counted.    *)
LEMMA EmitKeeps ==
  ASSUME ObservedInv, NEW t, Emit(t)
  PROVE  ObservedInv'
<1> USE DEF ObservedInv, ObservedType
<1>1. sent' = sent + 1 /\ sent' \in Nat /\ UNCHANGED <<reported, dropped>>
  BY DEF Emit
<1>2. Known \in Seq(Nat) /\ Len(Known) \in Nat /\ DOMAIN Known = 1..Len(Known)
  BY ConcatProperties, LenProperties DEF Known
<1>3. /\ sent = Len(Known) + dropped + Cardinality(refused)
      /\ \A i, j \in DOMAIN Known : i < j => Known[i] < Known[j]
  BY DEF EventsAccounted, Known
<1>4. Cardinality(refused) \in Nat
  BY FS_CardinalityType
<1>5. CASE Len(queue) < Capacity
  <2>1. queue' = Append(queue, sent') /\ UNCHANGED refused
    BY <1>5 DEF Emit
  <2>2. Known' = Append(Known, sent') /\ queue' \in Seq(Nat)
    <3>1. reported \in Seq(Nat) /\ queue \in Seq(Nat)
      OBVIOUS
    <3>2. reported \o Append(queue, sent') = Append(reported \o queue, sent')
      BY <1>1, <3>1, KnownGrows
    <3>3. QED
      BY <1>1, <2>1, <3>1, <3>2, AppendProperties DEF Known
  <2>3. /\ Len(Known') = Len(Known) + 1 /\ DOMAIN Known' = 1..(Len(Known) + 1)
        /\ \A i \in 1..Len(Known) : Known'[i] = Known[i]
        /\ Known'[Len(Known) + 1] = sent + 1
    <3>1. Known' \in Seq(Nat)
      BY <1>1, <1>2, <2>2, AppendProperties
    <3>2. QED
      BY <1>1, <1>2, <2>2, <3>1, AppendProperties, LenProperties
  <2>4. \A i \in 1..Len(Known) : Known'[i] \in Nat /\ Known'[i] <= sent
    BY <1>2, <2>3, ElementOfSeq DEF NotAhead
  <2>5. NotAhead'
    <3>1. \A i \in DOMAIN Known' : i \in 1..Len(Known) \/ i = Len(Known) + 1
      BY <1>2, <2>3
    <3>2. \A k \in Nat : k <= sent => k <= sent + 1
      OBVIOUS
    <3>3. \A i \in DOMAIN Known' : Known'[i] <= sent + 1
      BY <2>3, <2>4, <3>1, <3>2, SMTT(30)
    <3>4. QED
      BY <1>1, <3>3 DEF NotAhead
  <2>6. \A i, j \in DOMAIN Known' : i < j => Known'[i] < Known'[j]
    <3>1. \A n \in Nat : \A i, j \in 1..(n + 1) : i < j => i \in 1..n /\ (j \in 1..n \/ j = n + 1)
      OBVIOUS
    <3>2. \A k \in Nat : k <= sent => k < sent + 1
      OBVIOUS
    <3>3. \A i, j \in 1..Len(Known) : i < j => Known'[i] < Known'[j]
      BY <1>2, <1>3, <2>3
    <3>4. \A i \in 1..Len(Known) : Known'[i] < Known'[Len(Known) + 1]
      BY <2>3, <2>4, <3>2
    <3>5. QED
      BY <1>2, <2>3, <3>1, <3>3, <3>4
  <2>7. sent' = Len(Known') + dropped' + Cardinality(refused')
    BY <1>1, <1>2, <1>3, <1>4, <2>1, <2>3
  <2>8. EventsAccounted'
    BY <2>6, <2>7 DEF EventsAccounted, Known
  <2>9. QED
    BY <1>1, <2>1, <2>2, <2>5, <2>8
<1>6. CASE ~(Len(queue) < Capacity)
  <2>1. refused' = refused \cup {t} /\ t \notin refused /\ UNCHANGED <<queue, Known>>
    BY <1>1, <1>6 DEF Emit, Known
  <2>2. IsFiniteSet(refused') /\ Cardinality(refused') = Cardinality(refused) + 1
    BY <2>1, FS_AddElement
  <2>3. sent' = Len(Known) + dropped + Cardinality(refused')
    BY <1>1, <1>2, <1>3, <1>4, <2>2
  <2>4. EventsAccounted'
    BY <1>1, <1>3, <2>1, <2>3 DEF EventsAccounted, Known
  <2>5. NotAhead'
    <3>1. \A i \in DOMAIN Known : Known[i] \in Nat /\ Known[i] <= sent
      BY <1>2, ElementOfSeq DEF NotAhead
    <3>2. \A i \in DOMAIN Known : Known[i] <= sent + 1
      BY <3>1
    <3>3. QED
      BY <1>1, <2>1, <3>2 DEF NotAhead
  <2>6. QED
    BY <1>1, <2>1, <2>2, <2>4, <2>5
<1>7. QED
  BY <1>5, <1>6

(* A refused event is counted, by the emitter it was refused to.            *)
LEMMA CountKeeps ==
  ASSUME ObservedInv, NEW t, CountDropped(t)
  PROVE  ObservedInv'
<1> USE DEF ObservedInv, ObservedType
<1>1. /\ refused' = refused \ {t} /\ t \in refused /\ dropped' = dropped + 1
      /\ UNCHANGED <<queue, reported, sent, Known>>
  BY DEF CountDropped, Known
<1>2. /\ IsFiniteSet(refused') /\ Cardinality(refused) \in Nat
      /\ Cardinality(refused') = Cardinality(refused) - 1
  BY <1>1, FS_RemoveElement, FS_CardinalityType
<1>3. Len(Known) \in Nat
  BY ConcatProperties, LenProperties DEF Known
<1>4. sent = Len(Known) + dropped + Cardinality(refused)
  BY DEF EventsAccounted, Known
<1>5. sent' = Len(Known') + dropped' + Cardinality(refused')
  BY <1>1, <1>2, <1>3, <1>4
<1>6. EventsAccounted'
  BY <1>1, <1>5 DEF EventsAccounted, Known
<1>7. NotAhead'
  BY <1>1 DEF NotAhead
<1>8. QED
  BY <1>1, <1>2, <1>6, <1>7

(* The drain worker reports the oldest event that waits.                    *)
LEMMA DrainKeeps ==
  ASSUME ObservedInv, Drain
  PROVE  ObservedInv'
<1> USE DEF ObservedInv, ObservedType
<1>1. /\ queue # <<>> /\ reported' = Append(reported, Head(queue)) /\ queue' = Tail(queue)
      /\ UNCHANGED <<dropped, refused, sent>>
  BY DEF Drain
<1>2. Known' = Known
  BY <1>1, KnownStays DEF Known
<1>3. reported' \in Seq(Nat) /\ queue' \in Seq(Nat)
  BY <1>1, HeadTailProperties, AppendProperties
<1>4. EventsAccounted'
  BY <1>1, <1>2 DEF EventsAccounted, Known
<1>5. NotAhead'
  BY <1>1, <1>2 DEF NotAhead
<1>6. QED
  BY <1>1, <1>3, <1>4, <1>5

-----------------------------------------------------------------------------
(* The bootstrap worker.                                                    *)

(* There is no other worker; so the context and the probe are this one's.   *)
LEMMA Alone ==
  ASSUME BootInv, NEW e \in Entries, worker[e].pc # "None"
  PROVE  /\ \A f \in Entries \ {e} : worker[f] = NoWorker /\ worker[f].pc = "None"
         /\ context # Nobody => worker[e].pc \in {"Install", "Rollback", "Handoff", "Ended"}
         /\ worker[e].pc \in {"Install", "Rollback", "Handoff"} => context = e
         /\ probes = 1 => game.ready /\ worker[e].pc \in Probed
         /\ WorkerShape(worker[e])
<1>1. \A f \in Entries \ {e} : worker[f].pc = "None"
  BY DEF BootInv, OneClaim, Claimed
<1>2. \A f \in Entries \ {e} : worker[f] = NoWorker
  BY <1>1 DEF BootInv, WorkerShape
<1>3. context # Nobody => worker[e].pc \in {"Install", "Rollback", "Handoff", "Ended"}
  BY <1>1 DEF BootInv, ContextShape
<1>4. probes = 1 => game.ready /\ worker[e].pc \in Probed
  BY <1>1 DEF BootInv, ProbeShape, Probed, Loaded, Built
<1>5. QED
  BY <1>1, <1>2, <1>3, <1>4 DEF BootInv, ContextShape

(* What a step of that worker must see to.                                  *)
LEMMA LadderKeeps ==
  ASSUME BootInv, NEW e \in Entries, worker[e].pc # "None",
         NEW w \in Worker, worker' = [worker EXCEPT ![e] = w], w.pc # "None", WorkerShape(w),
         UNCHANGED <<entry, root, started, game>>, probes' \in {0, 1},
         w.pc \in {"Install", "Rollback", "Handoff"} => context' = e,
         context' # Nobody => w.pc \in {"Install", "Rollback", "Handoff", "Ended"},
         probes' = 1 => game.ready /\ w.pc \in Probed,
         w.pc = "Domain" => game.ready
  PROVE  BootInv'
<1>1. worker'[e] = w /\ \A f \in Entries \ {e} : worker'[f] = worker[f] /\ worker'[f].pc = "None"
  BY Alone DEF BootInv, BootType
<1>2. BootType'
  BY DEF BootInv, BootType
<1>3. OneClaim'
  BY <1>1 DEF BootInv, OneClaim, Claimed
<1>4. (\A f \in Entries : WorkerShape(worker[f]))'
  <2>1. \A f \in Entries : WorkerShape(worker'[f])
    BY <1>1 DEF BootInv
  <2>2. QED
    BY <2>1 DEF WorkerShape
<1>5. ContextShape' /\ ProbeShape'
  BY <1>1 DEF ContextShape, ProbeShape, WorkerAt
<1>6. QED
  BY <1>2, <1>3, <1>4, <1>5 DEF BootInv

(* The two ways most rungs are left: up, and out.                           *)
LEMMA ClimbTo ==
  ASSUME BootInv, NEW e \in Entries, NEW next \in WorkerPc, Climb(e, next)
  PROVE  \E w \in Worker :
           /\ worker' = [worker EXCEPT ![e] = w] /\ w.pc = next
           /\ w.gate = worker[e].gate /\ w.attached = worker[e].attached /\ w.app = worker[e].app
<1>1. worker \in [Entries -> Worker] /\ worker[e] \in Worker
  BY DEF BootInv, BootType
<1>2. worker' = [worker EXCEPT ![e] = [worker[e] EXCEPT !.pc = next, !.late = FALSE]]
  BY DEF Climb
<1>3. [worker[e] EXCEPT !.pc = next, !.late = FALSE] \in Worker
  BY <1>1 DEF Worker
<1>4. QED
  BY <1>1, <1>2, <1>3 DEF Worker

(* bootstrap_failed, likewise: what Fail leaves of the worker.              *)
LEMMA FailTo ==
  ASSUME BootInv, NEW e \in Entries, Fail(e)
  PROVE  \E w \in Worker :
           /\ worker' = [worker EXCEPT ![e] = w] /\ w.pc = "Ended" /\ ~w.attached
           /\ w.gate \in {"none", "failed"} /\ w.app = worker[e].app
<1> DEFINE gate == IF worker[e].gate = "none" THEN "none" ELSE "failed"
<1>1. worker \in [Entries -> Worker] /\ worker[e] \in Worker
  BY DEF BootInv, BootType
<1>2. worker' = [worker EXCEPT ![e] =
                   [worker[e] EXCEPT !.pc = "Ended", !.attached = FALSE, !.gate = gate]]
  BY DEF Fail
<1>3. /\ [worker[e] EXCEPT !.pc = "Ended", !.attached = FALSE, !.gate = gate] \in Worker
      /\ gate \in {"none", "failed"}
  BY <1>1 DEF Worker, WorkerPc
<1>4. QED
  BY <1>1, <1>2, <1>3 DEF Worker

(* Leaving a rung below the App by failing.                                 *)
LEMMA FailKeeps ==
  ASSUME BootInv, NEW e \in Entries, Fail(e), worker[e].pc \in Opening \cup Gated \cup Loaded,
         UNCHANGED <<entry, root, started, game, context>>,
         probes' \in {0, 1}, probes' = 1 => game.ready
  PROVE  BootInv'
<1>1. PICK w \in Worker :
        /\ worker' = [worker EXCEPT ![e] = w] /\ w.pc = "Ended" /\ ~w.attached
        /\ w.gate \in {"none", "failed"} /\ w.app = worker[e].app
  BY FailTo
<1>2. worker[e].pc # "None" /\ worker[e].app = "none"
  BY Alone DEF WorkerShape, Opening, Gated, Loaded
<1>3. WorkerShape(w)
  BY <1>1, <1>2 DEF WorkerShape, Opening, Gated, Loaded, Built
<1>4. QED
  BY <1>1, <1>2, <1>3, LadderKeeps DEF Probed

(* Climbing from a rung to the next one that is like it.                    *)
LEMMA ClimbKeeps ==
  ASSUME BootInv, NEW e \in Entries, NEW next, Climb(e, next),
         \/ worker[e].pc \in Opening /\ next \in Opening
         \/ worker[e].pc \in Gated /\ next \in Gated
         \/ worker[e].pc \in Loaded /\ next \in Loaded
         \/ worker[e].pc \in Built /\ next \in Built,
         UNCHANGED <<entry, root, started, game>>,
         next \in {"Install", "Rollback", "Handoff"} => context' = e,
         context' # Nobody => next \in {"Install", "Rollback", "Handoff"},
         probes' \in {0, 1}, probes' = 1 => game.ready /\ next \in Probed,
         next = "Domain" => game.ready
  PROVE  BootInv'
<1>1. PICK w \in Worker :
        /\ worker' = [worker EXCEPT ![e] = w] /\ w.pc = next
        /\ w.gate = worker[e].gate /\ w.attached = worker[e].attached /\ w.app = worker[e].app
  BY ClimbTo DEF WorkerPc
<1>2. worker[e].pc # "None" /\ WorkerShape(worker[e])
  BY Alone DEF Opening, Gated, Loaded, Built
<1>3. WorkerShape(w) /\ w.pc # "None"
  BY <1>1, <1>2 DEF WorkerShape, Opening, Gated, Loaded, Built
<1>4. QED
  BY <1>1, <1>2, <1>3, LadderKeeps

(* Every rung, up to the hook that is installed.                            *)
LEMMA WorkerKeeps ==
  ASSUME BootInv, NEW e \in Entries, WorkerStep(e)
  PROVE  BootInv'
<1> USE DEF WorkerAt, notWorker, Rung
<1>1. worker \in [Entries -> Worker] /\ worker[e] \in Worker /\ probes \in {0, 1}
  BY DEF BootInv, BootType
<1>2. worker[e].pc # "None" =>
        /\ WorkerShape(worker[e])
        /\ context # Nobody => worker[e].pc \in {"Install", "Rollback", "Handoff", "Ended"}
        /\ worker[e].pc \in {"Install", "Rollback", "Handoff"} => context = e
        /\ probes = 1 => game.ready /\ worker[e].pc \in Probed
  BY Alone
<1>3. CASE AwaitImage(e)
  <2>1. CASE Fail(e)
    BY <1>1, <1>2, <1>3, <2>1, FailKeeps DEF AwaitImage, Opening, Gated, Loaded, Built, Probed
  <2>2. CASE Climb(e, "Exports")
    BY <1>1, <1>2, <1>3, <2>2, ClimbKeeps DEF AwaitImage, Opening, Gated, Loaded, Built, Probed
  <2>3. CASE \E p \in {"Image", "ImageLate"} : worker' = [worker EXCEPT ![e].pc = p]
    <3>1. PICK p \in {"Image", "ImageLate"} : worker' = [worker EXCEPT ![e].pc = p]
      BY <2>3
    <3>2. worker' = [worker EXCEPT ![e] = [worker[e] EXCEPT !.pc = p]]
      BY <3>1
    <3>3. [worker[e] EXCEPT !.pc = p] \in Worker /\ worker[e].pc \in Opening
      BY <1>1, <1>3 DEF AwaitImage, Worker, WorkerPc, Opening
    <3>4. WorkerShape([worker[e] EXCEPT !.pc = p])
      BY <1>1, <1>2, <3>3 DEF WorkerShape, Worker, Opening, Gated, Loaded, Built
    <3>5. QED
      BY <1>1, <1>2, <1>3, <3>2, <3>3, <3>4, LadderKeeps
         DEF AwaitImage, Worker, Opening, Loaded, Built, Probed
  <2>4. QED
    BY <1>3, <2>1, <2>2, <2>3 DEF AwaitImage
<1>4. CASE LoadExports(e)
  <2>1. worker[e].pc = "Exports" /\ UNCHANGED <<entry, root, started, game, context, probes>>
    BY <1>4 DEF LoadExports
  <2>2. \E p \in {"Ready", "Ended"}, g \in {"closed", "failed"} :
          /\ worker' = [worker EXCEPT ![e] = [worker[e] EXCEPT !.pc = p, !.gate = g]]
          /\ (p = "Ready" <=> g = "closed")
    <3>1. \/ worker' = [worker EXCEPT ![e].pc = "Ready", ![e].gate = "closed"]
          \/ worker' = [worker EXCEPT ![e].pc = "Ended", ![e].gate = "failed"]
      <4>1. PICK next \in {[pc |-> "Ready", gate |-> "closed"], [pc |-> "Ended", gate |-> "failed"]} :
              worker' = [worker EXCEPT ![e].pc = next.pc, ![e].gate = next.gate]
        BY <1>4 DEF LoadExports
      <4>2. \/ next.pc = "Ready" /\ next.gate = "closed"
            \/ next.pc = "Ended" /\ next.gate = "failed"
        BY <4>1
      <4>3. QED
        BY <4>1, <4>2
    <3>2. QED
      BY <3>1
  <2>3. PICK p \in {"Ready", "Ended"}, g \in {"closed", "failed"} :
          /\ worker' = [worker EXCEPT ![e] = [worker[e] EXCEPT !.pc = p, !.gate = g]]
          /\ (p = "Ready" <=> g = "closed")
    BY <2>2
  <2> DEFINE w == [worker[e] EXCEPT !.pc = p, !.gate = g]
  <2>4. w \in Worker /\ w.pc \in {"Ready", "Ended"}
    BY <1>1 DEF Worker, WorkerPc, Gated
  <2>5. WorkerShape(w)
    BY <1>1, <1>2, <2>1, <2>3 DEF WorkerShape, Worker, Opening, Gated, Loaded, Built
  <2>6. worker' = [worker EXCEPT ![e] = w]
    BY <2>3
  <2>7. context = Nobody /\ probes = 0
    BY <1>1, <1>2, <2>1 DEF Probed, Loaded, Built
  <2>8. PICK v \in Worker : /\ worker' = [worker EXCEPT ![e] = v] /\ WorkerShape(v)
                            /\ v.pc \in {"Ready", "Ended"}
    BY <2>4, <2>5, <2>6
  <2>9. QED
    <3>1. worker[e].pc # "None" /\ UNCHANGED <<entry, root, started, game>>
      BY <2>1
    <3>2. v.pc # "None" /\ v.pc # "Domain" /\ v.pc \notin {"Install", "Rollback", "Handoff"}
      BY <2>8
    <3>3. probes' \in {0, 1} /\ probes' # 1
      BY <2>1, <2>7
    <3>4. context' = Nobody
      BY <2>1, <2>7
    <3>5. QED
      BY ONLY BootInv, e \in Entries, v \in Worker, <2>8, <3>1, <3>2, <3>3, <3>4, LadderKeeps
<1>5. CASE AwaitReadiness(e)
  <2>1. CASE Fail(e)
    BY <1>1, <1>2, <1>5, <2>1, FailKeeps DEF AwaitReadiness, Opening, Gated, Loaded, Built, Probed
  <2>2. CASE Climb(e, "Domain") /\ game.ready
    BY <1>1, <1>2, <1>5, <2>2, ClimbKeeps DEF AwaitReadiness, Opening, Gated, Loaded, Built, Probed
  <2>3. CASE \E p \in {"Ready", "ReadyLate"} : worker' = [worker EXCEPT ![e].pc = p]
    <3>1. PICK p \in {"Ready", "ReadyLate"} : worker' = [worker EXCEPT ![e].pc = p]
      BY <2>3
    <3>2. worker' = [worker EXCEPT ![e] = [worker[e] EXCEPT !.pc = p]]
      BY <3>1
    <3>3. [worker[e] EXCEPT !.pc = p] \in Worker /\ worker[e].pc \in {"Ready", "ReadyLate"}
      BY <1>1, <1>5 DEF AwaitReadiness, Worker, WorkerPc, Gated
    <3>4. WorkerShape([worker[e] EXCEPT !.pc = p])
      BY <1>1, <1>2, <3>3 DEF WorkerShape, Worker, Opening, Gated, Loaded, Built
    <3>5. QED
      BY <1>1, <1>2, <1>5, <3>2, <3>3, <3>4, LadderKeeps
         DEF AwaitReadiness, Worker, Loaded, Built, Probed
  <2>4. QED
    BY <1>5, <2>1, <2>2, <2>3 DEF AwaitReadiness
<1>6. CASE ProbeDomain(e)
  <2>1. game.ready /\ probes = 0 /\ probes' = 1 /\ context = Nobody
    BY <1>1, <1>2, <1>6 DEF ProbeDomain, BootInv, ProbeShape, Probed, Loaded, Built
  <2>2. QED
    BY <1>1, <1>2, <1>6, <2>1, FailKeeps, ClimbKeeps
       DEF ProbeDomain, Opening, Gated, Loaded, Built, Probed
<1>7. CASE AttachThread(e)
  <2>1. CASE Fail(e)
    BY <1>1, <1>2, <1>7, <2>1, FailKeeps DEF AttachThread, Opening, Gated, Loaded, Built, Probed
  <2>2. CASE \E own \in BOOLEAN : worker' = [worker EXCEPT ![e].pc = "Hydrate", ![e].attached = own]
    <3>1. PICK own \in BOOLEAN : worker' = [worker EXCEPT ![e].pc = "Hydrate", ![e].attached = own]
      BY <2>2
    <3>2. worker' = [worker EXCEPT ![e] = [worker[e] EXCEPT !.pc = "Hydrate", !.attached = own]]
      BY <3>1
    <3>3. /\ [worker[e] EXCEPT !.pc = "Hydrate", !.attached = own] \in Worker
          /\ worker[e].pc = "Attach"
      BY <1>1, <1>7 DEF AttachThread, Worker, WorkerPc, Loaded
    <3>4. WorkerShape([worker[e] EXCEPT !.pc = "Hydrate", !.attached = own])
      BY <1>1, <1>2, <3>3 DEF WorkerShape, Worker, Opening, Gated, Loaded, Built
    <3>5. QED
      BY <1>1, <1>2, <1>7, <3>2, <3>3, <3>4, LadderKeeps
         DEF AttachThread, Worker, Loaded, Built, Probed
  <2>3. QED
    BY <1>7, <2>1, <2>2 DEF AttachThread
<1>8. CASE Hydrate(e)
  BY <1>1, <1>2, <1>8, FailKeeps, ClimbKeeps DEF Hydrate, Opening, Gated, Loaded, Built, Probed
<1>9. CASE PublishContext(e)
  <2>1. context = Nobody /\ context' = e /\ Climb(e, "Install")
    BY <1>2, <1>9 DEF PublishContext
  <2>2. QED
    BY <1>1, <1>2, <1>9, <2>1, ClimbKeeps DEF PublishContext, Opening, Gated, Loaded, Built, Probed
<1>10. CASE InstallHook(e)
  BY <1>1, <1>2, <1>10, ClimbKeeps DEF InstallHook, Opening, Gated, Loaded, Built, Probed
<1>11. CASE PublishHandoff(e)
  <2> DEFINE w == [worker[e] EXCEPT !.pc = "Ended", !.app = "handed off", !.attached = FALSE]
  <2>1. worker' = [worker EXCEPT ![e] = w]
    BY <1>11 DEF PublishHandoff
  <2>2. w \in Worker /\ worker[e].pc = "Handoff" /\ w.pc = "Ended"
    BY <1>1, <1>11 DEF PublishHandoff, Worker, WorkerPc, Built
  <2>3. WorkerShape(w)
    BY <1>1, <1>2, <2>2 DEF WorkerShape, Worker, Opening, Gated, Loaded, Built
  <2> HIDE DEF w
  <2>4. QED
    BY <1>1, <1>2, <1>11, <2>1, <2>2, <2>3, LadderKeeps DEF PublishHandoff, Probed
<1>12. QED
  BY <1>3, <1>4, <1>5, <1>6, <1>7, <1>8, <1>9, <1>10, <1>11 DEF WorkerStep

(* The App, its teardown, and the clock.                                    *)
LEMMA AppKeeps ==
  ASSUME BootInv, NEW e \in Entries, BuildApp(e) \/ Rollback(e) \/ DeadlinePasses(e),
         UNCHANGED game
  PROVE  BootInv'
<1> USE DEF WorkerAt, notWorker, notGame
<1>1. worker \in [Entries -> Worker] /\ worker[e] \in Worker /\ probes \in {0, 1}
  BY DEF BootInv, BootType
<1>2. worker[e].pc # "None"
  BY DEF BuildApp, Rollback, DeadlinePasses
<1>3. /\ WorkerShape(worker[e])
      /\ probes = 1 => game.ready /\ worker[e].pc \in Probed
      /\ context # Nobody => worker[e].pc \in {"Install", "Rollback", "Handoff", "Ended"}
      /\ worker[e].pc \in {"Install", "Rollback", "Handoff"} => context = e
      /\ worker[e].pc = "Domain" => game.ready
  BY <1>2, Alone DEF BootInv, ProbeShape
<1>4. UNCHANGED <<entry, root, started, game, context, probes>>
  BY DEF BuildApp, Rollback, DeadlinePasses
<1>5. CASE BuildApp(e)
  <2> DEFINE w == [worker[e] EXCEPT !.pc = "Publish", !.app = "built"]
  <2>1. worker' = [worker EXCEPT ![e] = w]
    BY <1>5 DEF BuildApp
  <2>2. w \in Worker /\ worker[e].pc = "Build" /\ w.pc = "Publish"
    BY <1>1, <1>5 DEF BuildApp, Worker, WorkerPc, Built
  <2>3. worker[e].gate = "closed" /\ w.gate = worker[e].gate /\ w.app = "built"
    BY <1>1, <1>3, <2>2 DEF WorkerShape, Worker, Loaded
  <2> HIDE DEF w
  <2>4. WorkerShape(w)
    BY <2>2, <2>3 DEF WorkerShape, Opening, Gated, Loaded, Built
  <2>5. context' = Nobody /\ probes' \in {0, 1}
    BY <1>1, <1>3, <1>4, <2>2
  <2>6. (probes' = 1 => game.ready /\ w.pc \in Probed) /\ w.pc # "None" /\ w.pc # "Domain"
    BY <1>3, <1>4, <2>2 DEF Probed, Built
  <2>7. w.pc \notin {"Install", "Rollback", "Handoff"}
    BY <2>2
  <2>8. PICK v \in Worker : v = w
    BY <2>2
  <2>9. worker' = [worker EXCEPT ![e] = v] /\ WorkerShape(v) /\ v.pc = "Publish"
    BY <2>1, <2>2, <2>4, <2>8
  <2>10. UNCHANGED <<entry, root, started, game>>
    BY <1>4
  <2>11. QED
    BY ONLY BootInv, e \in Entries, v \in Worker, <1>2, <2>5, <2>6, <2>7, <2>8, <2>9, <2>10,
            LadderKeeps
<1>6. CASE Rollback(e)
  <2> DEFINE w == [worker[e] EXCEPT !.pc = "Ended", !.app = "torn down", !.attached = FALSE,
                                    !.gate = "failed"]
  <2>1. worker' = [worker EXCEPT ![e] = w] /\ worker[e].pc = "Rollback"
    BY <1>3, <1>6 DEF Rollback
  <2>2. w \in Worker /\ w.pc = "Ended"
    BY <1>1 DEF Worker, WorkerPc
  <2>3. w.gate = "failed" /\ w.app = "torn down" /\ ~w.attached
    BY <1>1 DEF Worker
  <2> HIDE DEF w
  <2>4. WorkerShape(w)
    BY <2>2, <2>3 DEF WorkerShape, Opening, Gated, Loaded, Built
  <2>5. (probes' = 1 => game.ready /\ w.pc \in Probed) /\ w.pc # "None" /\ w.pc # "Domain"
    BY <1>3, <1>4, <2>2 DEF Probed
  <2>6. w.pc \notin {"Install", "Rollback", "Handoff"} /\ probes' \in {0, 1}
    BY <1>1, <1>4, <2>2
  <2>7. PICK v \in Worker : v = w
    BY <2>2
  <2>8. worker' = [worker EXCEPT ![e] = v] /\ WorkerShape(v) /\ v.pc = "Ended"
    BY <2>1, <2>2, <2>4, <2>7
  <2>9. UNCHANGED <<entry, root, started, game>>
    BY <1>4
  <2>10. QED
    BY ONLY BootInv, e \in Entries, v \in Worker, <1>2, <2>5, <2>6, <2>7, <2>8, <2>9, LadderKeeps
<1>7. CASE DeadlinePasses(e)
  <2> DEFINE w == [worker[e] EXCEPT !.late = TRUE]
  <2>1. worker' = [worker EXCEPT ![e] = w]
    BY <1>7 DEF DeadlinePasses
  <2>2. w \in Worker /\ w.pc = worker[e].pc
    BY <1>1 DEF Worker
  <2>3. /\ w.gate = worker[e].gate /\ w.app = worker[e].app /\ w.attached = worker[e].attached
    BY <1>1 DEF Worker
  <2> HIDE DEF w
  <2>4. WorkerShape(w)
    BY <1>2, <1>3, <2>2, <2>3 DEF WorkerShape
  <2>5. PICK v \in Worker : v = w
    BY <2>2
  <2>6. worker' = [worker EXCEPT ![e] = v] /\ WorkerShape(v) /\ v.pc = worker[e].pc
    BY <2>1, <2>2, <2>4, <2>5
  <2>7. UNCHANGED <<entry, root, started, game>> /\ probes' \in {0, 1}
    BY <1>1, <1>4
  <2>8. /\ v.pc # "None" /\ (v.pc = "Domain" => game.ready)
        /\ v.pc \in {"Install", "Rollback", "Handoff"} => context' = e
        /\ context' # Nobody => v.pc \in {"Install", "Rollback", "Handoff", "Ended"}
        /\ probes' = 1 => game.ready /\ v.pc \in Probed
    BY <1>2, <1>3, <1>4, <2>6
  <2>9. QED
    BY ONLY BootInv, e \in Entries, v \in Worker, <1>2, <2>6, <2>7, <2>8, LadderKeeps
<1>8. QED
  BY <1>5, <1>6, <1>7

(* The game comes up, and stays.                                            *)
LEMMA GameKeeps == BootInv /\ GameProgresses => BootInv'
<1>1. SUFFICES ASSUME BootInv, GameProgresses PROVE BootInv'
  OBVIOUS
<1>2. /\ UNCHANGED <<entry, root, started, worker, context, probes>>
      /\ game' \in [image : BOOLEAN, ready : BOOLEAN] /\ (game.ready => game'.ready)
  BY <1>1 DEF GameProgresses, notGame, BootInv, BootType
<1>3. QED
  BY <1>1, <1>2, ZenonT(30)
    DEF BootInv, BootType, OneClaim, Claimed, WorkerShape, ContextShape, ProbeShape,
                    WorkerAt

(* Calls of scsp_start. The one that swaps the marker finds no worker.      *)
LEMMA EntryKeeps ==
  ASSUME BootInv, NEW e \in Entries, EntryStep(e)
  PROVE  BootInv'
<1> USE DEF EntryAt, EntryGoto, notEntry
<1>1. entry \in [Entries -> EntryPc] /\ worker \in [Entries -> Worker] /\ worker[e] \in Worker
  BY DEF BootInv, BootType
<1>2. CASE SpawnWorker(e)
  <2>1. entry[e] = "Spawn" /\ entry' = [entry EXCEPT ![e] = "Returned"]
        /\ UNCHANGED <<root, started, context, game, probes>> /\ worker[e] = NoWorker
    BY <1>2 DEF SpawnWorker, BootInv, OneClaim, WorkerShape
  <2>2. CASE UNCHANGED worker
    BY <1>1, <2>1, <2>2 DEF BootInv, BootType, EntryPc, OneClaim, Claimed, WorkerShape,
                            ContextShape, ProbeShape, WorkerAt
  <2>3. CASE worker' = [worker EXCEPT ![e].pc = "Image"]
    <3> DEFINE w == [NoWorker EXCEPT !.pc = "Image"]
    <3>1. worker' = [worker EXCEPT ![e] = w]
      BY <2>1, <2>3
    <3>2. w \in Worker /\ WorkerShape(w) /\ w.pc = "Image"
      BY DEF NoWorker, Worker, WorkerPc, WorkerShape, Opening, Gated, Loaded, Built
    <3> HIDE DEF w
    <3>3. worker'[e] = w /\ \A f \in Entries \ {e} : worker'[f] = worker[f]
      BY <1>1, <3>1
    <3>4. BootType'
      BY <1>1, <2>1, <3>1, <3>2 DEF BootInv, BootType, EntryPc
    <3>5. OneClaim'
      BY <1>1, <2>1, <3>2, <3>3 DEF BootInv, OneClaim, Claimed
    <3>6. (\A f \in Entries : WorkerShape(worker[f]))'
      <4>1. \A f \in Entries : WorkerShape(worker'[f])
        BY <3>2, <3>3 DEF BootInv
      <4>2. QED
        BY <4>1 DEF WorkerShape
    <3>7. ContextShape' /\ ProbeShape'
      BY <2>1, <3>2, <3>3 DEF BootInv, ContextShape, ProbeShape, WorkerAt, NoWorker, Probed,
                              Loaded, Built
    <3>8. QED
      BY <3>4, <3>5, <3>6, <3>7 DEF BootInv
  <2>4. QED
    BY <1>2, <2>2, <2>3 DEF SpawnWorker
<1>3. CASE ~SpawnWorker(e)
  <2>1. /\ \E pc \in EntryPc : /\ entry' = [entry EXCEPT ![e] = pc]
                               /\ pc \in {"Args", "Spawn"} =>
                                    (~started /\ pc = "Args") \/ entry[e] = "Args"
        /\ UNCHANGED <<worker, context, game, probes>> /\ root' \in BOOLEAN /\ started' \in BOOLEAN
        /\ (started => started') /\ (entry[e] = "Claim" => started')
        /\ entry[e] \in {"Idle", "Claim", "Args", "Panicked"}
    BY <1>1, <1>3 DEF EntryStep, EnterScope, Claim, CopyPath, ReportPanic, EntryPc, BootInv,
                      BootType
  <2>2. OneClaim'
    <3>1. PICK pc \in EntryPc : /\ entry' = [entry EXCEPT ![e] = pc]
                                /\ pc \in {"Args", "Spawn"} =>
                                     (~started /\ pc = "Args") \/ entry[e] = "Args"
      BY <2>1
    <3>2. entry'[e] = pc /\ \A f \in Entries \ {e} : entry'[f] = entry[f]
      BY <1>1, <3>1
    <3>3. CASE pc \in {"Args", "Spawn"} /\ entry[e] # "Args"
      <4>1. ~started /\ \A f \in Entries : entry[f] \notin {"Args", "Spawn"} /\ worker[f].pc = "None"
        BY <3>1, <3>3 DEF BootInv, OneClaim, Claimed
      <4>2. started'
        BY <1>3, <3>1, <3>2, <3>3
           DEF EntryStep, EnterScope, Claim, CopyPath, ReportPanic
      <4>3. QED
        BY <2>1, <3>2, <4>1, <4>2 DEF OneClaim, Claimed
    <3>4. CASE ~(pc \in {"Args", "Spawn"} /\ entry[e] # "Args")
      <4>1. \A f \in Entries : Claimed(f)' => Claimed(f)
        BY <2>1, <3>1, <3>2, <3>4 DEF Claimed
      <4>2. \A f \in Entries : entry'[f] \in {"Args", "Spawn"} => entry[f] \in {"Args", "Spawn"}
        BY <3>1, <3>2, <3>4
      <4>3. QED
        BY <2>1, <4>1, <4>2 DEF BootInv, OneClaim
    <3>5. QED
      BY <3>3, <3>4
  <2>3. BootType'
    BY <1>1, <2>1 DEF BootInv, BootType
  <2>4. (\A f \in Entries : WorkerShape(worker[f]))' /\ ContextShape' /\ ProbeShape'
    BY <2>1 DEF BootInv, WorkerShape, ContextShape, ProbeShape, WorkerAt
  <2>5. QED
    BY <2>2, <2>3, <2>4 DEF BootInv
<1>4. QED
  BY <1>2, <1>3

-----------------------------------------------------------------------------
(* The plugin's steps, wherever its App stands. One lemma per part of them. *)

(* Unity's two values, as one record.                                       *)
LEMMA UnlockedIs ==
  ASSUME NEW u, u = [w \in Setters |-> u[w]], u["rate"] = 120, u["vsync"] = 0
  PROVE  u = F!Unlocked
BY DEF Setters, F!Unlocked

(* The App's build and its teardown, and the plugin's first frame.          *)
LEMMA PluginComesAndGoes ==
  ASSUME FpsCore, F!Build \/ F!Teardown \/ F!Startup \/ F!Retire
  PROVE  FpsCore'
<1> USE DEF FpsCore, Setters, F!Setters, F!PluginAt, F!MainIsFree, F!Retired, F!Restored, AtWork,
            Switch
<1>1. UNCHANGED <<unity, setter, offMain>>
  BY DEF F!Build, F!Teardown, F!Startup, F!Retire
<1>2. /\ setting.state \in Switch /\ setting.cell \in Switch
      /\ setting.answer \in {"none", "ok", "error"} /\ DOMAIN setting = {"state", "cell", "answer"}
      /\ plugin.pc \in AtWork \cup {"Absent", "Built", "Retired"}
      /\ plugin.gate \in {"closed", "open", "failed"} /\ DOMAIN plugin = {"pc", "gate"}
      /\ DOMAIN slots = Setters /\ \A w \in Setters : slots[w] \in {"original", "ours", "other"}
  BY DEF FpsType
<1>3. FpsType'
  <2>1. CASE F!Build
    BY <1>1, <2>1 DEF FpsType, F!Build
  <2>2. CASE F!Teardown
    BY <1>1, <2>2 DEF FpsType, F!Teardown
  <2>3. CASE F!Startup
    BY <1>1, <2>3 DEF FpsType, F!Startup
  <2>4. CASE F!Retire
    BY <1>1, <2>4 DEF FpsType, F!Retire
  <2>5. QED
    BY <2>1, <2>2, <2>3, <2>4
<1>4. SlotShape'
  <2>1. CASE F!Build
    BY <1>1, <1>2, <2>1 DEF SlotShape, F!Build
  <2>2. CASE F!Teardown
    BY <1>1, <1>2, <2>2 DEF SlotShape, F!Teardown
  <2>3. CASE F!Startup
    BY <1>1, <1>2, <2>3 DEF SlotShape, F!Startup
  <2>4. CASE F!Retire
    BY <1>1, <1>2, <2>4 DEF SlotShape, F!Retire
  <2>5. QED
    BY <2>1, <2>2, <2>3, <2>4
<1>5. SettingShape'
  <2>1. CASE F!Build
    BY <1>1, <1>2, <2>1 DEF SettingShape, F!Build
  <2>2. CASE F!Teardown
    BY <1>1, <1>2, <2>2 DEF SettingShape, F!Teardown
  <2>3. CASE F!Startup
    BY <1>1, <1>2, <2>3 DEF SettingShape, F!Startup
  <2>4. CASE F!Retire
    BY <1>1, <1>2, <2>4 DEF SettingShape, F!Retire
  <2>5. QED
    BY <2>1, <2>2, <2>3, <2>4
<1>6. plugin'.pc \in {"Absent", "Built", "Vsync", "Retired"} \/ UNCHANGED <<plugin, slots, setting>>
  BY <1>2 DEF F!Build, F!Teardown, F!Startup, F!Retire
<1>7. CallShape'
  BY <1>1, <1>2, <1>6 DEF CallShape, F!Build, F!Teardown, F!Startup, F!Retire
<1>8. Applied' /\ AnswerHolds'
  BY <1>1, <1>6 DEF Applied, AnswerHolds, F!AnswerHolds
<1>9. QED
  BY <1>3, <1>4, <1>5, <1>7, <1>8

(* unlock_fps.set sets the switch and the route.                            *)
LEMMA SetKeeps ==
  ASSUME FpsCore, NEW switch \in {"on", "off"}, F!Set(switch)
  PROVE  FpsCore'
<1> USE DEF FpsCore, Setters, F!Setters, F!PluginAt, F!MainIsFree, AtWork, Switch
<1>1. /\ UNCHANGED <<slots, unity, setter, offMain>> /\ plugin.pc = "Idle"
      /\ setting' = [setting EXCEPT !.state = switch, !.cell = switch]
      /\ plugin' = [plugin EXCEPT !.pc = "Vsync"]
      /\ setter.pc = "Idle" \/ setter.thread # "main"
  BY DEF F!Set
<1>2. FpsType'
  BY <1>1 DEF FpsType
<1>3. /\ plugin'.pc = "Vsync" /\ plugin'.gate = plugin.gate
      /\ setting'.state = switch /\ setting'.cell = switch /\ setting'.answer = setting.answer
  BY <1>1 DEF FpsType
<1>4. SlotShape' /\ SettingShape' /\ CallShape' /\ Applied' /\ AnswerHolds'
  BY <1>1, <1>3 DEF SlotShape, SettingShape, CallShape, Applied, AnswerHolds, F!AnswerHolds
<1>5. QED
  BY <1>2, <1>4

(* A setter's slot is lost: an answer, or the end of the plugin.            *)
LEMMA FailsKeeps ==
  ASSUME FpsCore, F!Fails, UNCHANGED <<unity, setter, offMain>>, plugin.pc \in {"Vsync", "Rate"},
         \E w \in Setters : slots[w] # "ours"
  PROVE  FpsCore'
<1> USE DEF FpsCore, Setters, F!Setters, F!PluginAt, AtWork, Switch
<1>1. \E w \in Setters : slots[w] = "other"
  BY DEF FpsType, SlotShape
<1>2. CASE plugin.gate = "open"
  <2>1. /\ plugin' = [plugin EXCEPT !.pc = "Idle"] /\ UNCHANGED slots
        /\ setting' = [setting EXCEPT !.answer = "error"]
    BY <1>2 DEF F!Fails
  <2>2. FpsType'
    BY <2>1 DEF FpsType
  <2>3. /\ plugin'.pc = "Idle" /\ plugin'.gate = "open" /\ setting'.answer = "error"
        /\ setting'.state = setting.state /\ setting'.cell = setting.cell
    BY <1>2, <2>1 DEF FpsType
  <2>4. SlotShape' /\ SettingShape' /\ CallShape' /\ Applied' /\ AnswerHolds'
    BY <1>1, <1>2, <2>1, <2>3
       DEF SlotShape, SettingShape, CallShape, Applied, AnswerHolds, F!AnswerHolds
  <2>5. QED
    BY <2>2, <2>4
<1>3. CASE plugin.gate # "open"
  <2>1. /\ plugin' = [pc |-> "Retired", gate |-> "failed"] /\ UNCHANGED setting
        /\ slots' = [w \in Setters |-> IF slots[w] = "ours" THEN "original" ELSE slots[w]]
    BY <1>3 DEF F!Fails, F!Retired, F!Restored
  <2>2. FpsType'
    BY <2>1 DEF FpsType
  <2>3. plugin'.pc = "Retired" /\ plugin'.gate = "failed"
    BY <2>1
  <2>4. \A w \in Setters : slots'[w] # "ours" /\ (slots[w] = "other" => slots'[w] = "other")
    BY <2>1 DEF FpsType
  <2>5. SlotShape' /\ SettingShape' /\ CallShape' /\ Applied' /\ AnswerHolds'
    BY <2>1, <2>3, <2>4 DEF SlotShape, SettingShape, CallShape, Applied, AnswerHolds, F!AnswerHolds
  <2>6. QED
    BY <2>2, <2>5
<1>4. QED
  BY <1>2, <1>3

(* The two setters, one after the other.                                    *)
LEMMA VsyncKeeps ==
  ASSUME FpsCore, F!ApplyVsync
  PROVE  FpsCore'
<1> USE DEF FpsCore, Setters, F!Setters, F!PluginAt, AtWork, Switch
<1>1. UNCHANGED <<setter, offMain>> /\ plugin.pc = "Vsync"
  BY DEF F!ApplyVsync
<1>2. CASE slots["vsync"] = "ours"
  <2>1. /\ unity' = [unity EXCEPT !["vsync"] = F!Value(setting.state)["vsync"]]
        /\ plugin' = [plugin EXCEPT !.pc = "Rate"] /\ UNCHANGED <<setting, slots>>
    BY <1>2 DEF F!ApplyVsync, F!Apply
  <2>2. FpsType' /\ plugin'.pc = "Rate" /\ plugin'.gate = plugin.gate
    BY <1>1, <2>1 DEF FpsType
  <2>3. unity'["vsync"] = F!Value(setting.state)["vsync"]
    BY <2>1 DEF FpsType
  <2>4. SlotShape' /\ SettingShape' /\ CallShape' /\ Applied' /\ AnswerHolds'
    BY <1>1, <2>1, <2>2, <2>3
       DEF SlotShape, SettingShape, CallShape, Applied, AnswerHolds, F!AnswerHolds
  <2>5. QED
    BY <2>2, <2>4
<1>3. CASE slots["vsync"] # "ours"
  <2>1. UNCHANGED unity /\ F!Fails
    BY <1>3 DEF F!ApplyVsync, F!Apply
  <2>2. QED
    BY <1>1, <1>3, <2>1, FailsKeeps
<1>4. QED
  BY <1>2, <1>3

(* The frame rate, and with it the answer or the open gate.                 *)
LEMMA RateKeeps ==
  ASSUME FpsCore, F!ApplyRate
  PROVE  FpsCore'
<1> USE DEF FpsCore, Setters, F!Setters, F!PluginAt, AtWork, Switch
<1>1. UNCHANGED <<setter, offMain>> /\ plugin.pc = "Rate"
  BY DEF F!ApplyRate
<1>2. CASE slots["rate"] = "ours"
  <2>1. /\ unity' = [unity EXCEPT !["rate"] = F!Value(setting.state)["rate"]]
        /\ UNCHANGED slots /\ plugin' = [pc |-> "Idle", gate |-> "open"]
        /\ setting' = [setting EXCEPT
                         !.answer = IF plugin.gate = "open" THEN "ok" ELSE setting.answer]
    BY <1>2 DEF F!ApplyRate, F!Apply, F!Succeeds
  <2>2. FpsType'
    BY <1>1, <2>1 DEF FpsType
  <2>3. /\ plugin'.pc = "Idle" /\ plugin'.gate = "open"
        /\ setting'.state = setting.state /\ setting'.cell = setting.cell
        /\ setting'.answer = IF plugin.gate = "open" THEN "ok" ELSE setting.answer
    BY <2>1 DEF FpsType
  <2>4. SlotShape' /\ SettingShape' /\ CallShape' /\ Applied'
    BY <1>1, <2>1, <2>3 DEF SlotShape, SettingShape, CallShape, Applied
  <2>5. /\ unity'["rate"] = F!Value(setting.state)["rate"] /\ unity'["vsync"] = unity["vsync"]
        /\ unity' = [w \in Setters |-> unity'[w]]
    BY <2>1 DEF FpsType
  <2>6. AnswerHolds'
    <3>1. ASSUME setting.state = "on", ~offMain, \A w \in Setters : slots[w] = "ours"
          PROVE  unity' = F!Unlocked
      <4>1. unity'["rate"] = 120 /\ unity'["vsync"] = 0
        BY <1>1, <2>5, <3>1 DEF Applied, F!Value, F!Unlocked
      <4>2. QED
        BY <2>5, <4>1, UnlockedIs
    <3>2. QED
      BY <1>1, <2>1, <2>3, <2>4, <3>1 DEF AnswerHolds, F!AnswerHolds, SettingShape
  <2>7. QED
    BY <2>2, <2>4, <2>6
<1>3. CASE slots["rate"] # "ours"
  <2>1. UNCHANGED unity /\ F!Fails
    BY <1>3 DEF F!ApplyRate, F!Apply
  <2>2. QED
    BY <1>1, <1>3, <2>1, FailsKeeps
<1>4. QED
  BY <1>2, <1>3

(* The game's calls of the setters, and whoever takes their slots.          *)
LEMMA CallsKeep ==
  ASSUME FpsCore,
         F!Dispatch \/ F!CallOriginal \/ \E t \in Threads, w \in Setters : F!GameSets(t, w)
  PROVE  FpsCore'
<1> USE DEF FpsCore, Setters, F!Setters, F!PluginAt, AtWork, Switch
<1>1. UNCHANGED <<setting, slots, plugin>>
  BY DEF F!Dispatch, F!CallOriginal, F!GameSets
<1>2. SlotShape' /\ SettingShape'
  BY <1>1 DEF SlotShape, SettingShape
<1>3. CASE F!Dispatch
  <2>1. UNCHANGED <<unity, offMain>> /\ setter.pc = "Dispatch"
    BY <1>3 DEF F!Dispatch
  <2>2. Applied' /\ AnswerHolds'
    BY <1>1, <2>1 DEF Applied, AnswerHolds, F!AnswerHolds
  <2>3. CASE slots[setter.which] # "ours"
    <3>1. setter' = [pc |-> "Idle", thread |-> "main", which |-> "rate", value |-> 0]
      BY <1>3, <2>3 DEF F!Dispatch, F!NoCall
    <3>2. FpsType' /\ CallShape'
      BY <1>1, <2>1, <3>1 DEF FpsType, CallShape
    <3>3. QED
      BY <1>2, <2>2, <3>2
  <2>4. CASE slots[setter.which] = "ours"
    <3> DEFINE value == IF plugin.gate = "open" /\ setting.cell = "on"
                        THEN F!Unlocked[setter.which] ELSE setter.value
    <3>1. setter' = [setter EXCEPT !.pc = "Original", !.value = value]
      BY <1>3, <2>4 DEF F!Dispatch
    <3>2. /\ setter'.pc = "Original" /\ setter'.value = value
          /\ setter'.thread = setter.thread /\ setter'.which = setter.which
      BY <3>1 DEF FpsType
    <3>3. FpsType'
      BY <1>1, <2>1, <3>1 DEF FpsType
    <3>4. CallShape'
      BY <1>1, <2>1, <3>2 DEF CallShape, SettingShape
    <3>5. QED
      BY <1>2, <2>2, <3>3, <3>4
  <2>5. QED
    BY <2>3, <2>4
<1>4. CASE F!CallOriginal
  <2>1. /\ setter.pc = "Original" /\ UNCHANGED offMain
        /\ unity' = [unity EXCEPT ![setter.which] = setter.value]
        /\ setter' = [pc |-> "Idle", thread |-> "main", which |-> "rate", value |-> 0]
    BY <1>4 DEF F!CallOriginal, F!NoCall
  <2>2. FpsType' /\ CallShape'
    BY <1>1, <2>1, ZenonT(30) DEF FpsType, CallShape
  <2>3. /\ \A w \in Setters : unity'[w] = IF w = setter.which THEN setter.value ELSE unity[w]
        /\ unity' = [w \in Setters |-> unity'[w]]
    BY <2>1 DEF FpsType
  <2>4. ~offMain => setter.thread = "main"
    BY <2>1 DEF CallShape
  <2>5. Applied'
    BY <1>1, <2>1, <2>4 DEF Applied, CallShape
  <2>6. AnswerHolds'
    <3>1. ASSUME plugin.pc = "Idle", setting.answer = "ok", setting.state = "on", ~offMain,
                 \A w \in Setters : slots[w] = "ours"
          PROVE  unity' = F!Unlocked
      <4>1. unity = F!Unlocked /\ setter.which \in Setters /\ setting.cell = "on"
        BY <3>1 DEF AnswerHolds, F!AnswerHolds, FpsType, SettingShape
      <4>2. setter.value = F!Unlocked[setter.which]
        BY <2>1, <2>4, <3>1, <4>1 DEF CallShape
      <4>3. unity'["rate"] = 120 /\ unity'["vsync"] = 0
        BY <2>3, <4>1, <4>2 DEF F!Unlocked
      <4>4. QED
        BY <2>3, <4>3, UnlockedIs
    <3>2. QED
      BY <1>1, <2>1, <3>1 DEF AnswerHolds, F!AnswerHolds
  <2>7. QED
    BY <1>2, <2>2, <2>5, <2>6
<1>5. CASE \E t \in Threads, w \in Setters : F!GameSets(t, w)
  <2>1. PICK t \in Threads, w \in Setters : F!GameSets(t, w)
    BY <1>5
  <2> DEFINE value == IF w = "rate" THEN GameRate ELSE GameVsync
  <2>2. /\ setter.pc = "Idle" /\ offMain' = (offMain \/ t # "main")
        /\ t = "main" => plugin.pc \notin {"Vsync", "Rate"}
    BY <2>1 DEF F!GameSets
  <2>3. CASE slots[w] = "ours"
    <3>1. /\ setter' = [pc |-> "Dispatch", thread |-> t, which |-> w, value |-> value]
          /\ UNCHANGED unity
      BY <2>1, <2>3 DEF F!GameSets
    <3>2. FpsType' /\ CallShape'
      BY <1>1, <2>2, <3>1, ZenonT(30) DEF FpsType, CallShape
    <3>3. Applied' /\ AnswerHolds'
      BY <1>1, <2>2, <3>1 DEF Applied, AnswerHolds, F!AnswerHolds
    <3>4. QED
      BY <1>2, <3>2, <3>3
  <2>4. CASE slots[w] # "ours"
    <3>1. unity' = [unity EXCEPT ![w] = value] /\ UNCHANGED setter
      BY <2>1, <2>4 DEF F!GameSets
    <3>2. FpsType' /\ CallShape'
      <4>1. unity' = [v \in Setters |-> unity'[v]]
        BY <1>1, <3>1 DEF FpsType
      <4>2. QED
        BY <1>1, <2>2, <3>1, <4>1, ZenonT(30) DEF FpsType, CallShape
    <3>3. Applied' /\ AnswerHolds'
      BY <1>1, <2>2, <2>4, <3>1 DEF Applied, AnswerHolds, F!AnswerHolds
    <3>4. QED
      BY <1>2, <3>2, <3>3
  <2>5. QED
    BY <2>3, <2>4
<1>6. QED
  BY <1>3, <1>4, <1>5

(* Another party takes a slot for good.                                     *)
LEMMA SlotLostKeeps ==
  ASSUME FpsCore, NEW v \in Setters, F!OtherTakesSlot(v)
  PROVE  FpsCore'
<1> USE DEF FpsCore, Setters, F!Setters, F!PluginAt, AtWork, Switch
<1>1. /\ UNCHANGED <<setting, unity, plugin, setter, offMain>> /\ slots[v] = "ours"
      /\ slots' = [slots EXCEPT ![v] = "other"]
  BY DEF F!OtherTakesSlot
<1>2. \A w \in Setters : slots'[w] = IF w = v THEN "other" ELSE slots[w]
  BY <1>1 DEF FpsType
<1>3. FpsType'
  BY <1>1 DEF FpsType
<1>4. SlotShape' /\ SettingShape' /\ CallShape' /\ Applied' /\ AnswerHolds'
  BY <1>1, <1>2 DEF SlotShape, SettingShape, CallShape, Applied, AnswerHolds, F!AnswerHolds
<1>5. QED
  BY <1>3, <1>4

(* The plugin at work, all of it.                                           *)
LEMMA PluginKeeps ==
  ASSUME FpsCore, F!FpsNext
  PROVE  /\ FpsCore'
         /\ \/ UNCHANGED plugin
            \/ plugin.pc \in AtWork /\ plugin'.pc \in AtWork
            \/ plugin'.pc = "Retired"
<1>1. FpsCore'
  BY PluginComesAndGoes, SetKeeps, VsyncKeeps, RateKeeps, CallsKeep, SlotLostKeeps
     DEF F!FpsNext, F!PluginStep, F!Setters, Setters
<1>2. DOMAIN plugin = {"pc", "gate"}
  BY DEF FpsCore, FpsType
<1>3. \/ UNCHANGED plugin
      \/ plugin.pc \in AtWork /\ plugin'.pc \in AtWork
      \/ plugin'.pc = "Retired"
  <2> USE DEF AtWork, F!PluginAt
  <2>1. CASE \E switch \in {"on", "off"} : F!Set(switch)
    BY <1>2, <2>1 DEF F!Set
  <2>2. CASE F!Retire
    BY <1>2, <2>2 DEF F!Retire, F!Retired
  <2>3. CASE F!PluginStep
    BY <1>2, <2>3 DEF F!PluginStep, F!ApplyVsync, F!ApplyRate, F!Succeeds, F!Fails, F!Retired
  <2>4. CASE UNCHANGED plugin
    BY <2>4
  <2>5. QED
    BY <2>1, <2>2, <2>3, <2>4
       DEF F!FpsNext, F!Dispatch, F!CallOriginal, F!OtherTakesSlot, F!GameSets
<1>4. QED
  BY <1>1, <1>3

-----------------------------------------------------------------------------
(* The App and the plugin in it.                                            *)

(* Every App there is stays.                                                *)
AppsKept ==
  \A f \in Entries :
    /\ worker[f].app = "built" => worker'[f].app \in {"built", "handed off"}
    /\ worker[f].app = "handed off" => worker'[f].app = "handed off"

(* No step but the teardown takes an App away.                              *)
LEMMA AppsAreKept ==
  ASSUME BootInv, NEW e \in Entries,
         EntryStep(e) \/ WorkerStep(e) \/ BuildApp(e) \/ DeadlinePasses(e)
  PROVE  AppsKept
<1>1. worker \in [Entries -> Worker] /\ \A f \in Entries : DOMAIN worker[f] = DOMAIN NoWorker
  BY DEF BootInv, BootType, Worker, NoWorker
<1>2. CASE EntryStep(e)
  <2>1. \A f \in Entries : worker'[f].app = worker[f].app
    <3>1. UNCHANGED worker \/ worker' = [worker EXCEPT ![e].pc = "Image"]
      BY <1>2 DEF EntryStep, EnterScope, Claim, CopyPath, SpawnWorker, ReportPanic, notEntry
    <3>2. QED
      BY <1>1, <3>1 DEF NoWorker
  <2>2. QED
    BY <2>1 DEF AppsKept
<1>3. CASE BuildApp(e)
  <2>1. /\ worker[e].app = "none"
        /\ worker' = [worker EXCEPT ![e].pc = "Publish", ![e].app = "built"]
    BY <1>3 DEF BuildApp, WorkerAt, BootInv, WorkerShape, Loaded
  <2>2. \A f \in Entries \ {e} : worker'[f] = worker[f]
    BY <1>1, <2>1
  <2>3. QED
    BY <2>1, <2>2 DEF AppsKept
<1>4. CASE PublishHandoff(e)
  <2>1. /\ worker[e].app = "built" /\ \A f \in Entries \ {e} : worker'[f] = worker[f]
        /\ worker'[e].app = "handed off"
    BY <1>1, <1>4 DEF PublishHandoff, WorkerAt, BootInv, WorkerShape, Built, NoWorker
  <2>2. QED
    BY <2>1 DEF AppsKept
<1>5. CASE (WorkerStep(e) \/ DeadlinePasses(e)) /\ ~PublishHandoff(e)
  <2>1. \A f \in Entries : worker'[f].app = worker[f].app
    <3> USE DEF NoWorker
    <3>1. ASSUME \E next : Climb(e, next) PROVE \A f \in Entries : worker'[f].app = worker[f].app
      BY <1>1, <3>1 DEF Climb
    <3>2. ASSUME Fail(e) PROVE \A f \in Entries : worker'[f].app = worker[f].app
      BY <1>1, <3>2 DEF Fail
    <3>3. CASE AwaitImage(e)
      BY <1>1, <3>1, <3>2, <3>3 DEF AwaitImage
    <3>4. CASE LoadExports(e)
      BY <1>1, <3>4 DEF LoadExports
    <3>5. CASE AwaitReadiness(e)
      BY <1>1, <3>1, <3>2, <3>5 DEF AwaitReadiness
    <3>6. CASE AttachThread(e)
      BY <1>1, <3>2, <3>6 DEF AttachThread
    <3>7. CASE DeadlinePasses(e)
      BY <1>1, <3>7 DEF DeadlinePasses
    <3>8. CASE ProbeDomain(e) \/ Hydrate(e) \/ PublishContext(e) \/ InstallHook(e)
      BY <3>1, <3>2, <3>8 DEF ProbeDomain, Hydrate, PublishContext, InstallHook, Rung
    <3>9. QED
      BY <1>5, <3>3, <3>4, <3>5, <3>6, <3>7, <3>8 DEF WorkerStep
  <2>2. QED
    BY <2>1 DEF AppsKept
<1>6. QED
  BY <1>2, <1>3, <1>4, <1>5 DEF WorkerStep

(* So the plugin that lives has its App, and the one at work has it from    *)
(* the handoff.                                                             *)
LEMMA AppShapeKeeps ==
  ASSUME AppShape, AppsKept,
         \/ UNCHANGED plugin
         \/ plugin.pc \in AtWork /\ plugin'.pc \in AtWork
         \/ plugin'.pc \in {"Absent", "Retired"}
  PROVE  AppShape'
<1>1. CASE UNCHANGED plugin
  BY <1>1 DEF AppShape, AppsKept
<1>2. CASE plugin.pc \in AtWork /\ plugin'.pc \in AtWork
  BY <1>2 DEF AppShape, AppsKept, AtWork
<1>3. CASE plugin'.pc \in {"Absent", "Retired"}
  BY <1>3 DEF AppShape, AtWork
<1>4. QED
  BY <1>1, <1>2, <1>3

-----------------------------------------------------------------------------
(* All together.                                                            *)

(* Steps that leave the events alone.                                       *)
LEMMA ObservedStays ==
  ASSUME ObservedInv, UNCHANGED <<queue, dropped, refused, sent, reported>>
  PROVE  ObservedInv'
BY DEF ObservedInv, ObservedType, EventsAccounted, NotAhead, Known

(* Steps that leave the plugin alone.                                       *)
LEMMA FpsCoreStays ==
  ASSUME FpsCore, UNCHANGED fpsVars
  PROVE  FpsCore'
BY DEF fpsVars, FpsCore, FpsType, SlotShape, SettingShape, CallShape, Applied, AnswerHolds,
       F!AnswerHolds, F!PluginAt

(* Steps that leave the bootstrap alone.                                    *)
LEMMA BootInvStays ==
  ASSUME BootInv, UNCHANGED bootVars
  PROVE  BootInv'
BY ZenonT(30)
   DEF bootVars, BootInv, BootType, OneClaim, Claimed, WorkerShape, ContextShape, ProbeShape,
       WorkerAt

(* A process in which scsp_start was not called yet.                        *)
LEMMA InitIInv == Init => IInv
<1>1. SUFFICES ASSUME Init PROVE IInv
  OBVIOUS
<1> USE DEF Init
<1>2. ObservedInv
  <2>1. queue = <<>> /\ reported = <<>> /\ dropped = 0 /\ sent = 0 /\ refused = {}
    BY <1>1 DEF BootstrapInit, ObservabilityInit
  <2>2. queue \in Seq(Nat) /\ reported \in Seq(Nat) /\ reported \o queue = <<>>
    BY <2>1, ConcatEmptySeq
  <2>3. Len(reported \o queue) = 0 /\ DOMAIN (reported \o queue) = {}
    BY <2>2
  <2>4. IsFiniteSet(refused) /\ Cardinality(refused) = 0
    BY <2>1, FS_EmptySet
  <2>5. QED
    BY <2>1, <2>2, <2>3, <2>4 DEF ObservedInv, ObservedType, EventsAccounted, NotAhead, Known
<1>3. BootInv
  <2>1. NoWorker \in Worker /\ NoWorker.pc = "None"
    BY DEF NoWorker, Worker, WorkerPc
  <2>2. /\ worker = [e \in Entries |-> NoWorker] /\ entry = [e \in Entries |-> "Idle"]
        /\ root = FALSE /\ started = FALSE /\ context = Nobody /\ probes = 0
        /\ game = [image |-> FALSE, ready |-> FALSE]
    BY <1>1 DEF BootstrapInit
  <2>3. BootType
    BY <2>1, <2>2 DEF BootType, EntryPc
  <2>4. OneClaim /\ ContextShape /\ ProbeShape
    BY <2>1, <2>2 DEF OneClaim, Claimed, ContextShape, ProbeShape, WorkerAt
  <2>5. \A e \in Entries : WorkerShape(worker[e])
    BY <2>1, <2>2 DEF WorkerShape, Opening, Gated, Loaded, Built
  <2>6. QED
    BY <2>3, <2>4, <2>5 DEF BootInv
<1>4. FpsInv
  <2>1. /\ setting = [state |-> "unset", cell |-> "unset", answer |-> "none"]
        /\ slots = [w \in Setters |-> "original"]
        /\ unity = [rate |-> GameRate, vsync |-> GameVsync]
        /\ plugin = [pc |-> "Absent", gate |-> "closed"]
        /\ setter = [pc |-> "Idle", thread |-> "main", which |-> "rate", value |-> 0]
        /\ offMain = FALSE
    BY <1>1 DEF F!FpsInit, F!NoCall, F!Setters, Setters
  <2>2. FpsType
    BY <2>1 DEF FpsType, Setters, Switch, AtWork
  <2>3. plugin.pc = "Absent" /\ setter.pc = "Idle"
    BY <2>1
  <2>4. SlotShape /\ AppShape /\ SettingShape /\ CallShape /\ Applied /\ AnswerHolds
    BY <2>1, <2>3 DEF SlotShape, AppShape, SettingShape, CallShape, Applied, AnswerHolds,
                      F!AnswerHolds, F!PluginAt, AtWork
  <2>5. QED
    BY <2>2, <2>4 DEF FpsInv, FpsCore
<1>5. QED
  BY <1>2, <1>3, <1>4 DEF IInv

(* Every step of every party.                                               *)
LEMMA NextIInv == IInv /\ [Next]_vars => IInv'
<1>1. SUFFICES ASSUME IInv, [Next]_vars PROVE IInv'
  OBVIOUS
<1> USE DEF IInv, FpsInv
<1>2. CASE UNCHANGED vars
  <2>1. /\ UNCHANGED fpsVars /\ UNCHANGED bootVars
        /\ UNCHANGED <<queue, dropped, refused, sent, reported>>
        /\ UNCHANGED <<worker, plugin>>
    BY <1>2 DEF vars, bootVars, fpsVars, observed
  <2>2. AppShape'
    BY <1>1, <2>1 DEF AppShape
  <2>3. QED
    BY <1>1, <2>1, <2>2, ObservedStays, FpsCoreStays, BootInvStays
<1>3. ASSUME NEW e \in Entries, EntryStep(e) \/ WorkerStep(e), UNCHANGED fpsVars
      PROVE  IInv'
  <2>1. BootInv' /\ AppsKept
    BY <1>1, <1>3, EntryKeeps, WorkerKeeps, AppsAreKept
  <2>2. FpsCore' /\ AppShape'
    BY <1>1, <1>3, <2>1, FpsCoreStays, AppShapeKeeps DEF fpsVars
  <2>3. CASE ReportPanic(e)
    BY <1>1, <2>1, <2>2, <2>3, EmitKeeps DEF ReportPanic
  <2>4. CASE ~ReportPanic(e)
    <3>1. UNCHANGED <<queue, dropped, refused, sent, reported>>
      BY <1>3, <2>4
         DEF EntryStep, WorkerStep, EnterScope, SpawnDrainer, Claim, CopyPath, SpawnWorker,
             AwaitImage, LoadExports, AwaitReadiness, ProbeDomain, AttachThread, Hydrate,
             PublishContext, InstallHook, PublishHandoff, notWorker, observed
    <3>2. QED
      BY <1>1, <2>1, <2>2, <3>1, ObservedStays
  <2>5. QED
    BY <2>3, <2>4
<1>4. ASSUME NEW e \in Entries, Build(e)
      PROVE  IInv'
  <2>1. BuildApp(e) /\ (F!Build \/ UNCHANGED fpsVars)
    BY <1>4 DEF Build
  <2>2. UNCHANGED <<queue, dropped, refused, sent, reported, game>>
    BY <2>1 DEF BuildApp, notWorker, observed
  <2>3. BootInv' /\ AppsKept
    BY <1>1, <2>1, <2>2, AppKeeps, AppsAreKept
  <2>4. FpsCore'
    BY <1>1, <2>1, PluginComesAndGoes, FpsCoreStays
  <2>5. AppShape'
    <3>1. CASE F!Build /\ plugin'.pc = "Built"
      <4>1. worker'[e].app = "built"
        <5>1. worker \in [Entries -> Worker]
          BY <1>1 DEF BootInv, BootType
        <5>2. QED
          BY <2>1, <5>1 DEF BuildApp, Worker
      <4>2. QED
        BY <3>1, <4>1 DEF AppShape, AtWork
    <3>2. CASE F!Build /\ plugin'.pc # "Built"
      <4>1. plugin'.pc = "Retired"
        BY <1>1, <3>2 DEF F!Build, FpsCore, FpsType
      <4>2. QED
        BY <4>1 DEF AppShape, AtWork
    <3>3. CASE UNCHANGED fpsVars
      BY <1>1, <2>3, <3>3, AppShapeKeeps DEF fpsVars
    <3>4. QED
      BY <2>1, <3>1, <3>2, <3>3
  <2>6. QED
    BY <1>1, <2>2, <2>3, <2>4, <2>5, ObservedStays
<1>5. ASSUME NEW e \in Entries, Teardown(e)
      PROVE  IInv'
  <2>1. /\ Rollback(e) /\ F!Teardown
        /\ UNCHANGED <<queue, dropped, refused, sent, reported, game>>
    BY <1>5 DEF Teardown, Rollback, notWorker, observed
  <2>2. BootInv' /\ FpsCore'
    BY <1>1, <2>1, AppKeeps, PluginComesAndGoes
  <2>3. AppShape'
    <3>1. worker[e].pc = "Rollback" /\ worker[e].app = "built"
      BY <1>1, <2>1, Alone DEF Rollback, WorkerAt, WorkerShape, Built
    <3>2. \A f \in Entries : worker[f].app # "handed off"
      <4>1. \A f \in Entries \ {e} : worker[f] = NoWorker
        BY <1>1, <3>1, Alone
      <4>2. NoWorker.app = "none"
        BY DEF NoWorker
      <4>3. QED
        BY <3>1, <4>1, <4>2
    <3>3. plugin.pc \notin AtWork
      BY <1>1, <3>2 DEF AppShape
    <3>4. plugin'.pc \notin AtWork \cup {"Built"}
      BY <2>1, <3>3 DEF F!Teardown, F!Retired, F!PluginAt, AtWork
    <3>5. QED
      BY <3>4 DEF AppShape
  <2>4. QED
    BY <1>1, <2>1, <2>2, <2>3, ObservedStays
<1>6. CASE Frame
  <2>1. /\ UNCHANGED bootVars /\ UNCHANGED <<queue, dropped, refused, sent, reported, worker>>
        /\ F!Startup /\ \E e \in Entries : worker[e].app = "handed off"
    BY <1>6 DEF Frame, bootVars, observed
  <2>2. AppShape'
    BY <2>1 DEF AppShape, AtWork
  <2>3. QED
    BY <1>1, <2>1, <2>2, ObservedStays, BootInvStays, PluginComesAndGoes
<1>7. CASE Plugin
  <2>1. /\ UNCHANGED bootVars /\ UNCHANGED <<queue, dropped, refused, sent, reported, worker>>
        /\ F!FpsNext
    BY <1>7 DEF Plugin, bootVars, observed
  <2>2. AppsKept
    BY <2>1 DEF AppsKept
  <2>3. QED
    BY <1>1, <2>1, <2>2, ObservedStays, BootInvStays, PluginKeeps, AppShapeKeeps
<1>8. CASE Environment
  <2>1. /\ UNCHANGED fpsVars /\ UNCHANGED plugin
        /\ UNCHANGED <<queue, dropped, refused, sent, reported>>
    BY <1>8 DEF Environment, GameProgresses, DeadlinePasses, notGame, observed, fpsVars
  <2>2. CASE GameProgresses
    <3>1. UNCHANGED worker
      BY <2>2 DEF GameProgresses
    <3>2. AppsKept
      BY <3>1 DEF AppsKept
    <3>3. QED
      BY <1>1, <2>1, <2>2, <3>2, GameKeeps, ObservedStays, FpsCoreStays, AppShapeKeeps
  <2>3. ASSUME NEW e \in Entries, DeadlinePasses(e) PROVE IInv'
    <3>1. UNCHANGED game
      BY <2>3 DEF DeadlinePasses
    <3>2. BootInv' /\ AppsKept
      BY <1>1, <2>3, <3>1, AppKeeps, AppsAreKept
    <3>3. QED
      BY <1>1, <2>1, <3>2, ObservedStays, FpsCoreStays, AppShapeKeeps
  <2>4. QED
    BY <1>8, <2>2, <2>3 DEF Environment
<1>9. CASE Events
  <2>1. UNCHANGED bootVars /\ UNCHANGED fpsVars /\ UNCHANGED <<worker, plugin>>
    BY <1>9 DEF Events, bootVars, fpsVars
  <2>2. ObservedInv'
    BY <1>1, <1>9, DrainKeeps, CountKeeps, EmitKeeps DEF Events
  <2>3. AppShape'
    BY <1>1, <2>1 DEF AppShape
  <2>4. QED
    BY <1>1, <2>1, <2>2, <2>3, BootInvStays, FpsCoreStays
<1>10. QED
  BY <1>1, <1>2, <1>3, <1>4, <1>5, <1>6, <1>7, <1>8, <1>9 DEF Next, BootstrapStep

(* The inductive invariant holds of every behaviour.                        *)
THEOREM Invariance == Spec => []IInv
BY InitIInv, NextIInv, PTL DEF Spec

-----------------------------------------------------------------------------
(* What the run checks, for every instance.                                 *)

(* However often scsp_start is called, wherever it panics and however the   *)
(* worker's deadlines fall, il2cpp_domain_get is probed once at most, and   *)
(* only after CRIWARE has come up.                                          *)
THEOREM ProbeIsSafe == Spec => []ProbedOnceWhenReady
<1>1. IInv => ProbedOnceWhenReady
  BY DEF IInv, BootInv, BootType, ProbeShape, ProbedOnceWhenReady
<1>2. QED
  BY <1>1, Invariance, PTL

(* try_emit on any threads against the drain worker, whatever the capacity  *)
(* of the queue: every event is reported once and in order, waits, or is    *)
(* counted as dropped.                                                      *)
THEOREM NoEventLost == Spec => []EventsAccounted
<1>1. IInv => EventsAccounted
  BY DEF IInv, ObservedInv
<1>2. QED
  BY <1>1, Invariance, PTL

(* A bootstrap that ends, by a deadline, a failure on any rung, a refused   *)
(* context or hook, or the handoff, is detached, and unless its App was     *)
(* handed off its gate has failed and the plugin's hooks are out.           *)
THEOREM BootstrapEndsClean == Spec => []EndsClean
<1>1. IInv => EndsClean
  <2>1. SUFFICES ASSUME IInv, NEW e \in Entries, worker[e].pc = "Ended"
                 PROVE  /\ ~worker[e].attached
                        /\ \/ worker[e].app = "handed off"
                           \/ /\ worker[e].gate \in {"none", "failed"}
                              /\ \A w \in F!Setters : slots[w] # "ours"
    BY DEF EndsClean, WorkerAt
  <2>2. /\ ~worker[e].attached /\ worker[e].app # "built"
        /\ worker[e].app = "handed off" \/ worker[e].gate \in {"none", "failed"}
    BY <2>1 DEF IInv, BootInv, WorkerShape
  <2>3. \A f \in Entries \ {e} : worker[f].app = "none"
    BY <2>1, Alone DEF IInv, NoWorker
  <2>4. ASSUME NEW w \in F!Setters, slots[w] = "ours" PROVE worker[e].app = "handed off"
    <3>1. plugin.pc \in AtWork \cup {"Built"}
      BY <2>1, <2>4 DEF IInv, FpsInv, FpsCore, SlotShape, Setters, F!Setters
    <3>2. \E f \in Entries : worker[f].app \in {"built", "handed off"}
      BY <2>1, <3>1 DEF IInv, FpsInv, AppShape
    <3>3. QED
      BY <2>2, <2>3, <3>2
  <2>5. QED
    BY <2>2, <2>4
<1>2. QED
  BY <1>1, Invariance, PTL

(* After an ok to an unlock Unity is unlocked as long as no setter has been *)
(* called off the main thread and both slots are ours; an error means that  *)
(* a slot is lost; the route, once written, agrees with the switch.         *)
THEOREM AnswersHold == Spec => []AnswerHolds
<1>1. IInv => AnswerHolds
  BY DEF IInv, FpsInv, FpsCore
<1>2. QED
  BY <1>1, Invariance, PTL
=============================================================================
