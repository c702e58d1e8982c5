---------------------------- MODULE DebugTransport -----------------------------
(***************************************************************************)
(* The debug control plane: one client connection at a time, the I/O       *)
(* worker that frames its requests, the dispatch system of the DebugPlugin *)
(* and one topic of the main domain with its handler system                *)
(* (crates/debug/src/lib.rs, crates/core/src/plugin_api/debug.rs,          *)
(* crates/runtime/src/core_state.rs). The worker and the main thread share *)
(* the two transport queues and the generation (the active ids are only    *)
(* the worker's); an action is one access to one queue. The channel of the *)
(* topic belongs to the main thread alone, so its handler system runs in   *)
(* one action.                                                             *)
(*                                                                         *)
(* A request is [n, id, gen]: its number, the id the client chose, and the *)
(* connection it was read from. Bytes and payloads are left out.           *)
(***************************************************************************)
EXTENDS Integers, SequencesExt, FiniteSetsExt

CONSTANTS
  Ids,             (* request ids of a client                              *)
  MaxInbox,        (* MAX_INBOX_REQUESTS                                   *)
  MaxOutbox,       (* MAX_OUTBOX_RESPONSES                                 *)
  MaxPending,      (* DEBUG_MAX_PENDING                                    *)
  MaxFrames,       (* bound: frames of a behaviour                         *)
  MaxConnections   (* bound: connections of a behaviour                    *)

ASSUME TransportAssumption ==
  /\ {MaxInbox, MaxOutbox, MaxPending} \subseteq Nat \ {0}
  /\ MaxFrames \in Nat /\ MaxConnections \in Nat

VARIABLES
  inbox, outbox,   (* the transport's queues                               *)
  activeIds,       (* ids of delivered, unanswered requests                *)
  generation,      (* the connection counter                               *)
  worker,          (* the I/O worker: pc, its generation, what it holds    *)
  open,            (* the served client is still there                     *)
  main,            (* the main thread: pc, current generation, its batch   *)
  topic,           (* inbox and outbox of the topic's channel              *)
  runtimeGate,     (* the RuntimeGate is open                              *)
  retired,         (* the owner of the topic is retired                    *)
  frames,          (* history: every frame read, in order                  *)
  written,         (* history: the responses written, with the connection  *)
  dropped,         (* history: requests whose answer met a full outbox     *)
  careless,        (* history: frames that reuse the id of an unanswered   *)
                   (* frame of their connection                            *)
  stale,           (* history: requests drained under an older generation  *)
  handled          (* history: how often the handler got a request         *)

shared  == <<inbox, outbox, activeIds, generation>>
gates   == <<runtimeGate, retired>>
history == <<frames, careless, written, dropped, stale, handled>>
vars    == <<shared, worker, open, main, topic, gates, history>>

-----------------------------------------------------------------------------

Numbers == 1..MaxFrames

(* Answers are "nameless", "duplicate", "unavailable", "handled", and      *)
(* "undelivered", which stands for every other answer without the topic's  *)
(* handler: an invalid request, a full queue, a built-in topic, a closed   *)
(* gate.                                                                   *)

Init ==
  /\ inbox = <<>> /\ outbox = <<>> /\ activeIds = {} /\ generation = 0
  /\ worker = [pc |-> "Accept", gen |-> 0, held |-> <<>>] /\ open = FALSE
  /\ main = [pc |-> "Idle", gen |-> 0, held |-> <<>>]
  /\ topic = [in |-> <<>>, out |-> <<>>]
  /\ runtimeGate = TRUE /\ retired = FALSE
  /\ frames = <<>> /\ careless = {} /\ written = {} /\ dropped = {} /\ stale = {}
  /\ handled = [n \in Numbers |-> 0]

(* What is left of a queue when only the entries at these places stay.      *)
InOrder(places) ==
  CHOOSE at \in [1..Cardinality(places) -> places] :
    \A j, k \in DOMAIN at : j < k => at[j] < at[k]

Retain(q, places) == LET at == InOrder(places) IN [k \in DOMAIN at |-> q[at[k]]]

Of(q, g)          == Retain(q, {i \in DOMAIN q : q[i].gen = g})
OfResponses(q, g) == Retain(q, {i \in DOMAIN q : q[i].req.gen = g})

Reply(q, kind) == [req |-> q, kind |-> kind]

Replies(q, kind) == [i \in DOMAIN q |-> Reply(q[i], kind)]

(* push_response: a full outbox drops the newest response.                  *)
Push(response) ==
  IF Len(outbox) >= MaxOutbox
  THEN dropped' = dropped \cup {response.req.n} /\ UNCHANGED outbox
  ELSE outbox' = Append(outbox, response) /\ UNCHANGED dropped

-----------------------------------------------------------------------------
(* The I/O worker: handle_connection.                                       *)

WorkerAt(p)    == worker.pc = p
WorkerGoto(p)  == worker' = [worker EXCEPT !.pc = p]

notWorker == <<main, topic, gates, stale, handled>>

Accept ==
  /\ WorkerAt("Accept") /\ generation < MaxConnections
  /\ open' = TRUE
  /\ generation' = generation + 1
  /\ worker' = [pc |-> "Purge", gen |-> generation', held |-> <<>>]
  /\ UNCHANGED <<inbox, outbox, activeIds, frames, careless, written, dropped, notWorker>>

(* Mutant: the ids of the last connection stay active.                      *)
Purge_KeepsIds ==
  /\ WorkerAt("Purge")
  /\ outbox' = OfResponses(outbox, worker.gen)
  /\ WorkerGoto("Drain")
  /\ UNCHANGED <<inbox, activeIds, generation, open, frames, careless, written, dropped, notWorker>>

(* The new connection drops the answers of the old ones, and their ids.     *)
Purge ==
  /\ WorkerAt("Purge")
  /\ outbox' = OfResponses(outbox, worker.gen)
  /\ activeIds' = {}
  /\ WorkerGoto("Drain")
  /\ UNCHANGED <<inbox, generation, open, frames, careless, written, dropped, notWorker>>

(* The worker has written all it took, and waits in read for a while.       *)
Reading == WorkerAt("Write") /\ worker.held = <<>>

(* At the start, after a frame, and when the read times out.                *)
DrainOutbox ==
  /\ WorkerAt("Drain") \/ (Reading /\ open)
  /\ worker' = [worker EXCEPT !.held = outbox, !.pc = "Write"]
  /\ outbox' = <<>>
  /\ UNCHANGED <<inbox, activeIds, generation, open, frames, careless, written, dropped, notWorker>>

(* Mutant: the generation is not looked at.                                 *)
Write_AnyGeneration ==
  /\ WorkerAt("Write") /\ worker.held # <<>> /\ open
  /\ LET r == Head(worker.held)
     IN  /\ activeIds' = activeIds \ {r.req.id}
         /\ written' = written \cup {[req |-> r.req, kind |-> r.kind, to |-> worker.gen]}
  /\ worker' = [worker EXCEPT !.held = Tail(@)]
  /\ UNCHANGED <<inbox, outbox, generation, open, frames, careless, dropped, notWorker>>

(* A response of this connection frees the id it carries and is written.    *)
Write ==
  /\ WorkerAt("Write") /\ worker.held # <<>> /\ open
  /\ LET r == Head(worker.held)
     IN  IF r.req.gen = worker.gen
         THEN /\ activeIds' = IF r.kind = "nameless" THEN activeIds ELSE activeIds \ {r.req.id}
              /\ written' = written \cup {[req |-> r.req, kind |-> r.kind, to |-> worker.gen]}
         ELSE UNCHANGED <<activeIds, written>>
  /\ worker' = [worker EXCEPT !.held = Tail(@)]
  /\ UNCHANGED <<inbox, outbox, generation, open, frames, careless, dropped, notWorker>>

Unanswered ==
  {frames[n].id : n \in {m \in DOMAIN frames : /\ frames[m].gen = worker.gen
                                               /\ \A w \in written : w.req.n # m}}

ReadFrame ==
  /\ Reading /\ open /\ Len(frames) < MaxFrames
  /\ \E id \in Ids :
       LET q == [n |-> Len(frames) + 1, id |-> id, gen |-> worker.gen]
       IN  /\ frames' = Append(frames, q)
           /\ careless' = IF id \in Unanswered THEN careless \cup {q.n} ELSE careless
           /\ worker' = [worker EXCEPT !.pc = "Frame", !.held = <<q>>]
  /\ UNCHANGED <<shared, open, written, dropped, notWorker>>

(* A frame that is no valid request is answered, with its id if that can be *)
(* told, before its id is looked at.                                        *)
Refuse ==
  /\ WorkerAt("Frame")
  /\ \E kind \in {"undelivered", "nameless"} : Push(Reply(Head(worker.held), kind))
  /\ worker' = [worker EXCEPT !.pc = "Drain", !.held = <<>>]
  /\ UNCHANGED <<inbox, activeIds, generation, open, frames, careless, written, notWorker>>

FrameDone == worker' = [worker EXCEPT !.pc = "Drain", !.held = <<>>]

(* The request enters the inbox, unless that is full; its id stays active.  *)
Deliver(q) ==
  /\ activeIds' = activeIds \cup {q.id}
  /\ IF Len(inbox) >= MaxInbox
     THEN Push(Reply(q, "undelivered")) /\ UNCHANGED inbox
     ELSE inbox' = Append(inbox, q) /\ UNCHANGED <<outbox, dropped>>

(* Mutant: a duplicate is answered and delivered all the same.              *)
Enqueue_Duplicates ==
  /\ WorkerAt("Frame") /\ FrameDone
  /\ LET q == Head(worker.held)
     IN  IF q.id \in activeIds
         THEN Push(Reply(q, "duplicate")) /\ inbox' = Append(inbox, q) /\ UNCHANGED activeIds
         ELSE Deliver(q)
  /\ UNCHANGED <<generation, open, frames, careless, written, notWorker>>

(* Mutant: a duplicate gets no answer.                                      *)
Enqueue_Silent ==
  /\ WorkerAt("Frame") /\ FrameDone
  /\ LET q == Head(worker.held)
     IN  IF q.id \in activeIds
         THEN UNCHANGED <<inbox, outbox, activeIds, dropped>>
         ELSE Deliver(q)
  /\ UNCHANGED <<generation, open, frames, careless, written, notWorker>>

(* handle_frame: an active id is refused, another becomes active. The ids   *)
(* are the worker's alone, so that the only shared access is the queue's.   *)
Enqueue ==
  /\ WorkerAt("Frame") /\ FrameDone
  /\ LET q == Head(worker.held)
     IN  IF q.id \in activeIds
         THEN Push(Reply(q, "duplicate")) /\ UNCHANGED <<inbox, activeIds>>
         ELSE Deliver(q)
  /\ UNCHANGED <<generation, open, frames, careless, written, notWorker>>

(* The client hangs up, or stalls in the middle of a frame; the worker      *)
(* meets the end of the stream when it reads or writes next.                *)
Hangup ==
  /\ open
  /\ open' = FALSE
  /\ UNCHANGED <<shared, worker, frames, careless, written, dropped, notWorker>>

Disconnect ==
  /\ ~open /\ WorkerAt("Write")
  /\ worker' = [worker EXCEPT !.pc = "Accept", !.held = <<>>]
  /\ UNCHANGED <<shared, open, frames, careless, written, dropped, notWorker>>

-----------------------------------------------------------------------------
(* The main thread: DebugDispatchSystem::run, then the handler system.      *)

MainAt(p)   == main.pc = p
MainGoto(p) == main' = [main EXCEPT !.pc = p]

notMain == <<activeIds, generation, worker, open, gates, frames, careless, written>>

(* A frame's Update driver; it stops for good after a global failure.       *)
DispatchRuns ==
  /\ MainAt("Idle") /\ runtimeGate
  /\ main' = [pc |-> "Drain", gen |-> generation, held |-> <<>>]
  /\ UNCHANGED <<inbox, outbox, topic, dropped, stale, handled, notMain>>

(* The requests of other connections than the one the run began with are    *)
(* dropped; those of a newer one too, if it came in between.                *)
DrainInbox ==
  /\ MainAt("Drain")
  /\ stale' = stale \cup {q.n : q \in {r \in ToSet(inbox) : r.gen > main.gen}}
  /\ main' = [main EXCEPT !.pc = "Serve", !.held = Of(inbox, main.gen)]
  /\ inbox' = <<>>
  /\ UNCHANGED <<outbox, topic, dropped, handled, notMain>>

(* Mutant: the owner's gate is not looked at.                               *)
Serve_Ungated ==
  /\ MainAt("Serve") /\ main.held # <<>>
  /\ main' = [main EXCEPT !.held = Tail(@)]
  /\ LET q == Head(main.held) IN
        \/ Push(Reply(q, "undelivered")) /\ UNCHANGED topic
        \/ /\ Len(topic.in) < MaxPending
           /\ topic' = [topic EXCEPT !.in = Append(@, q)] /\ UNCHANGED <<outbox, dropped>>
  /\ UNCHANGED <<inbox, stale, handled, notMain>>

(* A built-in topic, a closed RuntimeGate, an unknown method and bad        *)
(* parameters are answered here, and so is a full channel (the pending      *)
(* counter is the length of its inbox between two runs of the handler       *)
(* system). dispatchable reads both gates, the RuntimeGate a second time.   *)
Serve ==
  /\ MainAt("Serve") /\ main.held # <<>>
  /\ main' = [main EXCEPT !.held = Tail(@)]
  /\ LET q == Head(main.held) IN
        \/ Push(Reply(q, "undelivered")) /\ UNCHANGED topic
        \/ (retired \/ ~runtimeGate) /\ Push(Reply(q, "unavailable")) /\ UNCHANGED topic
        \/ /\ ~retired /\ runtimeGate /\ Len(topic.in) < MaxPending
           /\ topic' = [topic EXCEPT !.in = Append(@, q)] /\ UNCHANGED <<outbox, dropped>>
  /\ UNCHANGED <<inbox, stale, handled, notMain>>

(* The channel's answers go to the wire, those of dead connections nowhere. *)
Collect ==
  /\ MainAt("Serve") /\ main.held = <<>>
  /\ main' = [main EXCEPT !.pc = "Flush", !.held = OfResponses(topic.out, main.gen)]
  /\ topic' = [topic EXCEPT !.out = <<>>]
  /\ UNCHANGED <<inbox, outbox, dropped, stale, handled, notMain>>

Flush ==
  /\ MainAt("Flush") /\ main.held # <<>>
  /\ Push(Head(main.held))
  /\ main' = [main EXCEPT !.held = Tail(@)]
  /\ UNCHANGED <<inbox, topic, stale, handled, notMain>>

(* The handler system has its turn after the dispatch.                      *)
HandlerTurn == MainAt("Flush") /\ main.held = <<>>

Handle(q) == handled' = [n \in Numbers |->
               handled[n] + Cardinality({i \in DOMAIN q : q[i].n = n})]

(* DebugHandlerSystem::run over all that is queued; a retired owner's       *)
(* systems do not run.                                                      *)
HandlerRuns ==
  /\ HandlerTurn
  /\ IF retired
     THEN UNCHANGED <<topic, handled>>
     ELSE /\ topic' = [in |-> <<>>, out |-> topic.out \o Replies(topic.in, "handled")]
          /\ Handle(topic.in)
  /\ MainGoto("Idle")
  /\ UNCHANGED <<inbox, outbox, dropped, stale, notMain>>

(* Mutant: what was not handled before the panic is forgotten.              *)
HandlerPanics_Forgets ==
  /\ HandlerTurn /\ ~retired
  /\ \E k \in DOMAIN topic.in :
       /\ topic' = [in  |-> <<>>,
                    out |-> topic.out \o Replies(SubSeq(topic.in, 1, k - 1), "handled")
                              \o <<Reply(topic.in[k], "unavailable")>>]
       /\ Handle(SubSeq(topic.in, 1, k))
  /\ retired' = TRUE
  /\ MainGoto("Idle")
  /\ UNCHANGED <<inbox, outbox, activeIds, generation, worker, open, runtimeGate, frames,
                 careless, written, dropped, stale>>

(* The handler panics at the k-th request: that one is answered, the rest   *)
(* goes back to the inbox, and the owner's retirement answers it.           *)
HandlerPanics ==
  /\ HandlerTurn /\ ~retired
  /\ \E k \in DOMAIN topic.in :
       /\ topic' = [in  |-> <<>>,
                    out |-> topic.out \o Replies(SubSeq(topic.in, 1, k - 1), "handled")
                              \o Replies(SubSeq(topic.in, k, Len(topic.in)), "unavailable")]
       /\ Handle(SubSeq(topic.in, 1, k))
  /\ retired' = TRUE
  /\ MainGoto("Idle")
  /\ UNCHANGED <<inbox, outbox, activeIds, generation, worker, open, runtimeGate, frames,
                 careless, written, dropped, stale>>

(* The owner is retired by another of its systems, in its turn of the frame.*)
Retire ==
  /\ HandlerTurn /\ ~retired
  /\ retired' = TRUE
  /\ topic' = [in |-> <<>>, out |-> topic.out \o Replies(topic.in, "unavailable")]
  /\ MainGoto("Idle")
  /\ UNCHANGED <<inbox, outbox, activeIds, generation, worker, open, runtimeGate, frames,
                 careless, written, dropped, stale, handled>>

(* A global failure closes the gate, on any thread at any time.             *)
RuntimeFails ==
  /\ runtimeGate
  /\ runtimeGate' = FALSE
  /\ UNCHANGED <<shared, worker, open, main, topic, retired, history>>

-----------------------------------------------------------------------------

WorkerStep ==
  \/ Purge \/ DrainOutbox \/ Write \/ Refuse \/ Enqueue \/ Disconnect

MainStep ==
  \/ DispatchRuns \/ DrainInbox \/ Serve \/ Collect \/ Flush
  \/ HandlerRuns \/ HandlerPanics \/ Retire

Next ==
  \/ Accept \/ ReadFrame \/ Hangup \/ WorkerStep
  \/ MainStep \/ RuntimeFails

Spec == Init /\ [][Next]_vars

(* Both threads go on; clients come, send and leave as they like. The       *)
(* worker reads what has arrived before it drains again, so a client that   *)
(* is there does not keep it from its outbox.                               *)
FairSpec == Spec /\ WF_vars(WorkerStep) /\ WF_vars(MainStep)

-----------------------------------------------------------------------------
(* Properties.                                                              *)

(* A connection is only ever sent answers to frames it sent itself, however *)
(* late the main thread answers those of the connections before it. No      *)
(* frame gets two answers, none that was refused reaches the handler, and   *)
(* none reaches it twice, through panics and retirement.                    *)
AnsweredOnceAndHere ==
  /\ \A w \in written : w.to = w.req.gen
  /\ \A v, w \in written : v.req.n = w.req.n => v = w
  /\ \A n \in Numbers : handled[n] <= 1
  /\ \A w \in written : w.kind = "handled" => handled[w.req.n] = 1
  /\ \A w \in written : w.kind \notin {"handled", "unavailable"} =>
       handled[w.req.n] = 0

InQueue(q, n)     == \E i \in DOMAIN q : q[i].n = n
InResponses(q, n) == \E i \in DOMAIN q : q[i].req.n = n

(* While its connection lasts a frame is never lost: it is queued, held by  *)
(* a thread, in the channel, answered, or its answer met a full outbox;     *)
(* except that a drain that began before the connection drops it.           *)
NothingIsLost ==
  \A i \in DOMAIN frames : frames[i].gen = generation /\ ~WorkerAt("Accept") =>
    \/ InQueue(inbox, i) \/ InResponses(outbox, i)
    \/ InQueue(topic.in, i) \/ InResponses(topic.out, i)
    \/ IF WorkerAt("Write") THEN InResponses(worker.held, i) ELSE InQueue(worker.held, i)
    \/ IF MainAt("Flush") THEN InResponses(main.held, i) ELSE InQueue(main.held, i)
    \/ i \in dropped \cup stale \/ \E w \in written : w.req.n = i

(* After its retirement the owner's handler gets no more requests.          *)
RetiredIsNotServed ==
  [][retired => UNCHANGED handled /\ topic'.in = <<>>]_vars

(* A client is told that an id is active only if it does not wait for the   *)
(* answer before it uses the id again, whatever its connection found left   *)
(* by the one before.                                                       *)
CarefulFrameIsNotRefused == \A w \in written : w.kind = "duplicate" => w.req.n \in careless

(* The frames of the live connection that are on their way to the handler.  *)
Delivered == {n \in DOMAIN frames : /\ frames[n].gen = generation
                                    /\ \/ InQueue(inbox, n) \/ InQueue(topic.in, n)
                                       \/ ~MainAt("Flush") /\ InQueue(main.held, n)}

(* Two frames with one id wait at a time only after a third with that id    *)
(* was refused: the refusal frees the id of the frame that still waits.     *)
OneFramePerId ==
  \A m, n \in Delivered : frames[m].id = frames[n].id =>
    m = n \/ \E w \in written : /\ w.kind \in {"duplicate", "undelivered"}
                              /\ w.req.id = frames[m].id /\ w.to = generation

Settled(n) ==
  n \in DOMAIN frames => \/ n \in dropped \cup stale \/ frames[n].gen # generation \/ ~open
                         \/ \E w \in written : w.req.n = n

(* Every frame is answered while the client stays, reads, and the runtime   *)
(* is healthy: by its handler, or with the reason why not.                  *)
EveryFrameAnswered ==
  \A n \in Numbers : Len(frames) >= n ~> ~runtimeGate \/ Settled(n)

=============================================================================
