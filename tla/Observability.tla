---------------------------- MODULE Observability -----------------------------
(***************************************************************************)
(* The compact event queue and its drain worker                            *)
(* (crates/core/src/event.rs, crates/runtime/src/observability.rs). Any    *)
(* thread emits, without waiting; the worker that the observability root   *)
(* starts reports what it finds. An event is its number in the order of    *)
(* the emissions.                                                          *)
(***************************************************************************)
EXTENDS Integers, Sequences, FiniteSets

CONSTANTS
  Emitters,      (* the threads that emit                                  *)
  Capacity,      (* CALLBACK_EVENT_QUEUE_CAPACITY                          *)
  MaxEvents      (* bound: events of a behaviour                           *)

ASSUME ObservabilityAssumption == Capacity \in Nat \ {0} /\ MaxEvents \in Nat

VARIABLES
  queue,         (* CompactEventInner.queue                                *)
  dropped,       (* CompactEventInner.dropped                              *)
  refused,       (* emitters between a refused push and the counter        *)
  drainer,       (* the drain worker: "none", "running", "failed"          *)
  sent,          (* history: the number of emissions                       *)
  reported       (* history: the events re-emitted as tracing events       *)

observed == <<queue, dropped, refused, drainer, sent, reported>>

ObservabilityInit ==
  /\ queue = <<>> /\ dropped = 0 /\ refused = {} /\ drainer = "none"
  /\ sent = 0 /\ reported = <<>>

(* Mutant: a full queue gives way to the newest event.                      *)
Emit_Displaces(t) ==
  /\ t \notin refused /\ sent < MaxEvents
  /\ sent' = sent + 1
  /\ queue' = IF Len(queue) < Capacity THEN Append(queue, sent')
                                       ELSE Append(Tail(queue), sent')
  /\ UNCHANGED <<dropped, refused, drainer, reported>>

(* try_emit: the push; a full queue refuses the new event.                  *)
Emit(t) ==
  /\ t \notin refused /\ sent < MaxEvents
  /\ sent' = sent + 1
  /\ IF Len(queue) < Capacity
     THEN queue' = Append(queue, sent') /\ UNCHANGED refused
     ELSE refused' = refused \cup {t} /\ UNCHANGED queue
  /\ UNCHANGED <<dropped, drainer, reported>>

(* try_emit: the counter of refused events.                                 *)
CountDropped(t) ==
  /\ t \in refused
  /\ refused' = refused \ {t}
  /\ dropped' = dropped + 1
  /\ UNCHANGED <<queue, drainer, sent, reported>>

(* The batches of 256 and the sleep of an idle worker leave no trace.       *)
Drain ==
  /\ drainer = "running" /\ queue # <<>>
  /\ reported' = Append(reported, Head(queue))
  /\ queue' = Tail(queue)
  /\ UNCHANGED <<dropped, refused, drainer, sent>>

(* ObservabilityRoot::new: the worker is spawned once, or never.            *)
SpawnDrainer ==
  /\ drainer = "none"
  /\ drainer' \in {"running", "failed"}
  /\ UNCHANGED <<queue, dropped, refused, sent, reported>>

-----------------------------------------------------------------------------

(* Every event is reported, waiting, or counted as dropped: none is lost    *)
(* without a trace, and none is reported twice or before an older one, by   *)
(* whichever threads they are emitted.                                      *)
EventsAccounted ==
  LET known == reported \o queue
  IN  /\ sent = Len(known) + dropped + Cardinality(refused)
      /\ \A i, j \in DOMAIN known : i < j => known[i] < known[j]

InReport(n) == \E i \in DOMAIN reported : reported[i] = n

InQueue(n) == \E i \in DOMAIN queue : queue[i] = n
=============================================================================
