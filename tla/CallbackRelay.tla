----------------------------- MODULE CallbackRelay -----------------------------
(***************************************************************************)
(* One debug topic of the callback domain: the channel that the dispatch   *)
(* fills, the relay system of the owner, the two SharedSlots, and the hook *)
(* entries that handle a request (crates/core/src/plugin_api/debug.rs,     *)
(* crates/core/src/container.rs, crates/runtime/src/core_state.rs).        *)
(*                                                                         *)
(* A request is its number, an answer the number of the request whose      *)
(* handler produced it. One action of the relay or of a callback is one    *)
(* operation on a slot; such an operation only tries the slot's lock, and  *)
(* finds it taken at most while somebody else is at an operation on it.    *)
(***************************************************************************)
EXTENDS Integers, SequencesExt, FiniteSetsExt

CONSTANTS
  Callbacks,     (* hook entries that may be under way at the same time    *)
  MaxPending,    (* DEBUG_MAX_PENDING                                      *)
  MaxRequests    (* bound: requests of a behaviour                         *)

ASSUME RelayAssumption ==
  /\ MaxPending \in Nat \ {0} /\ MaxRequests \in Nat

VARIABLES
  inbox, outbox, pending,   (* DebugTopicChannel                           *)
  request, response,        (* the two slots; 0 is empty                   *)
  inFlight,                 (* CallbackRelaySystem.in_flight               *)
  relay,                    (* where the relay system is, what it has taken*)
  callback,                 (* where each hook entry is, what it has taken *)
  retired,                  (* the owner is retired                        *)
  onMain,                   (* the hooked method is only called on the     *)
                            (* main thread (fixed in Init)                 *)
  panicked,                 (* history: a handler has panicked             *)
  sent,                     (* history: requests dispatched so far         *)
  handled                   (* history: how often a handler got a request  *)

fixed   == <<retired, onMain, panicked>>
channel == <<inbox, outbox, pending>>
slots   == <<request, response>>
vars    == <<channel, slots, inFlight, relay, callback, fixed, sent, handled>>

-----------------------------------------------------------------------------

Requests == 1..MaxRequests
Refused  == 0                        (* queue_full                         *)
Gone     == -1                       (* plugin_unavailable                 *)

Init ==
  /\ inbox = <<>> /\ outbox = <<>> /\ pending = 0
  /\ request = 0 /\ response = 0 /\ inFlight = <<>>
  /\ relay = [pc |-> "Idle", got |-> 0]
  /\ callback = [c \in Callbacks |-> [pc |-> "Idle", got |-> 0]]
  /\ retired = FALSE /\ onMain \in BOOLEAN /\ panicked = FALSE /\ sent = 0 /\ handled = [r \in Requests |-> 0]

AllReturned == \A c \in Callbacks : callback[c].pc = "Idle"

(* The main thread is in the middle of no hook entry of its own.            *)
MainFree == onMain => AllReturned

(* try_lock may fail for one of the others that are at the slot.            *)
RelayAt(P)        == relay.pc \in P
OtherAt(c, P)     == \E d \in Callbacks \ {c} : callback[d].pc \in P
BusyForRelay(P)   == \E c \in Callbacks : callback[c].pc \in P
BusyForEntry(c, R, P) == RelayAt(R) \/ OtherAt(c, P)

Goto(p) == relay' = [relay EXCEPT !.pc = p]

CallbackGoto(c, p) == callback' = [callback EXCEPT ![c].pc = p]

-----------------------------------------------------------------------------
(* The dispatch system and the retirement, on the main thread.              *)

(* DebugTopicChannel::enqueue of a request the gates let through.           *)
Dispatch ==
  /\ RelayAt({"Idle"}) /\ MainFree /\ ~retired /\ sent < MaxRequests
  /\ sent' = sent + 1
  /\ IF pending >= MaxPending
     THEN /\ outbox' = Append(outbox, [id |-> sent', value |-> Refused])
          /\ UNCHANGED <<inbox, pending>>
     ELSE /\ inbox' = Append(inbox, sent') /\ pending' = pending + 1
          /\ UNCHANGED outbox
  /\ UNCHANGED <<slots, inFlight, relay, callback, fixed, handled>>

(* fail_pending_requests: the undelivered requests are answered; the owner's*)
(* gate is closed, its systems run no more.                                 *)
Retire ==
  /\ RelayAt({"Idle"}) /\ MainFree /\ ~retired
  /\ retired' = TRUE
  /\ outbox' = outbox \o [i \in DOMAIN inbox |-> [id |-> inbox[i], value |-> Gone]]
  /\ pending' = pending - Len(inbox)
  /\ inbox' = <<>>
  /\ UNCHANGED <<slots, inFlight, relay, callback, onMain, panicked, sent, handled>>

-----------------------------------------------------------------------------
(* CallbackRelaySystem::run, once per frame.                                *)

RelayRuns ==
  /\ RelayAt({"Idle"}) /\ MainFree /\ ~retired
  /\ Goto("IsSet")
  /\ UNCHANGED <<channel, slots, inFlight, callback, fixed, sent, handled>>

(* Mutants: a single-flight guard the wrong way round; the queue is not      *)
(* looked at.                                                               *)
RelayIsSet_Inverted ==
  /\ RelayAt({"IsSet"})
  /\ \/ request = 0 /\ inbox # <<>> /\ inFlight # <<>> /\ Goto("Send")
     \/ /\ request # 0 \/ inbox = <<>> \/ inFlight = <<>>
        /\ Goto("Take")
  /\ UNCHANGED <<channel, slots, inFlight, callback, fixed, sent, handled>>

(* is_set: a slot that is locked counts as occupied.                        *)
RelayIsSet ==
  /\ RelayAt({"IsSet"})
  /\ \/ request = 0 /\ inbox # <<>> /\ Goto("Send")
     \/ /\ request # 0 \/ inbox = <<>> \/ BusyForRelay({"Take", "Requeue"})
        /\ Goto("Take")
  /\ UNCHANGED <<channel, slots, inFlight, callback, fixed, sent, handled>>

(* Mutant: the front is not asked for, the queue is popped before the send. *)
RelaySend_PopsFirst ==
  /\ RelayAt({"Send"})
  /\ inbox' = Tail(inbox)
  /\ \/ request' = Head(inbox) /\ inFlight' = Append(inFlight, Head(inbox))
     \/ /\ BusyForRelay({"Take", "Requeue"})
        /\ UNCHANGED <<request, inFlight>>
  /\ Goto("Take")
  /\ UNCHANGED <<outbox, pending, response, callback, fixed, sent, handled>>

(* The slot gets a second reference to the payload at the queue's front.    *)
RelaySend ==
  /\ RelayAt({"Send"})
  /\ \/ request' = Head(inbox) /\ Goto("Pop")
     \/ BusyForRelay({"Take", "Requeue"}) /\ Goto("Take") /\ UNCHANGED request
  /\ UNCHANGED <<channel, response, inFlight, callback, fixed, sent, handled>>

RelayPop ==
  /\ RelayAt({"Pop"})
  /\ inFlight' = Append(inFlight, Head(inbox))
  /\ inbox' = Tail(inbox)
  /\ Goto("Take")
  /\ UNCHANGED <<outbox, pending, slots, callback, fixed, sent, handled>>

RelayTake ==
  /\ RelayAt({"Take"})
  /\ \/ /\ response # 0
        /\ relay' = [pc |-> "Pair", got |-> response]
        /\ response' = 0
     \/ /\ response = 0 \/ BusyForRelay({"Respond"})
        /\ Goto("Idle") /\ UNCHANGED response
  /\ UNCHANGED <<channel, request, inFlight, callback, fixed, sent, handled>>

(* Mutant: the latest request is paired, not the oldest.                    *)
RelayPair_Latest ==
  /\ RelayAt({"Pair"})
  /\ IF inFlight = <<>>
     THEN UNCHANGED <<outbox, pending, inFlight>>
     ELSE /\ outbox' = Append(outbox, [id |-> Last(inFlight), value |-> relay.got])
          /\ inFlight' = Front(inFlight)
          /\ pending' = pending - 1
  /\ relay' = [pc |-> IF inFlight = <<>> THEN "Idle" ELSE "Take", got |-> 0]
  /\ UNCHANGED <<inbox, slots, callback, fixed, sent, handled>>

(* The response answers the oldest request in flight; one with nothing in   *)
(* flight is dropped.                                                       *)
RelayPair ==
  /\ RelayAt({"Pair"})
  /\ IF inFlight = <<>>
     THEN UNCHANGED <<outbox, pending, inFlight>>
     ELSE /\ outbox' = Append(outbox, [id |-> Head(inFlight), value |-> relay.got])
          /\ inFlight' = Tail(inFlight)
          /\ pending' = pending - 1
  /\ relay' = [pc |-> IF inFlight = <<>> THEN "Idle" ELSE "Take", got |-> 0]
  /\ UNCHANGED <<inbox, slots, callback, fixed, sent, handled>>

-----------------------------------------------------------------------------
(* CallbackDebugEndpoints::handle_pending, in the owner's hook handler.     *)

notEntry == <<channel, inFlight, relay, fixed, sent>>

Enter(c) ==
  /\ callback[c].pc = "Idle" /\ ~retired
  /\ onMain => RelayAt({"Idle"}) /\ AllReturned
  /\ CallbackGoto(c, "Take")
  /\ UNCHANGED <<notEntry, slots, handled>>

TakeRequest(c) ==
  /\ callback[c].pc = "Take"
  /\ \/ /\ request # 0
        /\ callback' = [callback EXCEPT ![c] = [pc |-> "Unwrap", got |-> request]]
        /\ request' = 0
     \/ /\ request = 0 \/ BusyForEntry(c, {"IsSet", "Send"}, {"Take", "Requeue"})
        /\ CallbackGoto(c, "Idle") /\ UNCHANGED request
  /\ UNCHANGED <<notEntry, response, handled>>

(* Until the relay has dropped the queue's entry there is a stray reference.*)
Unwrap(c) ==
  /\ callback[c].pc = "Unwrap"
  /\ IF RelayAt({"Pop"}) /\ Head(inbox) = callback[c].got
     THEN CallbackGoto(c, "Requeue") /\ UNCHANGED handled
     ELSE CallbackGoto(c, "Handler") /\ handled' = [handled EXCEPT ![callback[c].got] = @ + 1]
  /\ UNCHANGED <<notEntry, slots>>

Requeue(c) ==
  /\ callback[c].pc = "Requeue"
  /\ \/ request' = callback[c].got
     \/ BusyForEntry(c, {"IsSet", "Send"}, {"Take", "Requeue"}) /\ UNCHANGED request
  /\ callback' = [callback EXCEPT ![c] = [pc |-> "Idle", got |-> 0]]
  /\ UNCHANGED <<notEntry, response, handled>>

HandlerReturns(c) ==
  /\ callback[c].pc = "Handler"
  /\ CallbackGoto(c, "Respond")
  /\ UNCHANGED <<notEntry, slots, handled>>

(* The panic unwinds to the hook's dispatch: nobody answers.                *)
HandlerPanics(c) ==
  /\ callback[c].pc = "Handler"
  /\ panicked' = TRUE
  /\ callback' = [callback EXCEPT ![c] = [pc |-> "Idle", got |-> 0]]
  /\ UNCHANGED <<channel, inFlight, relay, retired, onMain, sent, slots, handled>>

Respond(c) ==
  /\ callback[c].pc = "Respond"
  /\ \/ response' = callback[c].got
     \/ BusyForEntry(c, {"Take"}, {"Respond"}) /\ UNCHANGED response
  /\ callback' = [callback EXCEPT ![c] = [pc |-> "Idle", got |-> 0]]
  /\ UNCHANGED <<notEntry, request, handled>>

-----------------------------------------------------------------------------

RelayStep == RelayIsSet \/ RelaySend \/ RelayPop \/ RelayTake \/ RelayPair

EntryStep(c) ==
  \/ TakeRequest(c) \/ Unwrap(c) \/ Requeue(c)
  \/ HandlerReturns(c) \/ HandlerPanics(c) \/ Respond(c)

Next ==
  \/ Dispatch \/ Retire \/ RelayRuns \/ RelayStep
  \/ \E c \in Callbacks : Enter(c) \/ EntryStep(c)

Spec == Init /\ [][Next]_vars

(* Frames go on, hook entries return, and the game goes on calling the      *)
(* hooked method whatever the relay does.                                   *)
FairSpec ==
  /\ Spec /\ SF_vars(RelayRuns) /\ WF_vars(RelayStep)
  /\ \A c \in Callbacks : SF_vars(Enter(c)) /\ WF_vars(EntryStep(c))

-----------------------------------------------------------------------------
(* Properties.                                                              *)

Answered(r) == Cardinality({i \in DOMAIN outbox : outbox[i].id = r})

(* Each dispatched request is answered once or still accounted for, in the  *)
(* channel or in flight, whatever is lost in the slots: the pending counter *)
(* is exact, and never above its ceiling.                                   *)
PendingIsExact ==
  /\ pending = Len(inbox) + Len(inFlight) /\ pending <= MaxPending
  /\ \A r \in 1..sent :
       Answered(r) + Cardinality({i \in DOMAIN inbox : inbox[i] = r})
                   + Cardinality({i \in DOMAIN inFlight : inFlight[i] = r}) = 1

AnswersMatch ==
  \A i \in DOMAIN outbox : outbox[i].value \in Requests => outbox[i].value = outbox[i].id

(* No request reaches a handler twice, through requeueing and retirement,   *)
(* and none that was answered as undelivered reaches one at all. The answer *)
(* a client gets is that of its own request, as long as the method is       *)
(* called on the main thread only and no handler has panicked.              *)
HandledOnceAnswersMatch ==
  /\ \A r \in Requests :
       /\ handled[r] <= 1
       /\ (\E i \in DOMAIN outbox : outbox[i] = [id |-> r, value |-> Gone]) => handled[r] = 0
  /\ onMain /\ ~panicked => AnswersMatch

(* As long, every accepted request is answered, unless the owner retires.   *)
EveryRequestAnswered ==
  \A r \in Requests : sent >= r ~> \/ Answered(r) = 1
                                   \/ retired \/ ~onMain \/ panicked

-----------------------------------------------------------------------------
(* Claims of the source and its documentation that the code does not keep.  *)

(* debug/README.md: a request whose handler panics is itself answered, as   *)
(* plugin_unavailable; so no other answer takes its place.                  *)
PanicIsAnswered == onMain => AnswersMatch
=============================================================================
