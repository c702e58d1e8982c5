----------------------------- MODULE CommandDrain -----------------------------
(***************************************************************************)
(* The routes from hook callbacks to the main thread and the stage of the  *)
(* Update driver that empties them (crates/core/src/container.rs,          *)
(* crates/core/src/plugin_api/route.rs, crates/runtime/src/routes.rs,      *)
(* crates/runtime/src/app.rs).                                             *)
(*                                                                         *)
(* A value is the number of its send. The cell and the queue are lock-free *)
(* and linearizable, so an operation on one is one action; an operation on *)
(* a shared slot only tries the slot's lock and finds it taken at most     *)
(* while somebody else is at an operation on it.                           *)
(***************************************************************************)
EXTENDS Integers, SequencesExt, FiniteSetsExt

CONSTANTS
  Callbacks,     (* hook entries that may be under way at the same time    *)
  Table,         (* the route table: the mailbox kind of each route        *)
  Owner,         (* the plugin that registered each route                  *)
  Capacity,      (* the N of the bounded queues                            *)
  MaxSends       (* bound: values sent in a behaviour                      *)

Kinds == {"latest", "bounded", "shared"}

ASSUME DrainAssumption ==
  /\ Table \in Seq(Kinds) /\ Table # <<>> /\ DOMAIN Owner = DOMAIN Table
  /\ Capacity \in Nat \ {0} /\ MaxSends \in Nat

VARIABLES
  box,           (* what each mailbox holds, oldest first                  *)
  writer,        (* the route and the value each hook entry is sending     *)
  drain,         (* where the stage is: the routes it has still to visit,  *)
                 (* and what the watermark of the first one leaves to do   *)
  delivered,     (* Messages<T>: what each route has delivered             *)
  active,        (* owners that are not retired                            *)
  accepted,      (* history: what each mailbox has stored                  *)
  mark,          (* history: how many values the route may deliver at most *)
  sent           (* history: sends begun                                   *)

stageVars == <<drain, delivered, mark>>
vars      == <<box, writer, stageVars, active, accepted, sent>>

-----------------------------------------------------------------------------

Routes == DOMAIN Table
Values == 1..MaxSends
Owners == ToSet(Owner)
NoSend == [route |-> 0, value |-> 0]

Limit(r) == IF Table[r] = "bounded" THEN Capacity ELSE 1

Init ==
  /\ box = [r \in Routes |-> <<>>]
  /\ writer = [c \in Callbacks |-> NoSend]
  /\ drain = [pc |-> "Idle", todo |-> {}, left |-> 0]
  /\ delivered = [r \in Routes |-> <<>>]
  /\ active = Owners
  /\ accepted = [r \in Routes |-> <<>>]
  /\ mark = [r \in Routes |-> 0]
  /\ sent = 0

(* Routes are visited in registration order.                                *)
Current == Min(drain.todo)

Draining(p) == drain.pc = p

(* A hook entry of D is at an operation on the shared slot of r.            *)
Contended(D, r) == Table[r] = "shared" /\ \E d \in D : writer[d].route = r

DrainAt(r) == Table[r] = "shared" /\ ~Draining("Idle") /\ Current = r

-----------------------------------------------------------------------------
(* Hook callbacks: try_send.                                                *)

(* A callback only runs while its owner's gate is open, but may still be at *)
(* its send when the owner retires.                                         *)
BeginSend(c, r) ==
  /\ writer[c] = NoSend /\ Owner[r] \in active /\ sent < MaxSends
  /\ sent' = sent + 1
  /\ writer' = [writer EXCEPT ![c] = [route |-> r, value |-> sent + 1]]
  /\ UNCHANGED <<box, stageVars, active, accepted>>

EndSend(c) ==
  /\ writer' = [writer EXCEPT ![c] = NoSend]
  /\ UNCHANGED <<stageVars, active, sent>>

Store(c, r, content) ==
  /\ box' = [box EXCEPT ![r] = content]
  /\ accepted' = [accepted EXCEPT ![r] = Append(@, writer[c].value)]
  /\ EndSend(c)

(* LatestCell and SharedSlot: Accepted or Replaced.                         *)
SendSingle(c) ==
  LET r == writer[c].route
  IN  /\ r # 0 /\ Table[r] # "bounded"
      /\ Store(c, r, <<writer[c].value>>)

SendShared_Busy(c) ==
  LET r == writer[c].route
  IN  /\ r # 0 /\ (Contended(Callbacks \ {c}, r) \/ DrainAt(r))
      /\ EndSend(c)
      /\ UNCHANGED <<box, accepted>>

SendBounded(c) ==
  LET r == writer[c].route
  IN  /\ r # 0 /\ Table[r] = "bounded" /\ Len(box[r]) < Capacity
      /\ Store(c, r, Append(box[r], writer[c].value))

SendBounded_Full(c) ==
  LET r == writer[c].route
  IN  /\ r # 0 /\ Table[r] = "bounded" /\ Len(box[r]) >= Capacity
      /\ EndSend(c)
      /\ UNCHANGED <<box, accepted>>

Send(c) == SendSingle(c) \/ SendShared_Busy(c) \/ SendBounded(c) \/ SendBounded_Full(c)

-----------------------------------------------------------------------------
(* The stage CommandDrain of App::run_update, on the main thread.           *)

sendVars == <<writer, active, accepted, sent>>

(* RouteTable::active_drains.                                               *)
StageBegins ==
  /\ Draining("Idle")
  /\ LET todo == {r \in Routes : Owner[r] \in active}
     IN  /\ todo # {}
         /\ drain' = [pc |-> "Depth", todo |-> todo, left |-> 0]
  /\ UNCHANGED <<box, delivered, mark, sendVars>>

Advance ==
  LET todo == drain.todo \ {Current}
  IN  drain' = [pc |-> IF todo # {} THEN "Depth" ELSE "Idle", todo |-> todo, left |-> 0]

(* Mutant: a route without values ends the stage.                           *)
SkipEmpty_Break ==
  /\ Draining("Depth") /\ (box[Current] = <<>> \/ Contended(Callbacks, Current))
  /\ drain' = [pc |-> "Idle", todo |-> {}, left |-> 0]
  /\ UNCHANGED <<box, delivered, mark, sendVars>>

(* depth() is 0: the mailbox is empty, or its lock is taken.                *)
SkipEmpty ==
  /\ Draining("Depth") /\ (box[Current] = <<>> \/ Contended(Callbacks, Current))
  /\ Advance
  /\ UNCHANGED <<box, delivered, mark, sendVars>>

(* The watermark of a route is read when the stage reaches the route.       *)
ReadDepth ==
  /\ Draining("Depth") /\ box[Current] # <<>>
  /\ drain' = [drain EXCEPT !.pc = "Take", !.left = Len(box[Current])]
  /\ mark' = [mark EXCEPT ![Current] = Len(accepted[Current])]
  /\ UNCHANGED <<box, delivered, sendVars>>

Deliver(value, rest) ==
  /\ delivered' = [delivered EXCEPT ![Current] = Append(@, value)]
  /\ box' = [box EXCEPT ![Current] = rest]
  /\ UNCHANGED <<mark, sendVars>>

(* Mutant: the value is read (try_read) and left in the slot.               *)
TakeSingle_Reads ==
  /\ Draining("Take") /\ Table[Current] # "bounded" /\ box[Current] # <<>>
  /\ Deliver(Head(box[Current]), box[Current])
  /\ Advance

(* take: whatever the slot holds by now.                                    *)
TakeSingle ==
  /\ Draining("Take") /\ Table[Current] # "bounded" /\ box[Current] # <<>>
  /\ Deliver(Head(box[Current]), <<>>)
  /\ Advance

TakeShared_Busy ==
  /\ Draining("Take") /\ Contended(Callbacks, Current)
  /\ Advance
  /\ UNCHANGED <<box, delivered, mark, sendVars>>

(* One pop of the loop, as many times as the watermark says.                *)
TakeBounded ==
  /\ Draining("Take") /\ Table[Current] = "bounded"
  /\ Deliver(Head(box[Current]), Tail(box[Current]))
  /\ IF drain.left > 1 THEN drain' = [drain EXCEPT !.left = @ - 1] ELSE Advance

Stage ==
  \/ StageBegins \/ SkipEmpty \/ ReadDepth
  \/ TakeSingle \/ TakeShared_Busy \/ TakeBounded

(* A later stage of the driver retires an owner.                            *)
Retire(o) ==
  /\ Draining("Idle") /\ o \in active
  /\ active' = active \ {o}
  /\ UNCHANGED <<box, writer, stageVars, accepted, sent>>

Next ==
  \/ \E c \in Callbacks : Send(c) \/ \E r \in Routes : BeginSend(c, r)
  \/ Stage
  \/ \E o \in Owners : Retire(o)

Spec == Init /\ [][Next]_vars

(* The game calls LateUpdate again and again, and callbacks return.         *)
FairSpec == Spec /\ WF_vars(Stage) /\ \A c \in Callbacks : WF_vars(Send(c))

-----------------------------------------------------------------------------

(* A queue delivers what it has accepted, all of it and in order; a single  *)
(* slot may only lose what a newer value has replaced, and delivers no      *)
(* value twice.                                                             *)
Within(s, t) ==
  \E at \in [DOMAIN s -> DOMAIN t] :
    /\ \A i, j \in DOMAIN s : i < j => at[i] < at[j]
    /\ \A i \in DOMAIN s : s[i] = t[at[i]]

NothingButReplacedIsLost ==
  \A r \in Routes :
    LET reached == delivered[r] \o box[r]
        stored  == accepted[r]
    IN  /\ Within(reached, stored)
        /\ Table[r] = "bounded" => reached = stored
        /\ stored # <<>> => Last(stored) \in ToSet(reached)

(* What a queue delivers in a frame was there when the stage read its       *)
(* depth, so callbacks that go on sending cannot keep the stage from        *)
(* ending. Single slots deliver one value a frame whatever they hold.       *)
WatermarkHolds ==
  \A r \in Routes : Table[r] = "bounded" => Len(delivered[r]) <= mark[r]

KeepsCapacity == \A r \in Routes : Len(box[r]) <= Limit(r)

(* Every mailbox keeps its promise to the sender and its capacity, and the  *)
(* frame its bound.                                                         *)
DrainContract == NothingButReplacedIsLost /\ KeepsCapacity /\ WatermarkHolds

Replaced(r, v) ==
  /\ Table[r] # "bounded" /\ v \in ToSet(accepted[r]) /\ v # Last(accepted[r])

(* A stored value is delivered, unless a newer one takes its place in a     *)
(* single slot or the owner retires.                                        *)
EveryValueArrives ==
  \A r \in Routes, v \in Values :
    v \in ToSet(accepted[r]) ~>
      v \in ToSet(delivered[r]) \/ Replaced(r, v) \/ Owner[r] \notin active
=============================================================================
