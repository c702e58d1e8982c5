-------------------------- MODULE CallbackRelayProofs --------------------------
(***************************************************************************)
(* Safety of the debug topics of the callback domain, for every number of  *)
(* hook entries, every ceiling and every number of requests.               *)
(***************************************************************************)
EXTENDS CallbackRelay, SequenceTheorems, FiniteSetTheorems, FunctionTheorems, TLAPS

RelayPc == {"Idle", "IsSet", "Send", "Pop", "Take", "Pair"}
EntryPc == {"Idle", "Take", "Unwrap", "Requeue", "Handler", "Respond"}
Holding == {"Unwrap", "Requeue", "Handler", "Respond"}

-----------------------------------------------------------------------------
(* The inductive invariant.                                                 *)

TypeOK ==
  /\ sent \in Nat /\ sent <= MaxRequests /\ pending \in Int
  /\ inbox \in Seq(1..sent) /\ inFlight \in Seq(1..sent)
  /\ outbox \in Seq([id : 1..sent, value : Int])
  /\ request \in 0..sent /\ response \in 0..sent
  /\ relay \in [pc : RelayPc, got : 0..sent]
  /\ callback \in [Callbacks -> [pc : EntryPc, got : 0..sent]]
  /\ handled \in [Requests -> Nat]
  /\ retired \in BOOLEAN /\ onMain \in BOOLEAN /\ panicked \in BOOLEAN

(* Who has taken something has it; the relay sends and pops only a front.   *)
Shape ==
  /\ relay.pc \in {"Send", "Pop"} => inbox # <<>>
  /\ relay.pc = "Pair" => relay.got # 0
  /\ \A c \in Callbacks : callback[c].pc \in Holding => callback[c].got # 0
  /\ \A i, j \in 1..Len(inbox) : i < j => inbox[i] < inbox[j]

(* Nothing is undelivered after the retirement; nothing was failed before.  *)
Retirement ==
  /\ retired => inbox = <<>> /\ relay.pc = "Idle"
  /\ ~retired => \A i \in DOMAIN outbox : outbox[i].value # Gone

(* Where a reference to request r that a handler may still get can be.      *)
Held(c, r) == callback[c].pc \in {"Unwrap", "Requeue"} /\ callback[c].got = r
Out(r)     == request = r \/ \E c \in Callbacks : Held(c, r)

HandedOver(r) ==
  \A i \in 1..Len(inbox) : inbox[i] = r => relay.pc = "Pop" /\ i = 1

Undelivered(r) == \E i \in DOMAIN outbox : outbox[i] = [id |-> r, value |-> Gone]

Delivery ==
  \A r \in Requests :
    /\ Out(r) \/ handled[r] > 0 => HandedOver(r)
    /\ handled[r] > 0 => ~Out(r) /\ handled[r] = 1 /\ r <= sent
    /\ request = r => \A c \in Callbacks : ~Held(c, r)
    /\ \A c, d \in Callbacks : Held(c, r) /\ Held(d, r) => c = d
    /\ Undelivered(r) => handled[r] = 0 /\ ~Out(r)

(* On the main thread the relay and the hook entries take turns, and what   *)
(* is in flight is what the slots and the taker of the moment have.         *)
Turns ==
  /\ relay.pc # "Idle" => AllReturned
  /\ \A c, d \in Callbacks : callback[c].pc # "Idle" /\ callback[d].pc # "Idle" => c = d

Answering == IF relay.pc = "Pair" THEN <<relay.got>>
             ELSE IF response # 0 THEN <<response>> ELSE <<>>
Asking    == IF request # 0 /\ relay.pc # "Pop" THEN <<request>> ELSE <<>>

SingleFlight ==
  /\ relay.pc = "Idle" => request = 0 \/ response = 0
  /\ relay.pc = "Send" => request = 0
  /\ relay.pc = "Pop" => request = Head(inbox)
  /\ relay.pc = "Pair" => response = 0
  /\ \A c \in Callbacks :
       /\ callback[c].pc # "Requeue"
       /\ callback[c].pc \in Holding =>
            request = 0 /\ response = 0 /\ inFlight = <<callback[c].got>>
  /\ (\A c \in Callbacks : callback[c].pc \notin Holding) => inFlight = Answering \o Asking

Exchange ==
  /\ onMain => Turns
  /\ onMain /\ ~panicked => SingleFlight /\ AnswersMatch

IInv == TypeOK /\ Shape /\ Retirement /\ PendingIsExact /\ Delivery /\ Exchange

-----------------------------------------------------------------------------
(* How often a request occurs in a queue.                                   *)

Places(s, r) == {i \in DOMAIN s : s[i] = r}
Count(s, r)  == Cardinality(Places(s, r))

(* The places are a finite set.                                             *)
LEMMA PlacesFinite ==
  ASSUME NEW S, NEW s \in Seq(S), NEW r
  PROVE  IsFiniteSet(Places(s, r)) /\ Count(s, r) \in Nat
<1>1. Len(s) \in Nat /\ Places(s, r) \in SUBSET (1..Len(s)) /\ IsFiniteSet(1..Len(s))
  <2>1. Len(s) \in Nat /\ DOMAIN s = 1..Len(s)
    BY LenProperties
  <2>2. QED
    BY <2>1, FS_Interval DEF Places
<1>2. IsFiniteSet(Places(s, r))
  BY <1>1, FS_Subset
<1>3. QED
  BY <1>2, FS_CardinalityType DEF Count

(* Places that are moved along are as many as before.                       *)
LEMMA Shifted ==
  ASSUME NEW P \in SUBSET Int, IsFiniteSet(P), NEW n \in Int
  PROVE  /\ IsFiniteSet({n + i : i \in P})
         /\ Cardinality({n + i : i \in P}) = Cardinality(P)
<1> DEFINE Q == {n + i : i \in P}
           f == [i \in P |-> n + i]
<1>1. f \in Bijection(P, Q)
  <2>1. f \in [P -> Q]
    OBVIOUS
  <2>2. \A i, j \in P : f[i] = f[j] => i = j
    OBVIOUS
  <2>3. \A q \in Q : \E i \in P : f[i] = q
    OBVIOUS
  <2>4. QED
    BY <2>1, <2>2, <2>3, Fun_IsBij, Zenon
<1>2. ExistsBijection(P, Q)
  BY <1>1 DEF ExistsBijection
<1>3. QED
  BY <1>2, FS_Bijection

(* What two queues have, one after the other.                               *)
LEMMA CountConcat ==
  ASSUME NEW S, NEW s \in Seq(S), NEW t \in Seq(S), NEW r
  PROVE  Count(s \o t, r) = Count(s, r) + Count(t, r)
<1> DEFINE n == Len(s)
           Q == {n + i : i \in Places(t, r)}
<1>1. /\ n \in Nat /\ Len(t) \in Nat /\ DOMAIN s = 1..n /\ DOMAIN t = 1..Len(t)
      /\ DOMAIN (s \o t) = 1..(n + Len(t))
      /\ \A i \in 1..(n + Len(t)) : (s \o t)[i] = IF i <= n THEN s[i] ELSE t[i - n]
  BY ConcatProperties, LenProperties
<1>2. Places(s \o t, r) = Places(s, r) \cup Q
  <2>1. ASSUME NEW i \in Places(s \o t, r) PROVE i \in Places(s, r) \cup Q
    <3>1. i \in 1..(n + Len(t)) /\ (s \o t)[i] = r
      BY <1>1, <2>1 DEF Places
    <3>2. CASE i <= n
      BY <1>1, <3>1, <3>2 DEF Places
    <3>3. CASE i > n
      <4>1. i - n \in 1..Len(t) /\ t[i - n] = r /\ i = n + (i - n)
        BY <1>1, <3>1, <3>3
      <4>2. QED
        BY <1>1, <4>1 DEF Places
    <3>4. QED
      BY <1>1, <3>1, <3>2, <3>3
  <2>2. ASSUME NEW i \in Places(s, r) PROVE i \in Places(s \o t, r)
    BY <1>1, <2>2 DEF Places
  <2>3. ASSUME NEW i \in Places(t, r) PROVE n + i \in Places(s \o t, r)
    <3>1. i \in 1..Len(t) /\ t[i] = r
      BY <1>1, <2>3 DEF Places
    <3>2. n + i \in 1..(n + Len(t)) /\ ~(n + i <= n) /\ (n + i) - n = i
      BY <1>1, <3>1
    <3>3. QED
      BY <1>1, <3>1, <3>2 DEF Places
  <2>4. QED
    BY <2>1, <2>2, <2>3
<1>3. Places(s, r) \cap Q = {}
  BY <1>1 DEF Places
<1>4. IsFiniteSet(Q) /\ Cardinality(Q) = Count(t, r)
  <2>1. Places(t, r) \in SUBSET Int
    BY <1>1 DEF Places
  <2>2. IsFiniteSet(Places(t, r))
    BY PlacesFinite
  <2>3. ASSUME NEW k \in Int, NEW P \in SUBSET Int, IsFiniteSet(P)
        PROVE  IsFiniteSet({k + i : i \in P}) /\ Cardinality({k + i : i \in P}) = Cardinality(P)
    BY <2>3, Shifted
  <2>4. n \in Int
    BY <1>1
  <2>5. QED
    BY <2>1, <2>2, <2>3, <2>4, Zenon DEF Count
<1>5. Cardinality(Places(s, r) \cup Q) = Count(s, r) + Count(t, r)
  <2>1. IsFiniteSet(Places(s, r)) /\ Count(s, r) \in Nat /\ Count(t, r) \in Nat
    BY PlacesFinite
  <2>2. Cardinality(Places(s, r) \cap Q) = 0
    BY <1>3, FS_EmptySet
  <2>3. Cardinality(Places(s, r) \cup Q)
          = Count(s, r) + Count(t, r) - Cardinality(Places(s, r) \cap Q)
    BY <1>4, <2>1, FS_Union DEF Count
  <2>4. QED
    BY <2>1, <2>2, <2>3
<1>6. QED
  BY <1>2, <1>5 DEF Count

(* A queue of one.                                                          *)
LEMMA CountOne ==
  ASSUME NEW e, NEW r
  PROVE  Count(<<e>>, r) = IF e = r THEN 1 ELSE 0
<1>1. DOMAIN <<e>> = {1} /\ <<e>>[1] = e
  OBVIOUS
<1>2. CASE e = r
  <2>1. Places(<<e>>, r) = {1}
    BY <1>1, <1>2 DEF Places
  <2>2. QED
    BY <1>2, <2>1, FS_Singleton DEF Count
<1>3. CASE e # r
  <2>1. Places(<<e>>, r) = {}
    BY <1>1, <1>3 DEF Places
  <2>2. QED
    BY <1>3, <2>1, FS_EmptySet DEF Count
<1>4. QED
  BY <1>2, <1>3

(* A queue that a request joins at the end.                                 *)
LEMMA CountAppend ==
  ASSUME NEW S, NEW s \in Seq(S), NEW e \in S, NEW r
  PROVE  Count(Append(s, e), r) = Count(s, r) + (IF e = r THEN 1 ELSE 0)
<1>1. Append(s, e) = s \o <<e>> /\ <<e>> \in Seq(S)
  BY AppendIsConcat
<1>2. Count(s \o <<e>>, r) = Count(s, r) + Count(<<e>>, r)
  BY <1>1, CountConcat
<1>3. QED
  BY <1>1, <1>2, CountOne

(* A queue whose front leaves.                                              *)
LEMMA CountTail ==
  ASSUME NEW S, NEW s \in Seq(S), s # <<>>, NEW r
  PROVE  Count(s, r) = Count(Tail(s), r) + (IF Head(s) = r THEN 1 ELSE 0)
<1>1. Tail(s) \in Seq(S) /\ <<Head(s)>> \in Seq(S)
  BY HeadTailProperties
<1>2. s = <<Head(s)>> \o Tail(s)
  <2>1. Len(s) \in Nat \ {0} /\ 1 \in 1..Len(s) /\ Len(s) \in 1..Len(s)
    BY EmptySeq, LenProperties
  <2>2. SubSeq(s, 1, Len(s)) = <<s[1]>> \o SubSeq(s, 1 + 1, Len(s))
    BY <2>1, SubSeqRecursiveFirst
  <2>3. SubSeq(s, 1, Len(s)) = s /\ SubSeq(s, 2, Len(s)) = Tail(s) /\ Head(s) = s[1]
    BY <2>1, SubSeqFull, TailIsSubSeq
  <2>4. QED
    BY <2>2, <2>3
<1>3. Count(s, r) = Count(<<Head(s)>>, r) + Count(Tail(s), r)
  <2>1. Count(<<Head(s)>> \o Tail(s), r) = Count(<<Head(s)>>, r) + Count(Tail(s), r)
    BY <1>1, CountConcat
  <2>2. QED
    BY <1>2, <2>1, Zenon
<1>4. Count(Tail(s), r) \in Nat
  BY <1>1, PlacesFinite
<1>5. QED
  BY <1>3, <1>4, CountOne

(* A request that does not occur is not counted.                            *)
LEMMA CountNone ==
  ASSUME NEW S, NEW s \in Seq(S), NEW r, r \notin S
  PROVE  Count(s, r) = 0
<1>1. Places(s, r) = {}
  BY LenProperties, ElementOfSeq DEF Places
<1>2. QED
  BY <1>1, FS_EmptySet DEF Count

-----------------------------------------------------------------------------
(* The steps keep the types.                                                *)

(* The owner's retirement answers the undelivered requests, in their order. *)
LEMMA Failed ==
  ASSUME TypeOK
  PROVE  [i \in DOMAIN inbox |-> [id |-> inbox[i], value |-> Gone]]
           \in Seq([id : 1..sent, value : Int])
<1>1. Len(inbox) \in Nat /\ DOMAIN inbox = 1..Len(inbox)
  BY LenProperties DEF TypeOK
<1>2. \A i \in 1..Len(inbox) : [id |-> inbox[i], value |-> Gone] \in [id : 1..sent, value : Int]
  BY ElementOfSeq DEF TypeOK, Gone
<1>3. QED
  BY <1>1, <1>2

(* What is dispatched is a new request.                                     *)
LEMMA DispatchTypes ==
  ASSUME TypeOK, RelayAssumption, Dispatch
  PROVE  TypeOK'
<1>1. sent' = sent + 1 /\ sent' <= MaxRequests /\ sent' \in Nat /\ sent' \in 1..sent'
  BY RelayAssumption DEF Dispatch, TypeOK
<1>2. /\ 1..sent \subseteq 1..sent' /\ 0..sent \subseteq 0..sent'
      /\ [id : 1..sent, value : Int] \subseteq [id : 1..sent', value : Int]
  BY <1>1 DEF TypeOK
<1>3. /\ inbox \in Seq(1..sent') /\ inFlight \in Seq(1..sent')
      /\ outbox \in Seq([id : 1..sent', value : Int])
  BY <1>2, SeqMonotonic DEF TypeOK
<1>4. inbox' \in Seq(1..sent') /\ pending' \in Int
  <2>1. Append(inbox, sent') \in Seq(1..sent')
    BY <1>1, <1>3, AppendProperties
  <2>2. \/ inbox' = inbox /\ pending' = pending
        \/ inbox' = Append(inbox, sent') /\ pending' = pending + 1
    BY DEF Dispatch
  <2>3. inbox' \in Seq(1..sent')
    BY <1>3, <2>1, <2>2, Zenon
  <2>4. pending' \in Int
    BY <2>2 DEF TypeOK
  <2>5. QED
    BY <2>3, <2>4
<1>5. outbox' \in Seq([id : 1..sent', value : Int])
  <2>1. [id |-> sent', value |-> Refused] \in [id : 1..sent', value : Int]
    BY <1>1 DEF Refused
  <2>2. Append(outbox, [id |-> sent', value |-> Refused])
          \in Seq([id : 1..sent', value : Int])
    BY <1>3, <2>1, AppendProperties
  <2>3. QED
    BY <1>3, <2>2 DEF Dispatch
<1>6. /\ relay' \in [pc : RelayPc, got : 0..sent']
      /\ callback' \in [Callbacks -> [pc : EntryPc, got : 0..sent']]
      /\ request' \in 0..sent' /\ response' \in 0..sent'
  BY <1>2 DEF Dispatch, TypeOK, slots
<1>7. QED
  BY <1>1, <1>3, <1>4, <1>5, <1>6 DEF Dispatch, TypeOK, fixed

(* The relay.                                                               *)
LEMMA RelayTypes ==
  ASSUME TypeOK, Shape, RelayRuns \/ RelayStep
  PROVE  TypeOK'
<1> USE DEF TypeOK, RelayPc, Goto, RelayAt, channel, slots, fixed
<1>1. CASE RelayRuns
  BY <1>1 DEF RelayRuns
<1>2. CASE RelayIsSet
  BY <1>2 DEF RelayIsSet
<1>3. CASE RelaySend
  <2>1. inbox # <<>>
    BY <1>3 DEF RelaySend, Shape
  <2>2. Head(inbox) \in 0..sent
    BY <2>1, HeadTailProperties
  <2>3. QED
    BY <1>3, <2>2 DEF RelaySend
<1>4. CASE RelayPop
  <2>1. inbox # <<>>
    BY <1>4 DEF RelayPop, Shape
  <2>2. Head(inbox) \in 1..sent /\ Tail(inbox) \in Seq(1..sent)
    BY <2>1, HeadTailProperties
  <2>3. Append(inFlight, Head(inbox)) \in Seq(1..sent)
    BY <2>2, AppendProperties
  <2>4. QED
    BY <1>4, <2>2, <2>3 DEF RelayPop
<1>5. CASE RelayTake
  BY <1>5 DEF RelayTake
<1>6. CASE RelayPair
  <2>1. relay' \in [pc : RelayPc, got : 0..sent] /\ pending' \in Int
    BY <1>6 DEF RelayPair
  <2>2. outbox' \in Seq([id : 1..sent, value : Int]) /\ inFlight' \in Seq(1..sent)
    <3>1. CASE inFlight = <<>>
      BY <1>6, <3>1 DEF RelayPair
    <3>2. CASE inFlight # <<>>
      <4>1. Head(inFlight) \in 1..sent /\ Tail(inFlight) \in Seq(1..sent)
        BY <3>2, HeadTailProperties
      <4>2. [id |-> Head(inFlight), value |-> relay.got] \in [id : 1..sent, value : Int]
        BY <4>1
      <4>3. Append(outbox, [id |-> Head(inFlight), value |-> relay.got])
              \in Seq([id : 1..sent, value : Int])
        BY <4>2, AppendProperties
      <4>4. QED
        BY <1>6, <3>2, <4>1, <4>3 DEF RelayPair
    <3>3. QED
      BY <3>1, <3>2
  <2>3. QED
    BY <1>6, <2>1, <2>2 DEF RelayPair
<1>7. QED
  BY <1>1, <1>2, <1>3, <1>4, <1>5, <1>6 DEF RelayStep

(* The hook entries.                                                        *)
LEMMA EntryTypes ==
  ASSUME TypeOK, Shape, RelayAssumption, NEW c \in Callbacks, Enter(c) \/ EntryStep(c)
  PROVE  TypeOK'
<1> USE DEF TypeOK, EntryPc, CallbackGoto, notEntry, channel, slots, fixed
<1>1. CASE Enter(c)
  BY <1>1 DEF Enter
<1>2. CASE TakeRequest(c)
  <2>1. request' \in 0..sent
    BY <1>2 DEF TakeRequest
  <2>2. callback' \in [Callbacks -> [pc : EntryPc, got : 0..sent]]
    <3>1. CASE callback' = [callback EXCEPT ![c] = [pc |-> "Unwrap", got |-> request]]
      <4>1. [pc |-> "Unwrap", got |-> request] \in [pc : EntryPc, got : 0..sent]
        OBVIOUS
      <4>2. QED
        BY <3>1, <4>1
    <3>2. CASE callback' = [callback EXCEPT ![c].pc = "Idle"]
      BY <3>2
    <3>3. QED
      BY <1>2, <3>1, <3>2 DEF TakeRequest
  <2>3. QED
    BY <1>2, <2>1, <2>2 DEF TakeRequest
<1>3. CASE Unwrap(c)
  <2>1. callback' \in [Callbacks -> [pc : EntryPc, got : 0..sent]]
    <3>1. callback' = [callback EXCEPT ![c].pc = "Requeue"]
          \/ callback' = [callback EXCEPT ![c].pc = "Handler"]
      BY <1>3 DEF Unwrap
    <3>2. CASE callback' = [callback EXCEPT ![c].pc = "Requeue"]
      BY <3>2
    <3>3. CASE callback' = [callback EXCEPT ![c].pc = "Handler"]
      BY <3>3
    <3>4. QED
      BY <3>1, <3>2, <3>3
  <2>2. callback[c].got \in Requests
    BY <1>3, RelayAssumption DEF Unwrap, Shape, Holding, Requests
  <2>3. handled' \in [Requests -> Nat]
    <3>1. handled' = handled \/ handled' = [handled EXCEPT ![callback[c].got] = @ + 1]
      BY <1>3 DEF Unwrap
    <3>2. handled[callback[c].got] + 1 \in Nat
      BY <2>2
    <3>3. QED
      BY <2>2, <3>1, <3>2
  <2>4. QED
    BY <1>3, <2>1, <2>3 DEF Unwrap
<1>4. CASE Requeue(c)
  BY <1>4 DEF Requeue
<1>5. CASE HandlerReturns(c)
  BY <1>5 DEF HandlerReturns
<1>6. CASE HandlerPanics(c)
  BY <1>6 DEF HandlerPanics
<1>7. CASE Respond(c)
  BY <1>7 DEF Respond
<1>8. QED
  BY <1>1, <1>2, <1>3, <1>4, <1>5, <1>6, <1>7 DEF EntryStep

(* Every step.                                                              *)
LEMMA TypesKept ==
  ASSUME TypeOK, Shape, RelayAssumption, [Next]_vars
  PROVE  TypeOK'
<1>1. CASE Retire
  <2>1. outbox' \in Seq([id : 1..sent, value : Int])
    BY <1>1, Failed, ConcatProperties DEF Retire, TypeOK
  <2>2. <<>> \in Seq(1..sent) /\ pending - Len(inbox) \in Int
    BY LenProperties DEF TypeOK
  <2>3. QED
    BY <1>1, <2>1, <2>2 DEF Retire, TypeOK, slots
<1>2. CASE UNCHANGED vars
  BY <1>2 DEF vars, channel, slots, fixed, TypeOK
<1>3. QED
  BY <1>1, <1>2, DispatchTypes, RelayTypes, EntryTypes DEF Next

-----------------------------------------------------------------------------
(* The ledger: each request is in exactly one place.                        *)

Ids(o)       == [i \in DOMAIN o |-> o[i].id]
Total(o, q, f, r) == Count(Ids(o), r) + Count(q, r) + Count(f, r)

Answers(S) == [id : S, value : Int]

(* The numbers of the answered requests.                                    *)
LEMMA IdsType ==
  ASSUME NEW S, NEW o \in Seq(Answers(S))
  PROVE  Ids(o) \in Seq(S) /\ Len(Ids(o)) = Len(o)
<1>1. Len(o) \in Nat /\ DOMAIN o = 1..Len(o) /\ \A i \in 1..Len(o) : o[i] \in Answers(S)
  BY LenProperties, ElementOfSeq
<1>2. \A i \in 1..Len(o) : o[i].id \in S
  BY <1>1 DEF Answers
<1>3. QED
  BY <1>1, <1>2 DEF Ids

(* One more answer.                                                         *)
LEMMA IdsAppend ==
  ASSUME NEW S, NEW o \in Seq(Answers(S)), NEW a \in Answers(S)
  PROVE  Ids(Append(o, a)) = Append(Ids(o), a.id)
<1>1. Ids(o) \in Seq(S) /\ Len(Ids(o)) = Len(o) /\ Len(o) \in Nat /\ a.id \in S
  BY IdsType, LenProperties DEF Answers
<1>2. /\ Append(o, a) \in Seq(Answers(S)) /\ Len(Append(o, a)) = Len(o) + 1
      /\ DOMAIN Append(o, a) = 1..(Len(o) + 1)
      /\ \A i \in 1..Len(o) : Append(o, a)[i] = o[i]
      /\ Append(o, a)[Len(o) + 1] = a
  BY <1>1, AppendProperties, LenProperties
<1>3. /\ Append(Ids(o), a.id) \in Seq(S) /\ Len(Append(Ids(o), a.id)) = Len(o) + 1
      /\ \A i \in 1..Len(o) : Append(Ids(o), a.id)[i] = Ids(o)[i]
      /\ Append(Ids(o), a.id)[Len(o) + 1] = a.id
  BY <1>1, AppendProperties
<1>4. Ids(Append(o, a)) \in Seq(S) /\ Len(Ids(Append(o, a))) = Len(o) + 1
  BY <1>2, IdsType
<1>5. \A i \in 1..(Len(o) + 1) : Ids(Append(o, a))[i] = Append(Ids(o), a.id)[i]
  <2>1. \A i \in 1..(Len(o) + 1) : Ids(Append(o, a))[i] = Append(o, a)[i].id
    BY <1>2 DEF Ids
  <2>2. \A i \in 1..Len(o) : Ids(o)[i] = o[i].id
    BY LenProperties DEF Ids
  <2>3. \A i \in 1..(Len(o) + 1) : i \in 1..Len(o) \/ i = Len(o) + 1
    BY <1>1
  <2>4. QED
    BY <1>2, <1>3, <2>1, <2>2, <2>3
<1>6. QED
  BY <1>3, <1>4, <1>5, SeqEqual

(* The answers to a whole queue.                                            *)
LEMMA IdsOfAll ==
  ASSUME NEW S, NEW o \in Seq(Answers(S)), NEW q \in Seq(S), NEW v \in Int
  PROVE  LET more == [i \in DOMAIN q |-> [id |-> q[i], value |-> v]]
         IN  Ids(o \o more) = Ids(o) \o q
<1> DEFINE more == [i \in DOMAIN q |-> [id |-> q[i], value |-> v]]
           n    == Len(o)
           m    == Len(q)
<1>1. /\ Ids(o) \in Seq(S) /\ Len(Ids(o)) = n /\ n \in Nat /\ m \in Nat
      /\ DOMAIN q = 1..m /\ DOMAIN o = 1..n
  BY IdsType, LenProperties
<1>2. more \in Seq(Answers(S)) /\ Len(more) = m /\ \A i \in 1..m : more[i].id = q[i]
  <2>1. \A i \in 1..m : [id |-> q[i], value |-> v] \in Answers(S)
    BY ElementOfSeq DEF Answers
  <2>2. QED
    BY <1>1, <2>1
<1> HIDE DEF more
<1>3. /\ o \o more \in Seq(Answers(S)) /\ Len(o \o more) = n + m
      /\ DOMAIN (o \o more) = 1..(n + m)
      /\ \A i \in 1..(n + m) : (o \o more)[i] = IF i <= n THEN o[i] ELSE more[i - n]
  <2>1. /\ o \o more \in Seq(Answers(S)) /\ Len(o \o more) = Len(o) + Len(more)
        /\ \A i \in 1..(Len(o) + Len(more)) :
             (o \o more)[i] = IF i <= Len(o) THEN o[i] ELSE more[i - Len(o)]
    BY <1>2, ConcatProperties, ZenonT(30)
  <2>2. DOMAIN (o \o more) = 1..Len(o \o more)
    BY <2>1, LenProperties
  <2>3. QED
    BY <1>2, <2>1, <2>2, Zenon
<1>4. /\ Ids(o) \o q \in Seq(S) /\ Len(Ids(o) \o q) = n + m
      /\ \A i \in 1..(n + m) : (Ids(o) \o q)[i] = IF i <= n THEN Ids(o)[i] ELSE q[i - n]
  <2>1. /\ Ids(o) \o q \in Seq(S) /\ Len(Ids(o) \o q) = Len(Ids(o)) + Len(q)
        /\ \A i \in 1..(Len(Ids(o)) + Len(q)) :
             (Ids(o) \o q)[i] = IF i <= Len(Ids(o)) THEN Ids(o)[i] ELSE q[i - Len(Ids(o))]
    BY <1>1, ConcatProperties
  <2>2. QED
    BY <1>1, <2>1, Zenon
<1>5. Ids(o \o more) \in Seq(S) /\ Len(Ids(o \o more)) = n + m
  BY <1>3, IdsType
<1>6. ASSUME NEW i \in 1..(n + m) PROVE Ids(o \o more)[i] = (Ids(o) \o q)[i]
  <2>1. Ids(o \o more)[i] = (o \o more)[i].id
    BY <1>3 DEF Ids
  <2>2. CASE i <= n
    <3>1. i \in DOMAIN o
      BY <1>1, <2>2
    <3>2. QED
      BY <1>3, <1>4, <2>1, <2>2, <3>1 DEF Ids
  <2>3. CASE ~(i <= n)
    <3>1. i - n \in 1..m
      BY <1>1, <2>3
    <3>2. QED
      BY <1>2, <1>3, <1>4, <2>1, <2>3, <3>1
  <2>4. QED
    BY <2>2, <2>3
<1>7. Ids(o \o more) = Ids(o) \o q
  BY <1>4, <1>5, <1>6, SeqEqual
<1>8. QED
  BY <1>7 DEF more

(* The three parts of the total are numbers.                                *)
LEMMA TotalParts ==
  ASSUME NEW S, NEW o \in Seq(Answers(S)), NEW q \in Seq(S), NEW f \in Seq(S), NEW r
  PROVE  /\ Count(Ids(o), r) \in Nat /\ Count(q, r) \in Nat /\ Count(f, r) \in Nat
         /\ Total(o, q, f, r) \in Nat
<1>1. Count(Ids(o), r) \in Nat
  BY IdsType, PlacesFinite
<1>2. Count(q, r) \in Nat /\ Count(f, r) \in Nat
  BY PlacesFinite
<1>3. QED
  BY <1>1, <1>2 DEF Total

(* An answer to a request that was nowhere.                                 *)
LEMMA TotalAnswered ==
  ASSUME NEW S, NEW o \in Seq(Answers(S)), NEW q \in Seq(S), NEW f \in Seq(S), NEW r,
         NEW a \in Answers(S)
  PROVE  Total(Append(o, a), q, f, r) = Total(o, q, f, r) + (IF a.id = r THEN 1 ELSE 0)
<1>1. Ids(o) \in Seq(S) /\ a.id \in S
  BY IdsType DEF Answers
<1>2. Count(Ids(Append(o, a)), r) = Count(Ids(o), r) + (IF a.id = r THEN 1 ELSE 0)
  <2>1. Ids(Append(o, a)) = Append(Ids(o), a.id)
    BY IdsAppend
  <2>2. Count(Append(Ids(o), a.id), r) = Count(Ids(o), r) + (IF a.id = r THEN 1 ELSE 0)
    BY <1>1, CountAppend
  <2>3. QED
    BY <2>1, <2>2, Zenon
<1>3. Count(Ids(o), r) \in Nat /\ Count(q, r) \in Nat /\ Count(f, r) \in Nat
  BY TotalParts
<1>4. QED
  BY <1>2, <1>3 DEF Total

(* A request that joins the queue.                                          *)
LEMMA TotalQueued ==
  ASSUME NEW S, NEW o \in Seq(Answers(S)), NEW q \in Seq(S), NEW f \in Seq(S), NEW r,
         NEW e \in S
  PROVE  Total(o, Append(q, e), f, r) = Total(o, q, f, r) + (IF e = r THEN 1 ELSE 0)
<1>1. Count(Append(q, e), r) = Count(q, r) + (IF e = r THEN 1 ELSE 0)
  BY CountAppend
<1>2. Count(Ids(o), r) \in Nat /\ Count(q, r) \in Nat /\ Count(f, r) \in Nat
  BY TotalParts
<1>3. QED
  BY <1>1, <1>2 DEF Total

(* The queue is answered and emptied.                                       *)
LEMMA TotalFailed ==
  ASSUME NEW S, NEW o \in Seq(Answers(S)), NEW q \in Seq(S), NEW f \in Seq(S), NEW r
  PROVE  Total(o \o [i \in DOMAIN q |-> [id |-> q[i], value |-> Gone]], <<>>, f, r)
           = Total(o, q, f, r)
<1> DEFINE more == [i \in DOMAIN q |-> [id |-> q[i], value |-> Gone]]
<1>1. Ids(o \o more) = Ids(o) \o q
  <2>1. Gone \in Int
    BY DEF Gone
  <2>2. QED
    BY <2>1, IdsOfAll
<1>2. Count(Ids(o) \o q, r) = Count(Ids(o), r) + Count(q, r)
  BY IdsType, CountConcat
<1>3. Count(<<>>, r) = 0
  <2>1. Places(<<>>, r) = {}
    BY DEF Places
  <2>2. QED
    BY <2>1, FS_EmptySet DEF Count
<1> HIDE DEF more
<1>4. Total(o \o more, <<>>, f, r) = Total(o, q, f, r)
  BY <1>1, <1>2, <1>3, TotalParts DEF Total
<1>5. QED
  BY <1>4 DEF more

(* The front of the queue goes in flight.                                   *)
LEMMA TotalPopped ==
  ASSUME NEW S, NEW o \in Seq(Answers(S)), NEW q \in Seq(S), NEW f \in Seq(S), NEW r,
         q # <<>>
  PROVE  Total(o, Tail(q), Append(f, Head(q)), r) = Total(o, q, f, r)
<1>1. Head(q) \in S /\ Tail(q) \in Seq(S)
  BY HeadTailProperties
<1>2. Count(q, r) = Count(Tail(q), r) + (IF Head(q) = r THEN 1 ELSE 0)
  BY CountTail
<1>3. Count(Append(f, Head(q)), r) = Count(f, r) + (IF Head(q) = r THEN 1 ELSE 0)
  BY <1>1, CountAppend
<1>4. Count(Tail(q), r) \in Nat /\ Count(Ids(o), r) \in Nat /\ Count(f, r) \in Nat
  BY <1>1, PlacesFinite, TotalParts
<1>5. QED
  BY <1>2, <1>3, <1>4 DEF Total

(* The oldest in flight is answered.                                        *)
LEMMA TotalPaired ==
  ASSUME NEW S, NEW o \in Seq(Answers(S)), NEW q \in Seq(S), NEW f \in Seq(S), NEW r,
         f # <<>>, NEW a \in Answers(S), a.id = Head(f)
  PROVE  Total(Append(o, a), q, Tail(f), r) = Total(o, q, f, r)
<1>1. Tail(f) \in Seq(S)
  BY HeadTailProperties
<1>2. Count(f, r) = Count(Tail(f), r) + (IF Head(f) = r THEN 1 ELSE 0)
  BY CountTail
<1>3. Ids(o) \in Seq(S) /\ a.id \in S
  BY IdsType DEF Answers
<1>4. Count(Ids(Append(o, a)), r) = Count(Ids(o), r) + (IF a.id = r THEN 1 ELSE 0)
  <2>1. Ids(Append(o, a)) = Append(Ids(o), a.id)
    BY IdsAppend
  <2>2. Count(Append(Ids(o), a.id), r) = Count(Ids(o), r) + (IF a.id = r THEN 1 ELSE 0)
    BY <1>3, CountAppend
  <2>3. QED
    BY <2>1, <2>2, Zenon
<1>5. Count(Tail(f), r) \in Nat /\ Count(Ids(o), r) \in Nat /\ Count(q, r) \in Nat
  BY <1>1, PlacesFinite, TotalParts
<1>6. QED
  BY <1>2, <1>4, <1>5 DEF Total

(* A request that was never dispatched is nowhere.                          *)
LEMMA TotalNone ==
  ASSUME NEW S, NEW o \in Seq(Answers(S)), NEW q \in Seq(S), NEW f \in Seq(S), NEW r,
         r \notin S
  PROVE  Total(o, q, f, r) = 0
<1>1. Count(Ids(o), r) = 0
  BY IdsType, CountNone
<1>2. Count(q, r) = 0 /\ Count(f, r) = 0
  BY CountNone
<1>3. QED
  BY <1>1, <1>2 DEF Total

(* What is counted is what PendingIsExact counts.                           *)
LEMMA TotalIs ==
  ASSUME NEW o, NEW q, NEW f, NEW r
  PROVE  Total(o, q, f, r) = Cardinality({i \in DOMAIN o : o[i].id = r})
                             + Cardinality({i \in DOMAIN q : q[i] = r})
                             + Cardinality({i \in DOMAIN f : f[i] = r})
<1>1. Places(Ids(o), r) = {i \in DOMAIN o : o[i].id = r}
  BY DEF Places, Ids
<1>2. QED
  BY <1>1 DEF Total, Count, Places

(* What a step has to show: its request numbers stay in one place each, the *)
(* counter goes along.                                                      *)
LEMMA LedgerBy ==
  ASSUME pending' = Len(inbox') + Len(inFlight'), pending' <= MaxPending,
         \A r \in 1..sent' : Total(outbox', inbox', inFlight', r) = 1
  PROVE  PendingIsExact'
<1>1. \A r \in 1..sent' :
        Cardinality({i \in DOMAIN outbox' : outbox'[i].id = r})
        + Cardinality({i \in DOMAIN inbox' : inbox'[i] = r})
        + Cardinality({i \in DOMAIN inFlight' : inFlight'[i] = r}) = 1
  BY TotalIs
<1>2. QED
  BY <1>1 DEF PendingIsExact, Answered

(* And what it starts from.                                                 *)
LEMMA LedgerGives ==
  ASSUME TypeOK, PendingIsExact
  PROVE  /\ \A r \in 1..sent : Total(outbox, inbox, inFlight, r) = 1
         /\ pending = Len(inbox) + Len(inFlight) /\ pending <= MaxPending
         /\ Len(inbox) \in Nat /\ Len(inFlight) \in Nat
         /\ outbox \in Seq(Answers(1..sent)) /\ sent \in Nat
<1>1. \A r \in 1..sent : Total(outbox, inbox, inFlight, r) = 1
  BY TotalIs DEF PendingIsExact, Answered
<1>2. QED
  BY <1>1, LenProperties DEF PendingIsExact, TypeOK, Answers

(* A new request is queued, or answered as refused.                         *)
LEMMA DispatchLedger ==
  ASSUME TypeOK, PendingIsExact, RelayAssumption, Dispatch
  PROVE  PendingIsExact'
<1> DEFINE S == 1..sent'
           a == [id |-> sent', value |-> Refused]
<1>1. /\ sent' = sent + 1 /\ sent' \in S /\ sent \in Nat /\ 1..sent \subseteq S
      /\ sent' \notin 1..sent /\ \A r \in S : r \in 1..sent \/ r = sent'
  BY DEF Dispatch, TypeOK
<1>2. /\ inbox \in Seq(1..sent) /\ inFlight \in Seq(1..sent)
      /\ outbox \in Seq(Answers(1..sent)) /\ Answers(1..sent) \subseteq Answers(S)
  BY <1>1, LedgerGives DEF TypeOK, Answers
<1>3. inbox \in Seq(S) /\ inFlight \in Seq(S) /\ outbox \in Seq(Answers(S)) /\ a \in Answers(S)
  <2>1. a \in Answers(S)
    BY <1>1 DEF Answers, Refused
  <2>2. QED
    BY <1>1, <1>2, <2>1, SeqMonotonic
<1>4. \A r \in S : Total(outbox, inbox, inFlight, r) = IF r = sent' THEN 0 ELSE 1
  <2>1. Total(outbox, inbox, inFlight, sent') = 0
    BY <1>1, <1>2, TotalNone
  <2>2. QED
    BY <1>1, <2>1, LedgerGives
<1>5. UNCHANGED inFlight
  BY DEF Dispatch
<1> HIDE DEF S, a
<1>6. CASE pending >= MaxPending
  <2>1. outbox' = Append(outbox, a) /\ UNCHANGED <<inbox, pending>>
    BY <1>6 DEF Dispatch, a
  <2>2. \A r \in S : Total(outbox', inbox', inFlight', r) = 1
    <3>1. \A r \in S : Total(Append(outbox, a), inbox, inFlight, r)
                        = Total(outbox, inbox, inFlight, r) + (IF a.id = r THEN 1 ELSE 0)
      BY <1>3, TotalAnswered
    <3>2. QED
      BY <1>4, <1>5, <2>1, <3>1 DEF a
  <2>3. QED
    BY <1>5, <2>1, <2>2, LedgerGives, LedgerBy DEF S
<1>7. CASE ~(pending >= MaxPending)
  <2>1. inbox' = Append(inbox, sent') /\ pending' = pending + 1 /\ UNCHANGED outbox
    BY <1>7 DEF Dispatch
  <2>2. \A r \in S : Total(outbox', inbox', inFlight', r) = 1
    <3>1. \A r \in S : Total(outbox, Append(inbox, sent'), inFlight, r)
                        = Total(outbox, inbox, inFlight, r) + (IF sent' = r THEN 1 ELSE 0)
      BY <1>1, <1>3, TotalQueued DEF S
    <3>2. QED
      BY <1>4, <1>5, <2>1, <3>1
  <2>3. pending' = Len(inbox') + Len(inFlight') /\ pending' <= MaxPending
    <3>1. Len(inbox') = Len(inbox) + 1
      BY <1>1, <1>3, <2>1, AppendProperties DEF S
    <3>2. QED
      BY <1>5, <1>7, <2>1, <3>1, LedgerGives, RelayAssumption
  <2>4. QED
    BY <2>2, <2>3, LedgerBy DEF S
<1>8. QED
  BY <1>6, <1>7

(* The undelivered requests are failed.                                     *)
LEMMA RetireLedger ==
  ASSUME TypeOK, PendingIsExact, RelayAssumption, Retire
  PROVE  PendingIsExact'
<1>1. /\ outbox' = outbox \o [i \in DOMAIN inbox |-> [id |-> inbox[i], value |-> Gone]]
      /\ inbox' = <<>> /\ pending' = pending - Len(inbox) /\ UNCHANGED <<inFlight, sent>>
  BY DEF Retire
<1>2. inbox \in Seq(1..sent) /\ inFlight \in Seq(1..sent)
  BY DEF TypeOK
<1>3. \A r \in 1..sent :
        Total(outbox \o [i \in DOMAIN inbox |-> [id |-> inbox[i], value |-> Gone]], <<>>, inFlight, r)
          = Total(outbox, inbox, inFlight, r)
  BY <1>2, LedgerGives, TotalFailed
<1>4. \A r \in 1..sent' : Total(outbox', inbox', inFlight', r) = 1
  BY <1>1, <1>3, LedgerGives
<1>5. pending' = Len(inbox') + Len(inFlight') /\ pending' <= MaxPending
  <2>1. Len(inbox') = 0
    BY <1>1
  <2>2. QED
    BY <1>1, <2>1, LedgerGives, RelayAssumption
<1>6. QED
  BY <1>4, <1>5, LedgerBy

(* The front of the queue goes in flight.                                   *)
LEMMA PopLedger ==
  ASSUME TypeOK, Shape, PendingIsExact, RelayPop
  PROVE  PendingIsExact'
<1>1. /\ inFlight' = Append(inFlight, Head(inbox)) /\ inbox' = Tail(inbox)
      /\ UNCHANGED <<outbox, pending, sent>> /\ inbox # <<>>
  BY DEF RelayPop, RelayAt, fixed, Shape
<1>2. inbox \in Seq(1..sent) /\ inFlight \in Seq(1..sent)
  BY DEF TypeOK
<1>3. \A r \in 1..sent : Total(outbox, Tail(inbox), Append(inFlight, Head(inbox)), r)
                           = Total(outbox, inbox, inFlight, r)
  BY <1>1, <1>2, LedgerGives, TotalPopped
<1>4. \A r \in 1..sent' : Total(outbox', inbox', inFlight', r) = 1
  BY <1>1, <1>3, LedgerGives
<1>5. Len(inbox') = Len(inbox) - 1 /\ Len(inFlight') = Len(inFlight) + 1
  BY <1>1, <1>2, HeadTailProperties, AppendProperties
<1>6. QED
  BY <1>1, <1>4, <1>5, LedgerGives, LedgerBy

(* The oldest in flight is answered.                                        *)
LEMMA PairLedger ==
  ASSUME TypeOK, PendingIsExact, RelayAssumption, RelayPair
  PROVE  PendingIsExact'
<1> DEFINE a == [id |-> Head(inFlight), value |-> relay.got]
<1>1. inbox \in Seq(1..sent) /\ inFlight \in Seq(1..sent) /\ relay.got \in Int
  BY DEF TypeOK
<1>2. UNCHANGED <<inbox, sent>>
  BY DEF RelayPair, fixed
<1>3. CASE inFlight = <<>>
  BY <1>2, <1>3, LedgerGives, LedgerBy DEF RelayPair
<1>4. CASE inFlight # <<>>
  <2>1. outbox' = Append(outbox, a) /\ inFlight' = Tail(inFlight) /\ pending' = pending - 1
    BY <1>4 DEF RelayPair
  <2>2. a \in Answers(1..sent) /\ a.id = Head(inFlight)
    BY <1>1, <1>4, HeadTailProperties DEF Answers
  <2> HIDE DEF a
  <2>3. \A r \in 1..sent : Total(Append(outbox, a), inbox, Tail(inFlight), r)
                             = Total(outbox, inbox, inFlight, r)
    BY <1>1, <1>4, <2>2, LedgerGives, TotalPaired
  <2>4. \A r \in 1..sent' : Total(outbox', inbox', inFlight', r) = 1
    BY <1>2, <2>1, <2>3, LedgerGives
  <2>5. Len(inFlight') = Len(inFlight) - 1
    BY <1>1, <1>4, <2>1, HeadTailProperties
  <2>6. pending' = Len(inbox') + Len(inFlight') /\ pending' <= MaxPending
    <3>1. Len(inbox') = Len(inbox) /\ pending' = pending - 1
      BY <1>2, <2>1
    <3>2. /\ Len(inbox) \in Nat /\ Len(inFlight) \in Nat /\ MaxPending \in Nat
          /\ pending = Len(inbox) + Len(inFlight) /\ pending <= MaxPending
      BY LedgerGives, RelayAssumption
    <3>3. QED
      BY ONLY <2>5, <3>1, <3>2
  <2>7. QED
    BY <2>4, <2>6, LedgerBy
<1>5. QED
  BY <1>3, <1>4

(* Every step.                                                              *)
LEMMA LedgerKept ==
  ASSUME TypeOK, Shape, PendingIsExact, RelayAssumption, [Next]_vars
  PROVE  PendingIsExact'
<1>1. CASE UNCHANGED <<channel, inFlight, sent>>
  BY <1>1, LedgerGives, LedgerBy DEF channel
<1>2. RelayRuns \/ RelayIsSet \/ RelaySend \/ RelayTake => UNCHANGED <<channel, inFlight, sent>>
  BY DEF RelayRuns, RelayIsSet, RelaySend, RelayTake, fixed
<1>3. \A c \in Callbacks : Enter(c) \/ EntryStep(c) => UNCHANGED <<channel, inFlight, sent>>
  BY DEF Enter, EntryStep, TakeRequest, Unwrap, Requeue, HandlerReturns, HandlerPanics, Respond,
         notEntry
<1>4. CASE UNCHANGED vars
  BY <1>1, <1>4 DEF vars
<1>5. QED
  BY <1>1, <1>2, <1>3, <1>4, DispatchLedger, RetireLedger, PopLedger, PairLedger
     DEF Next, RelayStep

-----------------------------------------------------------------------------
(* What has been taken, and the retirement.                                 *)

(* The queue is in the order of the requests.                               *)
LEMMA ShapeKept ==
  ASSUME TypeOK, Shape, RelayAssumption, [Next]_vars
  PROVE  Shape'
<1>1. Len(inbox) \in Nat /\ DOMAIN inbox = 1..Len(inbox) /\ sent \in Nat
      /\ inbox \in Seq(1..sent) /\ \A i \in 1..Len(inbox) : inbox[i] \in 1..sent
  BY LenProperties, ElementOfSeq DEF TypeOK
<1>2. CASE Dispatch
  <2>1. relay.pc = "Idle" /\ UNCHANGED <<relay, callback>>
    BY <1>2 DEF Dispatch, RelayAt
  <2>2. CASE UNCHANGED inbox
    BY <2>1, <2>2 DEF Shape
  <2>3. CASE inbox' = Append(inbox, sent + 1)
    <3>1. inbox \in Seq(Nat) /\ sent + 1 \in Nat
      <4>1. 1..sent \subseteq Nat
        OBVIOUS
      <4>2. QED
        BY <1>1, <4>1, SeqMonotonic
    <3>2. /\ Len(inbox') = Len(inbox) + 1 /\ inbox'[Len(inbox) + 1] = sent + 1
          /\ \A i \in 1..Len(inbox) : inbox'[i] = inbox[i]
      BY <2>3, <3>1, AppendProperties
    <3>3. \A i, j \in 1..Len(inbox') : i < j => inbox'[i] < inbox'[j]
      <4>1. \A j \in 1..Len(inbox') : j \in 1..Len(inbox) \/ j = Len(inbox) + 1
        BY <1>1, <3>2
      <4>2. \A i, j \in 1..Len(inbox') : i < j => i \in 1..Len(inbox)
        BY <1>1, <3>2
      <4>3. \A i \in 1..Len(inbox) : inbox[i] < sent + 1
        BY <1>1
      <4>4. QED
        BY <3>2, <4>1, <4>2, <4>3 DEF Shape
    <3>4. QED
      BY <2>1, <3>3 DEF Shape
  <2>4. QED
    BY <1>2, <2>2, <2>3 DEF Dispatch
<1>3. CASE Retire
  BY <1>3 DEF Retire, RelayAt, Shape
<1>4. CASE RelayPop
  <2>1. inbox # <<>> /\ inbox' = Tail(inbox) /\ UNCHANGED callback /\ relay'.pc = "Take"
    BY <1>4 DEF RelayPop, RelayAt, Goto, Shape, TypeOK
  <2>2. Len(inbox') = Len(inbox) - 1 /\ \A i \in 1..Len(inbox') : inbox'[i] = inbox[i + 1]
    BY <1>1, <2>1, HeadTailProperties
  <2>3. \A i, j \in 1..Len(inbox') : i < j => inbox'[i] < inbox'[j]
    <3>1. \A i \in 1..Len(inbox') : i + 1 \in 1..Len(inbox)
      BY <1>1, <2>2
    <3>2. \A i, j \in 1..Len(inbox') : i < j => i + 1 < j + 1
      BY <1>1, <2>2
    <3>3. QED
      BY <2>2, <3>1, <3>2 DEF Shape
  <2>4. QED
    BY <2>1, <2>3 DEF Shape
<1>5. CASE RelayRuns \/ RelayIsSet \/ RelaySend \/ RelayTake \/ RelayPair
  <2>1. UNCHANGED <<inbox, callback>>
    BY <1>5 DEF RelayRuns, RelayIsSet, RelaySend, RelayTake, RelayPair, channel
  <2>2. /\ relay'.pc \in {"Send", "Pop"} => inbox # <<>>
        /\ relay'.pc = "Pair" => relay'.got # 0
    <3>1. relay = [pc |-> relay.pc, got |-> relay.got]
      BY DEF TypeOK
    <3>2. CASE RelayRuns \/ RelayIsSet
      BY <3>1, <3>2 DEF RelayRuns, RelayIsSet, RelayAt, Goto
    <3>3. CASE RelaySend
      BY <3>1, <3>3 DEF RelaySend, RelayAt, Goto, Shape
    <3>4. CASE RelayTake
      BY <3>1, <3>4 DEF RelayTake, RelayAt, Goto
    <3>5. CASE RelayPair
      BY <3>5 DEF RelayPair
    <3>6. QED
      BY <1>5, <3>2, <3>3, <3>4, <3>5
  <2>3. QED
    BY <2>1, <2>2 DEF Shape
<1>6. CASE \E c \in Callbacks : Enter(c) \/ EntryStep(c)
  <2>1. PICK c \in Callbacks : Enter(c) \/ EntryStep(c)
    BY <1>6
  <2>2. UNCHANGED <<inbox, relay>>
    BY <2>1 DEF Enter, EntryStep, TakeRequest, Unwrap, Requeue, HandlerReturns, HandlerPanics,
                Respond, notEntry, channel
  <2>3. /\ callback'[c].pc \in Holding => callback'[c].got # 0
        /\ \A d \in Callbacks \ {c} : callback'[d] = callback[d]
    BY <2>1 DEF Enter, EntryStep, TakeRequest, Unwrap, Requeue, HandlerReturns, HandlerPanics,
                Respond, CallbackGoto, Shape, Holding, TypeOK
  <2>4. QED
    BY <2>2, <2>3 DEF Shape
<1>7. CASE UNCHANGED vars
  BY <1>7 DEF vars, channel, Shape
<1>8. QED
  BY <1>2, <1>3, <1>4, <1>5, <1>6, <1>7 DEF Next, RelayStep

(* Only the retirement fails a request.                                     *)
LEMMA RetirementKept ==
  ASSUME TypeOK, Shape, Retirement, [Next]_vars
  PROVE  Retirement'
<1>1. outbox \in Seq(Answers(1..sent)) /\ Len(outbox) \in Nat /\ DOMAIN outbox = 1..Len(outbox)
  BY LenProperties DEF TypeOK, Answers
<1>2. CASE Dispatch
  <2>1. ~retired /\ UNCHANGED <<retired, relay>>
    BY <1>2 DEF Dispatch, fixed
  <2>2. CASE UNCHANGED outbox
    BY <2>1, <2>2 DEF Retirement
  <2>3. CASE outbox' = Append(outbox, [id |-> sent', value |-> Refused])
    <3>1. \A i \in DOMAIN outbox' :
          \/ i \in DOMAIN outbox /\ outbox'[i] = outbox[i]
          \/ outbox'[i] = [id |-> sent', value |-> Refused]
      BY <1>1, <2>3
    <3>2. QED
      BY <2>1, <3>1 DEF Retirement, Refused, Gone
  <2>4. QED
    BY <1>2, <2>2, <2>3 DEF Dispatch
<1>3. CASE Retire
  BY <1>3 DEF Retire, RelayAt, Retirement
<1>4. CASE RelayRuns \/ RelayStep
  <2>1. UNCHANGED retired /\ ~retired
    BY <1>4 DEF RelayRuns, RelayStep, RelayIsSet, RelaySend, RelayPop, RelayTake, RelayPair,
                RelayAt, fixed, Retirement
  <2>2. CASE UNCHANGED outbox
    BY <2>1, <2>2 DEF Retirement
  <2>3. CASE outbox' = Append(outbox, [id |-> Head(inFlight), value |-> relay.got])
    <3>1. \A i \in DOMAIN outbox' :
          \/ i \in DOMAIN outbox /\ outbox'[i] = outbox[i]
          \/ outbox'[i] = [id |-> Head(inFlight), value |-> relay.got]
      BY <1>1, <2>3
    <3>2. relay.got # Gone
      BY DEF TypeOK, Gone
    <3>3. QED
      BY <2>1, <3>1, <3>2 DEF Retirement
  <2>4. QED
    BY <1>4, <2>2, <2>3 DEF RelayRuns, RelayStep, RelayIsSet, RelaySend, RelayPop, RelayTake,
                            RelayPair, channel
<1>5. CASE \E c \in Callbacks : Enter(c) \/ EntryStep(c)
  BY <1>5 DEF Enter, EntryStep, TakeRequest, Unwrap, Requeue, HandlerReturns, HandlerPanics,
              Respond, notEntry, channel, fixed, Retirement
<1>6. CASE UNCHANGED vars
  BY <1>6 DEF vars, channel, fixed, Retirement
<1>7. QED
  BY <1>2, <1>3, <1>4, <1>5, <1>6 DEF Next

-----------------------------------------------------------------------------
(* Who may still get a request.                                             *)

(* The dispatch: what it queues is new to everybody.                        *)
LEMMA DispatchDelivery ==
  ASSUME TypeOK, Shape, Retirement, Delivery, Retirement', Dispatch
  PROVE  Delivery'
<1>1. /\ relay.pc = "Idle" /\ ~retired' /\ UNCHANGED <<request, relay, callback, handled>>
      /\ sent' = sent + 1 /\ sent \in Nat
      /\ inbox' = inbox \/ inbox' = Append(inbox, sent + 1)
  BY DEF Dispatch, RelayAt, slots, fixed, TypeOK
<1>2. \A r \in Requests : ~Undelivered(r)'
  BY <1>1 DEF Undelivered, Retirement
<1>3. ASSUME NEW r \in Requests PROVE (Out(r) \/ handled[r] > 0) => HandedOver(r)'
  <2>1. SUFFICES ASSUME Out(r) \/ handled[r] > 0, NEW i \in 1..Len(inbox'), inbox'[i] = r
                 PROVE  FALSE
    BY DEF HandedOver
  <2>2. r <= sent
    BY <1>1, <2>1 DEF Delivery, Out, Held, TypeOK
  <2>3. inbox \in Seq(Nat)
    BY SeqMonotonic DEF TypeOK
  <2>4. i \in 1..Len(inbox) /\ inbox[i] = r
    <3>1. CASE inbox' = inbox
      BY <2>1, <3>1
    <3>2. CASE inbox' = Append(inbox, sent + 1)
      <4>1. /\ Len(inbox') = Len(inbox) + 1 /\ inbox'[Len(inbox) + 1] = sent + 1
            /\ \A j \in 1..Len(inbox) : inbox'[j] = inbox[j]
        BY <1>1, <2>3, <3>2, AppendProperties
      <4>2. i # Len(inbox) + 1
        BY <1>1, <2>1, <2>2, <4>1
      <4>3. i \in 1..Len(inbox)
        BY <2>3, <4>1, <4>2, LenProperties
      <4>4. QED
        BY <2>1, <4>1, <4>3
    <3>3. QED
      BY <1>1, <3>1, <3>2
  <2>5. QED
    BY <1>1, <2>1, <2>4 DEF Delivery, HandedOver
<1>4. \A r \in Requests : Out(r)' <=> Out(r)
  BY <1>1 DEF Out, Held
<1>5. \A r \in Requests, c \in Callbacks : Held(c, r)' <=> Held(c, r)
  BY <1>1 DEF Held
<1>6. \A r \in Requests : handled[r] > 0 => r <= sent'
  BY <1>1 DEF Delivery, Requests
<1>7. QED
  BY <1>1, <1>2, <1>3, <1>4, <1>5, <1>6 DEF Delivery

(* The retirement fails only requests that nobody has been handed.          *)
LEMMA RetireDelivery ==
  ASSUME TypeOK, Retirement, Delivery, Retire
  PROVE  Delivery'
<1>1. /\ relay.pc = "Idle" /\ ~retired /\ inbox' = <<>>
      /\ outbox' = outbox \o [i \in DOMAIN inbox |-> [id |-> inbox[i], value |-> Gone]]
      /\ UNCHANGED <<request, callback, handled, sent>>
  BY DEF Retire, RelayAt, slots
<1>2. ASSUME NEW r \in Requests, Undelivered(r)' PROVE \E i \in 1..Len(inbox) : inbox[i] = r
  <2> DEFINE more == [i \in DOMAIN inbox |-> [id |-> inbox[i], value |-> Gone]]
  <2>1. /\ outbox \in Seq([id : 1..sent, value : Int]) /\ more \in Seq([id : 1..sent, value : Int])
        /\ DOMAIN outbox = 1..Len(outbox) /\ Len(outbox) \in Nat
        /\ DOMAIN inbox = 1..Len(inbox) /\ Len(inbox) \in Nat
    BY Failed, LenProperties DEF TypeOK
  <2>2. DOMAIN more = 1..Len(inbox) /\ Len(more) = Len(inbox)
    BY <2>1
  <2>3. \A i \in 1..Len(inbox) : more[i].id = inbox[i]
    BY <2>1
  <2> HIDE DEF more
  <2>4. PICK i \in DOMAIN outbox' : outbox'[i] = [id |-> r, value |-> Gone]
    BY <1>2 DEF Undelivered
  <2>5. outbox' = outbox \o more
    BY <1>1 DEF more
  <2>6. /\ outbox' \in Seq([id : 1..sent, value : Int])
        /\ Len(outbox') = Len(outbox) + Len(more)
        /\ \A j \in 1..(Len(outbox) + Len(more)) :
             outbox'[j] = IF j <= Len(outbox) THEN outbox[j] ELSE more[j - Len(outbox)]
    BY <2>1, <2>5, ConcatProperties
  <2>7. i \in 1..(Len(outbox) + Len(inbox))
    BY <2>2, <2>4, <2>6, LenProperties
  <2>8. ~(i <= Len(outbox))
    <3>1. SUFFICES ASSUME i <= Len(outbox) PROVE FALSE
      OBVIOUS
    <3>2. i \in DOMAIN outbox /\ outbox[i].value = Gone
      BY <2>1, <2>2, <2>4, <2>6, <2>7, <3>1
    <3>3. QED
      BY <1>1, <3>2 DEF Retirement
  <2>9. i - Len(outbox) \in 1..Len(inbox)
    BY <2>1, <2>7, <2>8
  <2>10. inbox[i - Len(outbox)] = r
    <3>1. outbox'[i] = more[i - Len(outbox)]
      BY <2>2, <2>6, <2>7, <2>8
    <3>2. more[i - Len(outbox)].id = r
      BY <2>4, <3>1
    <3>3. QED
      BY <2>3, <2>9, <3>2
  <2>11. QED
    BY <2>9, <2>10
<1>3. \A r \in Requests : Out(r)' <=> Out(r)
  BY <1>1 DEF Out, Held
<1>4. \A r \in Requests : HandedOver(r)'
  BY <1>1 DEF HandedOver
<1>5. \A r \in Requests : Undelivered(r)' => ~Out(r) /\ handled[r] = 0
  <2>1. SUFFICES ASSUME NEW r \in Requests, Undelivered(r)' PROVE ~Out(r) /\ handled[r] = 0
    OBVIOUS
  <2>2. ~HandedOver(r)
    BY <1>1, <1>2, <2>1 DEF HandedOver
  <2>3. handled[r] \in Nat
    BY DEF TypeOK
  <2>4. QED
    BY <2>2, <2>3 DEF Delivery
<1>6. QED
  BY <1>1, <1>3, <1>4, <1>5 DEF Delivery, Held

(* The relay hands the front of the queue over, and then drops it.          *)
LEMMA RelayDelivery ==
  ASSUME TypeOK, Shape, Retirement, Delivery, Retirement', RelayRuns \/ RelayStep
  PROVE  Delivery'
<1>1. /\ UNCHANGED <<callback, handled, sent, retired>> /\ ~retired
      /\ relay = [pc |-> relay.pc, got |-> relay.got]
  BY DEF RelayRuns, RelayStep, RelayIsSet, RelaySend, RelayPop, RelayTake, RelayPair,
         RelayAt, fixed, Retirement, TypeOK
<1>2. \A r \in Requests : ~Undelivered(r)'
  BY <1>1 DEF Undelivered, Retirement
<1>3. \A r \in Requests, c \in Callbacks : Held(c, r)' <=> Held(c, r)
  BY <1>1 DEF Held
<1>4. CASE RelayRuns \/ RelayIsSet \/ RelayTake \/ RelayPair
  <2>1. UNCHANGED <<inbox, request>> /\ relay.pc # "Pop"
    BY <1>4 DEF RelayRuns, RelayIsSet, RelayTake, RelayPair, RelayAt, channel, slots
  <2>2. \A r \in Requests : HandedOver(r) => HandedOver(r)'
    BY <2>1 DEF HandedOver
  <2>3. \A r \in Requests : Out(r)' <=> Out(r)
    BY <1>3, <2>1 DEF Out
  <2>4. QED
    BY <1>1, <1>2, <1>3, <2>1, <2>2, <2>3 DEF Delivery
<1>5. CASE RelaySend
  <2>1. UNCHANGED inbox /\ relay.pc = "Send" /\ inbox # <<>>
    BY <1>5 DEF RelaySend, RelayAt, Shape, channel
  <2>2. CASE UNCHANGED request
    <3>1. \A r \in Requests : HandedOver(r) => HandedOver(r)'
      BY <2>1 DEF HandedOver
    <3>2. \A r \in Requests : Out(r)' <=> Out(r)
      BY <1>3, <2>2 DEF Out
    <3>3. QED
      BY <1>1, <1>2, <1>3, <2>2, <3>1, <3>2 DEF Delivery
  <2>3. CASE request' = Head(inbox) /\ relay'.pc = "Pop"
    <3>1. /\ Len(inbox) \in Nat /\ 1 \in 1..Len(inbox) /\ Head(inbox) = inbox[1]
      BY <2>1, EmptySeq, LenProperties DEF TypeOK
    <3>2. ~HandedOver(Head(inbox))
      BY <2>1, <3>1 DEF HandedOver
    <3>3. Head(inbox) \in Requests => ~Out(Head(inbox)) /\ ~(handled[Head(inbox)] > 0)
      BY <3>2 DEF Delivery
    <3>4. \A r \in Requests : HandedOver(r) => HandedOver(r)'
      BY <2>1 DEF HandedOver
    <3>5. \A r \in Requests : r = Head(inbox) => HandedOver(r)'
      <4>1. SUFFICES ASSUME NEW i \in 1..Len(inbox), inbox[i] = Head(inbox) PROVE i = 1
        BY <2>1, <2>3 DEF HandedOver
      <4>2. 1 < i => inbox[1] < inbox[i]
        BY <3>1 DEF Shape
      <4>3. inbox[i] \in Int
        BY ElementOfSeq DEF TypeOK
      <4>4. QED
        BY <3>1, <4>1, <4>2, <4>3
    <3>6. \A r \in Requests : Out(r)' <=> r = Head(inbox) \/ \E c \in Callbacks : Held(c, r)
      BY <1>3, <2>3 DEF Out
    <3>7. SUFFICES ASSUME NEW r \in Requests
                   PROVE  /\ Out(r)' \/ handled[r] > 0 => HandedOver(r)'
                          /\ handled[r] > 0 => ~Out(r)' /\ handled[r] = 1 /\ r <= sent
                          /\ request' = r => \A c \in Callbacks : ~Held(c, r)
                          /\ \A c, d \in Callbacks : Held(c, r) /\ Held(d, r) => c = d
      BY <1>1, <1>2, <1>3 DEF Delivery
    <3>8. CASE r = Head(inbox)
      <4>1. ~Out(r) /\ ~(handled[r] > 0)
        BY <3>3, <3>8
      <4>2. \A c \in Callbacks : ~Held(c, r)
        BY <4>1 DEF Out
      <4>3. HandedOver(r)'
        BY <3>5, <3>8
      <4>4. QED
        BY <4>1, <4>2, <4>3
    <3>9. CASE r # Head(inbox)
      BY <2>3, <3>4, <3>6, <3>9 DEF Out, Delivery
    <3>10. QED
      BY <3>8, <3>9
  <2>4. QED
    BY <1>1, <1>5, <2>2, <2>3 DEF RelaySend, Goto
<1>6. CASE RelayPop
  <2>1. /\ UNCHANGED request /\ relay.pc = "Pop" /\ inbox # <<>> /\ inbox' = Tail(inbox)
        /\ inbox \in Seq(1..sent)
    BY <1>6 DEF RelayPop, RelayAt, Shape, slots, TypeOK
  <2>2. /\ Len(inbox) \in Nat /\ Len(inbox') = Len(inbox) - 1
        /\ \A i \in 1..Len(inbox') : inbox'[i] = inbox[i + 1]
    BY <2>1, HeadTailProperties, LenProperties
  <2>3. \A i \in 1..Len(inbox') : i + 1 \in 1..Len(inbox) /\ i + 1 # 1
    BY <2>2
  <2>4. \A r \in Requests : HandedOver(r) => HandedOver(r)'
    BY <2>2, <2>3 DEF HandedOver
  <2>5. \A r \in Requests : Out(r)' <=> Out(r)
    BY <1>3, <2>1 DEF Out
  <2>6. QED
    BY <1>1, <1>2, <1>3, <2>1, <2>4, <2>5 DEF Delivery
<1>7. QED
  BY <1>4, <1>5, <1>6 DEF RelayStep

(* A hook entry takes a reference, hands it on or gives it back.            *)
LEMMA EntryDelivery ==
  ASSUME TypeOK, Shape, RelayAssumption, Delivery, NEW c \in Callbacks, Enter(c) \/ EntryStep(c)
  PROVE  Delivery'
<1>1. /\ UNCHANGED <<inbox, outbox, relay, sent>>
      /\ \A d \in Callbacks \ {c} : callback'[d] = callback[d]
  BY DEF Enter, EntryStep, TakeRequest, Unwrap, Requeue, HandlerReturns, HandlerPanics, Respond,
         notEntry, channel, CallbackGoto, TypeOK
<1>2. \A r \in Requests : (HandedOver(r)' <=> HandedOver(r)) /\ (Undelivered(r)' <=> Undelivered(r))
  BY <1>1 DEF HandedOver, Undelivered
<1>3. \A r \in Requests, d \in Callbacks \ {c} : Held(d, r)' <=> Held(d, r)
  BY <1>1 DEF Held
<1>4. \A r \in Requests : r # 0 /\ handled[r] \in Nat
  BY RelayAssumption DEF Requests, TypeOK
<1>5. SUFFICES ASSUME NEW r \in Requests
               PROVE  /\ Out(r)' => Out(r)
                      /\ \/ handled'[r] = handled[r]
                         \/ handled'[r] = handled[r] + 1 /\ Out(r) /\ ~Out(r)'
                      /\ request' = r => \A d \in Callbacks : ~Held(d, r)'
                      /\ \A d, e \in Callbacks : Held(d, r)' /\ Held(e, r)' => d = e
  <2>1. \A r \in Requests : Out(r) => HandedOver(r) /\ handled[r] = 0
    BY <1>4 DEF Delivery
  <2>2. \A r \in Requests : handled'[r] > 0 => handled[r] > 0 \/ Out(r)
    BY <1>4, <1>5
  <2>3. \A r \in Requests : Out(r) => r <= sent
    BY DEF Out, Held, TypeOK
  <2>4. \A r \in Requests : handled'[r] > 0 => ~Out(r)' /\ handled'[r] = 1
    BY <1>4, <1>5, <2>1 DEF Delivery
  <2>5. ASSUME NEW r \in Requests, Undelivered(r) PROVE handled'[r] = 0 /\ ~Out(r)'
    BY <1>5, <2>5 DEF Delivery
  <2>6. \A r \in Requests : Out(r)' \/ handled'[r] > 0 => HandedOver(r)
    BY <1>5, <2>2 DEF Delivery
  <2>7. \A r \in Requests : handled'[r] > 0 => r <= sent
    BY <2>2, <2>3 DEF Delivery
  <2>8. QED
    BY <1>1, <1>2, <1>5, <2>4, <2>5, <2>6, <2>7 DEF Delivery
<1>6. callback[c] \in [pc : EntryPc, got : 0..sent]
  BY DEF TypeOK
<1>7. CASE TakeRequest(c) /\ request # 0 /\ request' = 0
           /\ callback' = [callback EXCEPT ![c] = [pc |-> "Unwrap", got |-> request]]
  <2>1. UNCHANGED handled /\ ~Held(c, r) /\ (Held(c, r)' <=> request = r)
    BY <1>7 DEF TakeRequest, Held, TypeOK
  <2>2. request = r => \A d \in Callbacks : ~Held(d, r)
    BY DEF Delivery
  <2>3. \A d, e \in Callbacks : Held(d, r) /\ Held(e, r) => d = e
    BY DEF Delivery
  <2>4. \A d \in Callbacks : Held(d, r)' <=> Held(d, r) \/ (d = c /\ request = r)
    BY <1>3, <2>1
  <2>5. Out(r)' => Out(r)
    BY <1>4, <1>7, <2>4 DEF Out
  <2>6. QED
    BY <1>4, <1>7, <2>1, <2>2, <2>3, <2>4, <2>5
<1>8. CASE Requeue(c)
  <2>1. /\ UNCHANGED handled /\ ~Held(c, r)' /\ (Held(c, r) <=> callback[c].got = r)
        /\ request' = request \/ request' = callback[c].got
    BY <1>8 DEF Requeue, Held, TypeOK
  <2>2. /\ request = r => \A d \in Callbacks : ~Held(d, r)
        /\ \A d, e \in Callbacks : Held(d, r) /\ Held(e, r) => d = e
    BY DEF Delivery
  <2>3. \A d \in Callbacks : Held(d, r)' <=> Held(d, r) /\ d # c
    BY <1>3, <2>1
  <2>4. QED
    BY <2>1, <2>2, <2>3 DEF Out
<1>9. CASE Unwrap(c) /\ callback' = [callback EXCEPT ![c].pc = "Handler"]
           /\ handled' = [handled EXCEPT ![callback[c].got] = @ + 1]
  <2>1. /\ UNCHANGED request /\ ~Held(c, r)' /\ (Held(c, r) <=> callback[c].got = r)
    BY <1>9 DEF Unwrap, Held, TypeOK, slots
  <2>2. /\ request = r => \A d \in Callbacks : ~Held(d, r)
        /\ \A d, e \in Callbacks : Held(d, r) /\ Held(e, r) => d = e
    BY DEF Delivery
  <2>3. \A d \in Callbacks : Held(d, r)' <=> Held(d, r) /\ d # c
    BY <1>3, <2>1
  <2>4. callback[c].got = r => Out(r) /\ ~Out(r)'
    BY <2>1, <2>2, <2>3 DEF Out
  <2>5. handled'[r] = IF callback[c].got = r THEN handled[r] + 1 ELSE handled[r]
    BY <1>9 DEF TypeOK
  <2>6. QED
    BY <2>1, <2>2, <2>3, <2>4, <2>5 DEF Out
<1>10. CASE /\ UNCHANGED <<request, handled>> /\ (Held(c, r)' => Held(c, r))
  <2>1. \A d \in Callbacks : Held(d, r)' => Held(d, r)
    BY <1>3, <1>10
  <2>2. QED
    BY <1>10, <2>1 DEF Out, Delivery
<1>11. QED
  <2>1. CASE Enter(c) \/ HandlerReturns(c) \/ HandlerPanics(c) \/ Respond(c)
    <3>1. UNCHANGED <<request, handled>> /\ callback'[c].pc \notin {"Unwrap", "Requeue"}
      BY <2>1 DEF Enter, HandlerReturns, HandlerPanics, Respond, slots, CallbackGoto, TypeOK
    <3>2. QED
      BY <1>10, <3>1 DEF Held
  <2>2. CASE TakeRequest(c) /\ UNCHANGED request
    <3>1. \/ UNCHANGED <<request, handled>> /\ callback'[c].pc \notin {"Unwrap", "Requeue"}
          \/ /\ request # 0 /\ request' = 0
             /\ callback' = [callback EXCEPT ![c] = [pc |-> "Unwrap", got |-> request]]
      BY <2>2 DEF TakeRequest, CallbackGoto, TypeOK
    <3>2. QED
      BY <1>7, <1>10, <2>2, <3>1 DEF Held
  <2>3. CASE Unwrap(c) /\ UNCHANGED handled
    <3>1. /\ UNCHANGED <<request, handled>> /\ callback[c].pc = "Unwrap"
          /\ callback'[c].got = callback[c].got
      BY <2>3 DEF Unwrap, slots, CallbackGoto, TypeOK
    <3>2. QED
      BY <1>10, <3>1 DEF Held
  <2>4. QED
    BY <1>7, <1>8, <1>9, <2>1, <2>2, <2>3 DEF EntryStep, TakeRequest, Unwrap, CallbackGoto

(* Every step.                                                              *)
LEMMA DeliveryKept ==
  ASSUME TypeOK, Shape, Retirement, Delivery, RelayAssumption, [Next]_vars
  PROVE  Delivery'
<1>1. Retirement'
  BY RetirementKept
<1>2. CASE UNCHANGED vars
  BY <1>2 DEF vars, channel, slots, Delivery, Out, Held, HandedOver, Undelivered
<1>3. QED
  BY <1>1, <1>2, DispatchDelivery, RetireDelivery, RelayDelivery, EntryDelivery DEF Next

-----------------------------------------------------------------------------
(* A hooked method that is only called on the main thread.                  *)

(* The relay and the hook entries take turns.                               *)
LEMMA TurnsKept ==
  ASSUME TypeOK, onMain, Turns, [Next]_vars
  PROVE  Turns'
<1>1. CASE Dispatch \/ Retire
  BY <1>1 DEF Dispatch, Retire, Turns, AllReturned
<1>2. CASE RelayRuns
  BY <1>2 DEF RelayRuns, MainFree, Turns, AllReturned
<1>3. CASE RelayStep
  <2>1. relay.pc # "Idle" /\ UNCHANGED callback
    BY <1>3 DEF RelayStep, RelayIsSet, RelaySend, RelayPop, RelayTake, RelayPair, RelayAt
  <2>2. QED
    BY <2>1 DEF Turns, AllReturned
<1>4. ASSUME NEW c \in Callbacks, Enter(c) PROVE Turns'
  <2>1. /\ relay.pc = "Idle" /\ AllReturned /\ UNCHANGED relay
        /\ \A d \in Callbacks \ {c} : callback'[d] = callback[d]
    BY <1>4 DEF Enter, RelayAt, notEntry, CallbackGoto, TypeOK
  <2>2. \A d \in Callbacks : callback'[d].pc # "Idle" => d = c
    BY <2>1 DEF AllReturned
  <2>3. QED
    BY <2>1, <2>2 DEF Turns
<1>5. ASSUME NEW c \in Callbacks, EntryStep(c) PROVE Turns'
  <2>1. /\ callback[c].pc # "Idle" /\ UNCHANGED relay
        /\ \A d \in Callbacks \ {c} : callback'[d] = callback[d]
    BY <1>5 DEF EntryStep, TakeRequest, Unwrap, Requeue, HandlerReturns, HandlerPanics, Respond,
                notEntry, CallbackGoto, TypeOK
  <2>2. relay.pc = "Idle" /\ \A d \in Callbacks \ {c} : callback[d].pc = "Idle"
    BY <2>1 DEF Turns, AllReturned
  <2>3. \A d \in Callbacks : callback'[d].pc # "Idle" => d = c
    BY <2>1, <2>2
  <2>4. QED
    BY <2>1, <2>2, <2>3 DEF Turns
<1>6. CASE UNCHANGED vars
  BY <1>6 DEF vars, Turns, AllReturned
<1>7. QED
  BY <1>1, <1>2, <1>3, <1>4, <1>5, <1>6 DEF Next

(* Queues of one and of two.                                                *)
LEMMA Short ==
  ASSUME NEW a, NEW b
  PROVE  /\ <<a>> \o <<>> = <<a>> /\ <<>> \o <<a>> = <<a>> /\ <<>> \o <<>> = <<>>
         /\ <<a>> \o <<b>> = <<a, b>>
         /\ Append(<<>>, a) = <<a>> /\ Append(<<a>>, b) = <<a, b>>
         /\ Head(<<a>>) = a /\ Tail(<<a>>) = <<>> /\ <<a>> # <<>>
         /\ Head(<<a, b>>) = a /\ Tail(<<a, b>>) = <<b>> /\ <<a, b>> # <<>>
<1> DEFINE S == {a, b}
<1>1. <<>> \in Seq(S) /\ <<a>> \in Seq(S) /\ <<b>> \in Seq(S) /\ <<a, b>> \in Seq(S)
  OBVIOUS
<1>2. <<a>> \o <<>> = <<a>> /\ <<>> \o <<a>> = <<a>> /\ <<>> \o <<>> = <<>>
  BY <1>1, ConcatEmptySeq
<1>3. Append(<<>>, a) = <<a>> /\ Append(<<a>>, b) = <<a, b>>
  <2>1. Append(<<>>, a) = <<>> \o <<a>>
    BY <1>1, AppendIsConcat
  <2>2. /\ Append(<<a>>, b) \in Seq(S) /\ Len(Append(<<a>>, b)) = Len(<<a>>) + 1
        /\ \A i \in 1..Len(<<a>>) : Append(<<a>>, b)[i] = <<a>>[i]
        /\ Append(<<a>>, b)[Len(<<a>>) + 1] = b
    BY <1>1, AppendProperties
  <2>3. Len(<<a>>) = 1 /\ Len(<<a, b>>) = 2 /\ <<a>>[1] = a /\ <<a, b>>[1] = a /\ <<a, b>>[2] = b
    OBVIOUS
  <2>4. Len(Append(<<a>>, b)) = Len(<<a, b>>)
    BY <2>2, <2>3
  <2>5. \A i \in 1..Len(Append(<<a>>, b)) : Append(<<a>>, b)[i] = <<a, b>>[i]
    <3>1. \A i \in 1..Len(Append(<<a>>, b)) : i = 1 \/ i = 2
      BY <2>2, <2>3
    <3>2. Append(<<a>>, b)[1] = a /\ Append(<<a>>, b)[2] = b
      BY <2>2, <2>3
    <3>3. QED
      BY <2>3, <3>1, <3>2
  <2>6. Append(<<a>>, b) = <<a, b>>
    BY <1>1, <2>2, <2>4, <2>5, SeqEqual
  <2>7. QED
    BY <1>2, <2>1, <2>6
<1>4. <<a>> \o <<b>> = <<a, b>>
  <2>1. Append(<<a>>, b) = <<a>> \o <<b>>
    BY <1>1, AppendIsConcat
  <2>2. QED
    BY <1>3, <2>1
<1>5. /\ Head(<<a>>) = a /\ <<a>> # <<>> /\ Head(<<a, b>>) = a /\ <<a, b>> # <<>>
  OBVIOUS
<1>6. Tail(<<a>>) = <<>>
  OBVIOUS
<1>7. Tail(<<a, b>>) = <<b>>
  OBVIOUS
<1>8. QED
  BY <1>2, <1>3, <1>4, <1>5, <1>6, <1>7

(* The relay's turn: an answer goes to the request that has been paired.    *)
LEMMA RelayFlight ==
  ASSUME TypeOK, Shape, Turns, SingleFlight, AnswersMatch, onMain, RelayRuns \/ RelayStep
  PROVE  SingleFlight' /\ AnswersMatch'
<1> USE DEF RelayAt, Goto, channel, slots
<1>1. /\ AllReturned /\ UNCHANGED callback /\ relay = [pc |-> relay.pc, got |-> relay.got]
  BY DEF RelayRuns, RelayStep, RelayIsSet, RelaySend, RelayPop, RelayTake, RelayPair, Turns,
         MainFree, TypeOK
<1>2. /\ \A c \in Callbacks : callback[c].pc \notin Holding /\ callback[c].pc # "Requeue"
      /\ ~BusyForRelay({"Take", "Requeue"}) /\ ~BusyForRelay({"Respond"})
  BY <1>1 DEF AllReturned, BusyForRelay, Holding
<1>3. inFlight = Answering \o Asking
  BY <1>2 DEF SingleFlight
<1>4. ASSUME inFlight' = Answering' \o Asking',
             relay'.pc = "Idle" => request' = 0 \/ response' = 0,
             relay'.pc = "Send" => request' = 0,
             relay'.pc = "Pop" => request' = Head(inbox'),
             relay'.pc = "Pair" => response' = 0
      PROVE  SingleFlight'
  BY <1>1, <1>2, <1>4 DEF SingleFlight
<1>5. CASE RelayRuns
  <2>1. UNCHANGED <<inFlight, request, response, outbox>> /\ relay.pc = "Idle" /\ relay'.pc = "IsSet"
    BY <1>1, <1>5 DEF RelayRuns
  <2>2. Answering' = Answering /\ Asking' = Asking
    BY <2>1 DEF Answering, Asking
  <2>3. QED
    BY <1>3, <1>4, <2>1, <2>2 DEF AnswersMatch
<1>6. CASE RelayIsSet
  <2>1. /\ UNCHANGED <<inFlight, request, response, outbox>> /\ relay.pc = "IsSet"
        /\ \/ relay'.pc = "Send" /\ request = 0
           \/ relay'.pc = "Take"
    BY <1>1, <1>6 DEF RelayIsSet
  <2>2. Answering' = Answering /\ Asking' = Asking
    BY <2>1 DEF Answering, Asking
  <2>3. QED
    BY <1>3, <1>4, <2>1, <2>2 DEF AnswersMatch
<1>7. CASE RelaySend
  <2>1. /\ UNCHANGED <<inFlight, inbox, response, outbox>> /\ relay.pc = "Send" /\ request = 0
        /\ relay'.pc = "Pop" /\ request' = Head(inbox)
    BY <1>1, <1>2, <1>7 DEF RelaySend, SingleFlight
  <2>2. Answering' = Answering /\ Asking' = Asking
    BY <2>1 DEF Answering, Asking
  <2>3. QED
    BY <1>3, <1>4, <2>1, <2>2 DEF AnswersMatch
<1>8. CASE RelayPop
  <2>1. /\ UNCHANGED <<request, response, outbox>> /\ relay.pc = "Pop" /\ relay'.pc = "Take"
        /\ request = Head(inbox) /\ inFlight' = Append(inFlight, Head(inbox))
    BY <1>1, <1>8 DEF RelayPop, SingleFlight
  <2>2. request # 0
    <3>1. inbox # <<>> /\ inbox \in Seq(1..sent)
      BY <2>1 DEF Shape, TypeOK
    <3>2. Head(inbox) \in 1..sent
      BY <3>1, HeadTailProperties
    <3>3. QED
      BY <2>1, <3>2
  <2>3. Answering' = Answering /\ Asking = <<>> /\ Asking' = <<request>>
    BY <2>1, <2>2 DEF Answering, Asking
  <2>4. Answering = <<>> \/ Answering = <<response>>
    BY <2>1 DEF Answering
  <2>5. inFlight' = Answering' \o Asking'
    <3>1. CASE Answering = <<>>
      <4>1. /\ inFlight = <<>> /\ Append(<<>>, request) = <<request>>
            /\ <<>> \o <<request>> = <<request>>
        BY <1>3, <2>3, <3>1, Short
      <4>2. QED
        BY <2>1, <2>3, <3>1, <4>1
    <3>2. CASE Answering = <<response>>
      <4>1. /\ inFlight = <<response>> /\ Append(<<response>>, request) = <<response, request>>
            /\ <<response>> \o <<request>> = <<response, request>>
        BY <1>3, <2>3, <3>2, Short
      <4>2. QED
        BY <2>1, <2>3, <3>2, <4>1
    <3>3. QED
      BY <2>4, <3>1, <3>2
  <2>6. QED
    BY <1>4, <2>1, <2>5 DEF AnswersMatch
<1>9. CASE RelayTake
  <2>1. UNCHANGED <<inFlight, request, outbox>> /\ relay.pc = "Take"
    BY <1>9 DEF RelayTake
  <2>2. CASE response # 0 /\ relay' = [pc |-> "Pair", got |-> response] /\ response' = 0
    <3>1. Answering' = Answering /\ Asking' = Asking
      BY <2>1, <2>2 DEF Answering, Asking
    <3>2. QED
      BY <1>3, <1>4, <2>1, <2>2, <3>1 DEF AnswersMatch
  <2>3. CASE response = 0 /\ relay'.pc = "Idle" /\ UNCHANGED response
    <3>1. Answering' = Answering /\ Asking' = Asking
      BY <2>1, <2>3 DEF Answering, Asking
    <3>2. QED
      BY <1>3, <1>4, <2>1, <2>3, <3>1 DEF AnswersMatch
  <2>4. QED
    BY <1>1, <1>2, <1>9, <2>2, <2>3 DEF RelayTake
<1>10. CASE RelayPair
  <2>1. /\ UNCHANGED <<request, response>> /\ relay.pc = "Pair" /\ response = 0
        /\ Answering = <<relay.got>> /\ Asking \in {<<>>, <<request>>}
    BY <1>10 DEF RelayPair, Answering, Asking, SingleFlight
  <2>2. inFlight # <<>> /\ Head(inFlight) = relay.got /\ Tail(inFlight) = Asking
    <3>1. CASE Asking = <<>>
      <4>1. inFlight = <<relay.got>>
        BY <1>3, <2>1, <3>1, Short
      <4>2. QED
        BY <3>1, <4>1, Short
    <3>2. CASE Asking = <<request>>
      <4>1. inFlight = <<relay.got, request>>
        BY <1>3, <2>1, <3>2, Short
      <4>2. QED
        BY <3>2, <4>1, Short
    <3>3. QED
      BY <2>1, <3>1, <3>2
  <2>3. /\ outbox' = Append(outbox, [id |-> relay.got, value |-> relay.got])
        /\ inFlight' = Asking /\ relay'.pc = "Take"
    BY <1>10, <2>2 DEF RelayPair
  <2>4. Answering' = <<>> /\ Asking' = Asking
    BY <2>1, <2>3 DEF Answering, Asking
  <2>5. inFlight' = Answering' \o Asking'
    BY <2>1, <2>3, <2>4, Short, Zenon
  <2>6. AnswersMatch'
    <3>1. outbox \in Seq(Answers(1..sent)) /\ Len(outbox) \in Nat /\ DOMAIN outbox = 1..Len(outbox)
      BY LenProperties DEF TypeOK, Answers
    <3>2. \A i \in DOMAIN outbox' :
            \/ i \in DOMAIN outbox /\ outbox'[i] = outbox[i]
            \/ outbox'[i] = [id |-> relay.got, value |-> relay.got]
      BY <2>3, <3>1
    <3>3. QED
      BY <3>2 DEF AnswersMatch, Requests
  <2>7. QED
    BY <1>4, <2>1, <2>3, <2>5, <2>6
<1>11. QED
  BY <1>5, <1>6, <1>7, <1>8, <1>9, <1>10 DEF RelayStep

(* A hook entry's turn: the request goes from one slot to the other.        *)
LEMMA EntryFlight ==
  ASSUME TypeOK, Shape, Turns, SingleFlight, onMain, ~panicked',
         NEW c \in Callbacks, Enter(c) \/ EntryStep(c)
  PROVE  SingleFlight'
<1>1. /\ UNCHANGED <<inFlight, relay, inbox>>
      /\ \A d \in Callbacks \ {c} : callback'[d] = callback[d]
  BY DEF Enter, EntryStep, TakeRequest, Unwrap, Requeue, HandlerReturns, HandlerPanics, Respond,
         notEntry, channel, CallbackGoto, TypeOK
<1>2. relay.pc = "Idle" /\ \A d \in Callbacks \ {c} : callback[d].pc = "Idle"
  BY DEF Turns, AllReturned, Enter, EntryStep, TakeRequest, Unwrap, Requeue, HandlerReturns,
         HandlerPanics, Respond, RelayAt
<1>3. /\ ~BusyForEntry(c, {"IsSet", "Send"}, {"Take", "Requeue"})
      /\ ~BusyForEntry(c, {"Take"}, {"Respond"})
  BY <1>2 DEF BusyForEntry, RelayAt, OtherAt
<1>4. \A d \in Callbacks \ {c} : callback'[d].pc \notin Holding /\ callback'[d].pc # "Requeue"
  BY <1>1, <1>2 DEF Holding
<1>5. ASSUME request' = 0 \/ response' = 0,
             callback'[c].pc # "Requeue",
             callback'[c].pc \in Holding =>
               request' = 0 /\ response' = 0 /\ inFlight = <<callback'[c].got>>,
             callback'[c].pc \notin Holding => inFlight = Answering' \o Asking'
      PROVE  SingleFlight'
  <2>1. relay'.pc = "Idle"
    BY <1>1, <1>2
  <2>2. \A d \in Callbacks : d = c \/ d \in Callbacks \ {c}
    OBVIOUS
  <2>3. QED
    BY <1>1, <1>4, <1>5, <2>1, <2>2 DEF SingleFlight
<1>6. request = 0 \/ response = 0
  BY <1>2 DEF SingleFlight
<1>7. callback[c].pc \notin Holding => inFlight = Answering \o Asking
  <2>1. \A d \in Callbacks \ {c} : callback[d].pc \notin Holding
    BY <1>2 DEF Holding
  <2>2. QED
    BY <2>1 DEF SingleFlight
<1>8. callback[c].pc \in Holding => request = 0 /\ response = 0 /\ inFlight = <<callback[c].got>>
  BY DEF SingleFlight
<1>9. CASE Enter(c)
  <2>1. /\ callback[c].pc \notin Holding /\ callback'[c].pc = "Take"
        /\ UNCHANGED <<request, response>>
    BY <1>9 DEF Enter, Holding, CallbackGoto, slots, TypeOK
  <2>2. Answering' = Answering /\ Asking' = Asking
    BY <1>1, <2>1 DEF Answering, Asking
  <2>3. QED
    BY <1>5, <1>6, <1>7, <2>1, <2>2 DEF Holding
<1>10. CASE TakeRequest(c)
  <2>1. callback[c].pc \notin Holding /\ inFlight = Answering \o Asking /\ UNCHANGED response
    BY <1>7, <1>10 DEF TakeRequest, Holding
  <2>2. CASE /\ request # 0 /\ request' = 0
             /\ callback' = [callback EXCEPT ![c] = [pc |-> "Unwrap", got |-> request]]
    <3>1. response = 0 /\ Answering = <<>> /\ Asking = <<request>>
      BY <1>2, <1>6, <2>2 DEF Answering, Asking
    <3>2. inFlight = <<request>>
      BY <2>1, <3>1, Short, Zenon
    <3>3. callback'[c].pc = "Unwrap" /\ callback'[c].got = request
      BY <2>2 DEF TypeOK
    <3>4. QED
      BY <1>5, <2>1, <2>2, <3>1, <3>2, <3>3 DEF Holding
  <2>3. CASE callback'[c].pc = "Idle" /\ UNCHANGED request
    <3>1. Answering' = Answering /\ Asking' = Asking
      BY <1>1, <2>1, <2>3 DEF Answering, Asking
    <3>2. QED
      BY <1>5, <1>6, <2>1, <2>3, <3>1 DEF Holding
  <2>4. QED
    BY <1>10, <2>2, <2>3 DEF TakeRequest, CallbackGoto, TypeOK
<1>11. CASE Unwrap(c) \/ HandlerReturns(c)
  <2>1. /\ callback[c].pc \in Holding /\ UNCHANGED <<request, response>>
        /\ callback'[c].pc \in {"Handler", "Respond"} /\ callback'[c].got = callback[c].got
    BY <1>2, <1>11 DEF Unwrap, HandlerReturns, Holding, RelayAt, slots, CallbackGoto, TypeOK
  <2>2. QED
    BY <1>5, <1>8, <2>1 DEF Holding
<1>12. CASE Requeue(c) \/ HandlerPanics(c)
  BY <1>12 DEF Requeue, HandlerPanics, SingleFlight
<1>13. CASE Respond(c)
  <2>1. /\ callback[c].pc \in Holding /\ UNCHANGED request /\ response' = callback[c].got
        /\ callback'[c].pc = "Idle"
    BY <1>3, <1>13 DEF Respond, Holding, TypeOK
  <2>2. request' = 0 /\ inFlight = <<callback[c].got>> /\ callback[c].got # 0
    BY <1>8, <2>1 DEF Shape
  <2>3. Answering' = <<callback[c].got>> /\ Asking' = <<>>
    BY <1>1, <1>2, <2>1, <2>2 DEF Answering, Asking
  <2>4. inFlight = Answering' \o Asking'
    BY <2>2, <2>3, Short, Zenon
  <2>5. QED
    BY <1>5, <2>1, <2>2, <2>4 DEF Holding
<1>14. QED
  BY <1>9, <1>10, <1>11, <1>12, <1>13 DEF EntryStep

(* The dispatch and the retirement touch neither slot, and answer with what *)
(* no handler has produced.                                                 *)
LEMMA ChannelFlight ==
  ASSUME TypeOK, Shape, SingleFlight, AnswersMatch, Dispatch \/ Retire
  PROVE  SingleFlight' /\ AnswersMatch'
<1>1. /\ UNCHANGED <<request, response, inFlight, relay, callback>> /\ relay.pc = "Idle"
  BY DEF Dispatch, Retire, RelayAt, slots
<1>2. Answering' = Answering /\ Asking' = Asking
  BY <1>1 DEF Answering, Asking
<1>3. SingleFlight'
  BY <1>1, <1>2 DEF SingleFlight
<1>4. /\ outbox \in Seq(Answers(1..sent)) /\ Len(outbox) \in Nat /\ DOMAIN outbox = 1..Len(outbox)
  BY LenProperties DEF TypeOK, Answers
<1>5. \A i \in DOMAIN outbox' :
        \/ i \in DOMAIN outbox /\ outbox'[i] = outbox[i]
        \/ outbox'[i].value \notin Requests
  <2>1. CASE Dispatch
    <3>1. CASE outbox' = outbox
      BY <3>1
    <3>2. CASE outbox' = Append(outbox, [id |-> sent', value |-> Refused])
      <4>1. \A i \in DOMAIN outbox' : \/ i \in DOMAIN outbox /\ outbox'[i] = outbox[i]
                                      \/ outbox'[i] = [id |-> sent', value |-> Refused]
        BY <1>4, <3>2
      <4>2. QED
        BY <4>1 DEF Refused, Requests
    <3>3. QED
      BY <2>1, <3>1, <3>2 DEF Dispatch
  <2>2. CASE Retire
    <3> DEFINE more == [i \in DOMAIN inbox |-> [id |-> inbox[i], value |-> Gone]]
    <3>1. /\ more \in Seq(Answers(1..sent)) /\ outbox' = outbox \o more
          /\ Len(more) \in Nat /\ DOMAIN more = 1..Len(more)
      BY <2>2, Failed, LenProperties DEF Retire, Answers
    <3>2. \A j \in DOMAIN more : more[j].value = Gone
      OBVIOUS
    <3> HIDE DEF more
    <3>3. /\ outbox \o more \in Seq(Answers(1..sent)) /\ Len(outbox \o more) = Len(outbox) + Len(more)
          /\ \A i \in 1..(Len(outbox) + Len(more)) :
               (outbox \o more)[i] = IF i <= Len(outbox) THEN outbox[i] ELSE more[i - Len(outbox)]
      BY <1>4, <3>1, ConcatProperties
    <3>4. SUFFICES ASSUME NEW i \in DOMAIN outbox'
                   PROVE  \/ i \in DOMAIN outbox /\ outbox'[i] = outbox[i]
                          \/ outbox'[i].value \notin Requests
      OBVIOUS
    <3>5. i \in 1..(Len(outbox) + Len(more))
      BY <3>1, <3>3, <3>4, LenProperties
    <3>6. CASE i <= Len(outbox)
      <4>1. i \in DOMAIN outbox
        BY <1>4, <3>5, <3>6
      <4>2. QED
        BY <3>1, <3>3, <3>5, <3>6, <4>1
    <3>7. CASE ~(i <= Len(outbox))
      <4>1. i - Len(outbox) \in DOMAIN more /\ outbox'[i] = more[i - Len(outbox)]
        BY <1>4, <3>1, <3>3, <3>5, <3>7
      <4>2. QED
        BY <3>2, <4>1 DEF Gone, Requests
    <3>8. QED
      BY <3>6, <3>7
  <2>3. QED
    BY <2>1, <2>2
<1>6. AnswersMatch'
  BY <1>5 DEF AnswersMatch, Requests
<1>7. QED
  BY <1>3, <1>6

(* Every step.                                                              *)
LEMMA ExchangeKept ==
  ASSUME TypeOK, Shape, Exchange, [Next]_vars
  PROVE  Exchange'
<1>1. UNCHANGED onMain /\ (~panicked' => ~panicked)
  BY DEF Next, vars, fixed, Dispatch, Retire, RelayRuns, RelayStep, RelayIsSet, RelaySend, RelayPop,
         RelayTake, RelayPair, Enter, EntryStep, TakeRequest, Unwrap, Requeue, HandlerReturns,
         HandlerPanics, Respond, notEntry
<1>2. onMain => Turns'
  BY TurnsKept DEF Exchange
<1>3. ASSUME onMain, ~panicked' PROVE SingleFlight' /\ AnswersMatch'
  <2>1. Turns /\ SingleFlight /\ AnswersMatch
    BY <1>1, <1>3 DEF Exchange
  <2>2. CASE \E c \in Callbacks : Enter(c) \/ EntryStep(c)
    <3>1. UNCHANGED outbox
      BY <2>2 DEF Enter, EntryStep, TakeRequest, Unwrap, Requeue, HandlerReturns, HandlerPanics,
                  Respond, notEntry, channel
    <3>2. AnswersMatch'
      BY <2>1, <3>1 DEF AnswersMatch, Requests
    <3>3. QED
      BY <1>3, <2>1, <2>2, <3>2, EntryFlight
  <2>3. CASE UNCHANGED vars
    <3>1. UNCHANGED <<request, response, inFlight, relay, callback, outbox, inbox>>
      BY <2>3 DEF vars, channel, slots
    <3>2. Answering' = Answering /\ Asking' = Asking
      BY <3>1 DEF Answering, Asking
    <3>3. QED
      BY <2>1, <3>1, <3>2 DEF SingleFlight, AnswersMatch
  <2>4. QED
    BY <1>3, <2>1, <2>2, <2>3, RelayFlight, ChannelFlight DEF Next
<1>4. QED
  BY <1>1, <1>2, <1>3 DEF Exchange

-----------------------------------------------------------------------------
(* The theorems.                                                            *)

(* The invariant holds at first.                                            *)
LEMMA InitInv ==
  ASSUME RelayAssumption, Init
  PROVE  IInv
<1> USE DEF Init, RelayAssumption
<1>1. TypeOK
  <2>1. handled \in [Requests -> Nat]
    OBVIOUS
  <2>2. \A S : <<>> \in Seq(S)
    OBVIOUS
  <2>3. relay \in [pc : RelayPc, got : 0..sent]
    BY DEF RelayPc
  <2>4. callback \in [Callbacks -> [pc : EntryPc, got : 0..sent]]
    BY DEF EntryPc
  <2>5. /\ sent = 0 /\ sent <= MaxRequests /\ pending = 0
        /\ request \in 0..sent /\ response \in 0..sent
    OBVIOUS
  <2>6. retired \in BOOLEAN /\ onMain \in BOOLEAN /\ panicked \in BOOLEAN
    OBVIOUS
  <2>7. /\ inbox \in Seq(1..sent) /\ inFlight \in Seq(1..sent)
        /\ outbox \in Seq([id : 1..sent, value : Int])
    BY <2>2
  <2>8. QED
    BY <2>1, <2>3, <2>4, <2>5, <2>6, <2>7 DEF TypeOK
<1>2. Shape /\ Retirement
  BY DEF Shape, Retirement, Holding
<1>3. PendingIsExact
  BY DEF PendingIsExact
<1>4. Delivery
  <2>1. \A r \in Requests : r # 0 /\ ~Undelivered(r) /\ handled[r] = 0
    BY DEF Requests, Undelivered
  <2>2. \A r \in Requests, c \in Callbacks : ~Held(c, r)
    BY DEF Held
  <2>3. QED
    BY <2>1, <2>2 DEF Delivery, Out
<1>5. Exchange
  <2>1. Answering = <<>> /\ Asking = <<>> /\ inFlight = <<>> \o <<>>
    BY Short DEF Answering, Asking
  <2>2. QED
    BY <2>1 DEF Exchange, Turns, SingleFlight, AllReturned, AnswersMatch, Holding
<1>6. QED
  BY <1>1, <1>2, <1>3, <1>4, <1>5 DEF IInv

(* The inductive invariant.                                                 *)
THEOREM Invariance == Spec => []IInv
<1>1. Init => IInv
  BY InitInv, RelayAssumption
<1>2. IInv /\ [Next]_vars => IInv'
  BY RelayAssumption, TypesKept, ShapeKept, RetirementKept, LedgerKept, DeliveryKept, ExchangeKept
     DEF IInv
<1>3. QED
  BY <1>1, <1>2, PTL DEF Spec

(* Slots, queues and history stay within their types: in particular every   *)
(* number in the channel, in flight or in a slot is that of a dispatched    *)
(* request (DebugTopicChannel, CallbackRelaySystem, SharedSlot).            *)
THEOREM TypeCorrect == Spec => []TypeOK
<1>1. IInv => TypeOK
  BY DEF IInv
<1>2. QED
  BY <1>1, Invariance, PTL

(* The pending counter is exact and bounded, and every dispatched request   *)
(* is answered once or in exactly one queue, whatever the try-locks drop    *)
(* (DebugTopicChannel::enqueue, CallbackRelaySystem::run,                   *)
(* fail_pending_requests).                                                  *)
THEOREM EachRequestInOnePlace == Spec => []PendingIsExact
<1>1. IInv => PendingIsExact
  BY DEF IInv
<1>2. QED
  BY <1>1, Invariance, PTL

(* No request reaches a handler twice, or at all when it was answered as    *)
(* undelivered; on the main thread, and until a handler panics, every       *)
(* answer is that of its own request (CallbackDebugEndpoints::handle_pending*)
(* with CallbackRelaySystem::run).                                          *)
THEOREM RequestsHandledOnce == Spec => []HandledOnceAnswersMatch
<1>1. IInv => HandledOnceAnswersMatch
  <2>1. SUFFICES ASSUME IInv PROVE HandledOnceAnswersMatch
    OBVIOUS
  <2>2. \A r \in Requests : handled[r] \in Nat /\ (handled[r] > 0 => handled[r] = 1)
    BY <2>1 DEF IInv, Delivery, TypeOK
  <2>3. \A r \in Requests : Undelivered(r) => handled[r] = 0
    BY <2>1 DEF IInv, Delivery
  <2>4. onMain /\ ~panicked => AnswersMatch
    BY <2>1 DEF IInv, Exchange
  <2>5. QED
    BY <2>2, <2>3, <2>4 DEF HandledOnceAnswersMatch, Undelivered
<1>2. QED
  BY <1>1, Invariance, PTL
=============================================================================
