-------------------------- MODULE CommandDrainProofs --------------------------
(***************************************************************************)
(* What the mailboxes and the stage that empties them promise, for every   *)
(* route table, every capacity and every number of hook entries.           *)
(***************************************************************************)
EXTENDS CommandDrain, SequenceTheorems, WellFoundedInduction, TLAPS

StagePc == {"Idle", "Depth", "Take"}
Sending == [route : Routes, value : Values]

-----------------------------------------------------------------------------
(* The inductive invariant.                                                 *)

TypeOK ==
  /\ box \in [Routes -> Seq(Values)]
  /\ delivered \in [Routes -> Seq(Values)]
  /\ accepted \in [Routes -> Seq(Values)]
  /\ mark \in [Routes -> Nat]
  /\ writer \in [Callbacks -> {NoSend} \cup Sending]
  /\ drain \in [pc : StagePc, todo : SUBSET Routes, left : Nat]
  /\ active \in SUBSET Owners
  /\ sent \in 0..MaxSends

(* The stage is at a route until it ends. What it takes is there: only the  *)
(* stage empties a mailbox.                                                 *)
StageShape ==
  /\ ~Draining("Idle") => drain.todo # {}
  /\ Draining("Take") => box[Current] # <<>>

(* Of what the watermark covers, the rest is still in the queue.            *)
LeftToTake ==
  Draining("Take") /\ Table[Current] = "bounded" =>
    /\ Len(delivered[Current]) + drain.left = mark[Current]
    /\ drain.left >= 1 /\ drain.left <= Len(box[Current])

IInv == TypeOK /\ StageShape /\ LeftToTake /\ DrainContract

-----------------------------------------------------------------------------
(* Sequences.                                                               *)

(* A sequence and what is appended to it.                                   *)
LEMMA Longer ==
  ASSUME NEW S, NEW s \in Seq(S), NEW e \in S
  PROVE  LET t == Append(s, e)
         IN  /\ t \in Seq(S) /\ DOMAIN t = 1..(Len(s) + 1) /\ Len(t) = Len(s) + 1
             /\ \A i \in 1..Len(s) : t[i] = s[i]
             /\ t[Len(s) + 1] = e /\ t # <<>>
             /\ Len(s) \in Nat /\ DOMAIN s = 1..Len(s)
BY AppendProperties, LenProperties

(* A sequence and one that is put after it.                                 *)
LEMMA Joined ==
  ASSUME NEW S, NEW s \in Seq(S), NEW t \in Seq(S)
  PROVE  /\ s \o t \in Seq(S) /\ DOMAIN (s \o t) = 1..(Len(s) + Len(t))
         /\ \A i \in 1..Len(s) : (s \o t)[i] = s[i]
         /\ Len(s) \in Nat /\ DOMAIN s = 1..Len(s) /\ Len(t) \in Nat
BY ConcatProperties, LenProperties

(* A value stored at the end of a queue is the last that was reached.       *)
LEMMA ReachedGrows ==
  ASSUME NEW S, NEW d \in Seq(S), NEW b \in Seq(S), NEW v \in S
  PROVE  d \o Append(b, v) = Append(d \o b, v)
<1>1. <<v>> \in Seq(S) /\ d \o b \in Seq(S)
  BY ConcatProperties
<1>2. Append(b, v) = b \o <<v>> /\ Append(d \o b, v) = (d \o b) \o <<v>>
  BY <1>1, AppendIsConcat
<1>3. (d \o b) \o <<v>> = d \o (b \o <<v>>)
  BY <1>1, ConcatAssociative
<1>4. QED
  BY <1>2, <1>3, Zenon

(* A delivery moves the oldest value of a mailbox, and changes no order.    *)
LEMMA ReachedStays ==
  ASSUME NEW S, NEW d \in Seq(S), NEW b \in Seq(S), b # <<>>
  PROVE  Append(d, Head(b)) \o Tail(b) = d \o b
<1>1. Head(b) \in S /\ Tail(b) \in Seq(S) /\ <<Head(b)>> \in Seq(S)
  BY HeadTailProperties
<1>2. <<Head(b)>> \o Tail(b) = b
  <2>1. Len(b) \in Nat \ {0} /\ 1 \in 1..Len(b) /\ Len(b) \in 1..Len(b)
    BY EmptySeq, LenProperties
  <2>2. SubSeq(b, 1, Len(b)) = <<b[1]>> \o SubSeq(b, 1 + 1, Len(b))
    BY <2>1, SubSeqRecursiveFirst
  <2>3. SubSeq(b, 1, Len(b)) = b /\ SubSeq(b, 2, Len(b)) = Tail(b) /\ Head(b) = b[1]
    BY <2>1, SubSeqFull, TailIsSubSeq
  <2>4. QED
    BY <2>2, <2>3
<1>3. Append(d, Head(b)) = d \o <<Head(b)>>
  BY <1>1, AppendIsConcat
<1>4. (d \o <<Head(b)>>) \o Tail(b) = d \o (<<Head(b)>> \o Tail(b))
  BY <1>1, ConcatAssociative
<1>5. QED
  BY <1>2, <1>3, <1>4, Zenon

(* A single slot is empty once its value is taken.                          *)
LEMMA NothingLeft ==
  ASSUME NEW S, NEW b \in Seq(S), b # <<>>, Len(b) <= 1
  PROVE  Tail(b) = <<>>
<1>1. Tail(b) \in Seq(S) /\ Len(Tail(b)) = Len(b) - 1
  BY HeadTailProperties
<1>2. Len(b) \in Nat \ {0}
  BY EmptySeq
<1>3. Len(Tail(b)) = 0
  BY <1>1, <1>2
<1>4. QED
  BY <1>1, <1>3, EmptySeq

-----------------------------------------------------------------------------
(* Sequences that occur within others in order.                             *)

(* Every sequence is within itself.                                         *)
LEMMA WithinItself ==
  ASSUME NEW s
  PROVE  Within(s, s)
<1> DEFINE at == [i \in DOMAIN s |-> i]
<1>1. at \in [DOMAIN s -> DOMAIN s]
  OBVIOUS
<1>2. /\ \A i, j \in DOMAIN s : i < j => at[i] < at[j]
      /\ \A i \in DOMAIN s : s[i] = s[at[i]]
  OBVIOUS
<1>3. QED
  BY <1>1, <1>2 DEF Within

(* What is within a sequence stays so when both get the same value.         *)
LEMMA WithinGrows ==
  ASSUME NEW S, NEW s \in Seq(S), NEW t \in Seq(S), NEW v \in S, Within(s, t)
  PROVE  Within(Append(s, v), Append(t, v))
<1> DEFINE m == Len(s)
           n == Len(t)
<1>1. PICK at \in [DOMAIN s -> DOMAIN t] :
        /\ \A i, j \in DOMAIN s : i < j => at[i] < at[j]
        /\ \A i \in DOMAIN s : s[i] = t[at[i]]
  BY DEF Within
<1>2. /\ m \in Nat /\ DOMAIN s = 1..m /\ DOMAIN Append(s, v) = 1..(m + 1)
      /\ \A i \in 1..m : Append(s, v)[i] = s[i]
      /\ Append(s, v)[m + 1] = v
  BY Longer
<1>3. /\ n \in Nat /\ DOMAIN t = 1..n /\ DOMAIN Append(t, v) = 1..(n + 1)
      /\ \A i \in 1..n : Append(t, v)[i] = t[i]
      /\ Append(t, v)[n + 1] = v
  BY Longer
<1> DEFINE to == [i \in 1..(m + 1) |-> IF i = m + 1 THEN n + 1 ELSE at[i]]
<1> HIDE DEF m, n
<1>4. \A i \in 1..m : at[i] \in 1..n
  BY <1>1, <1>2, <1>3
<1>5. /\ \A i \in 1..m : i \in 1..(m + 1) /\ to[i] = at[i]
      /\ m + 1 \in 1..(m + 1) /\ to[m + 1] = n + 1
  BY <1>2
<1>6. \A i \in 1..(m + 1) : i \in 1..m \/ i = m + 1
  BY <1>2
<1>7. to \in [1..(m + 1) -> 1..(n + 1)]
  <2>1. \A i \in 1..(m + 1) : to[i] \in 1..(n + 1)
    BY <1>3, <1>4, <1>5, <1>6
  <2>2. QED
    BY <2>1
<1> HIDE DEF to
<1>8. ASSUME NEW i \in 1..(m + 1), NEW j \in 1..(m + 1), i < j PROVE to[i] < to[j]
  <2>1. i \in 1..m
    BY <1>2, <1>8
  <2>2. CASE j \in 1..m
    BY <1>1, <1>2, <1>5, <2>1, <2>2, <1>8
  <2>3. CASE j = m + 1
    <3>1. to[i] \in 1..n /\ to[j] = n + 1
      BY <1>4, <1>5, <2>1, <2>3
    <3>2. QED
      BY <1>3, <3>1
  <2>4. QED
    BY <1>6, <2>2, <2>3
<1>9. ASSUME NEW i \in 1..(m + 1) PROVE Append(s, v)[i] = Append(t, v)[to[i]]
  <2>1. CASE i \in 1..m
    <3>1. Append(s, v)[i] = s[i] /\ s[i] = t[at[i]] /\ to[i] = at[i]
      BY <1>1, <1>2, <1>5, <2>1
    <3>2. Append(t, v)[at[i]] = t[at[i]]
      BY <1>3, <1>4, <2>1
    <3>3. QED
      BY <3>1, <3>2
  <2>2. CASE i = m + 1
    BY <1>2, <1>3, <1>5, <2>2
  <2>3. QED
    BY <1>6, <2>1, <2>2
<1>10. QED
  BY <1>2, <1>3, <1>7, <1>8, <1>9 DEF Within

(* What is within a sequence starts with something that is.                 *)
LEMMA WithinStarts ==
  ASSUME NEW S, NEW s \in Seq(S), NEW b \in Seq(S), NEW t \in Seq(S), Within(s \o b, t)
  PROVE  Within(s, t)
<1>1. PICK at \in [DOMAIN (s \o b) -> DOMAIN t] :
        /\ \A i, j \in DOMAIN (s \o b) : i < j => at[i] < at[j]
        /\ \A i \in DOMAIN (s \o b) : (s \o b)[i] = t[at[i]]
  BY DEF Within
<1>2. /\ \A i \in DOMAIN s : i \in DOMAIN (s \o b)
      /\ \A i \in DOMAIN s : (s \o b)[i] = s[i]
  BY Joined
<1> DEFINE to == [i \in DOMAIN s |-> at[i]]
<1>3. to \in [DOMAIN s -> DOMAIN t]
  BY <1>1, <1>2
<1>4. \A i, j \in DOMAIN s : i < j => to[i] < to[j]
  BY <1>1, <1>2
<1>5. \A i \in DOMAIN s : s[i] = t[to[i]]
  BY <1>1, <1>2
<1> HIDE DEF to
<1>6. QED
  BY <1>3, <1>4, <1>5 DEF Within

-----------------------------------------------------------------------------
(* One mailbox: what it holds, what it has delivered, what it has stored.   *)

Faithful(d, b, a, queue) ==
  /\ Within(d \o b, a)
  /\ queue => d \o b = a
  /\ a # <<>> => Last(a) \in ToSet(d \o b)

(* Both ways to store keep it faithful: at the end of a queue, ...          *)
LEMMA FaithfulAppend ==
  ASSUME NEW S, NEW d \in Seq(S), NEW b \in Seq(S), NEW a \in Seq(S), NEW queue, NEW v \in S,
         Faithful(d, b, a, queue)
  PROVE  Faithful(d, Append(b, v), Append(a, v), queue)
<1> DEFINE s == d \o b
<1>1. s \in Seq(S) /\ d \o Append(b, v) = Append(s, v)
  BY ReachedGrows, Joined
<1>2. Within(Append(s, v), Append(a, v))
  BY <1>1, WithinGrows DEF Faithful
<1>3. queue => Append(s, v) = Append(a, v)
  BY DEF Faithful
<1>4. Last(Append(a, v)) = v
  BY Longer DEF Last
<1>5. v \in ToSet(Append(s, v))
  <2> HIDE DEF s
  <2>1. /\ Len(s) \in Nat /\ DOMAIN Append(s, v) = 1..(Len(s) + 1)
        /\ Append(s, v)[Len(s) + 1] = v
    BY <1>1, Longer
  <2>2. Len(s) + 1 \in DOMAIN Append(s, v)
    BY <2>1
  <2>3. QED
    BY <2>1, <2>2 DEF ToSet
<1>6. QED
  BY <1>1, <1>2, <1>3, <1>4, <1>5 DEF Faithful

(* ... and in the place of what a single slot holds.                        *)
LEMMA FaithfulReplace ==
  ASSUME NEW S, NEW d \in Seq(S), NEW b \in Seq(S), NEW a \in Seq(S), NEW v \in S,
         Faithful(d, b, a, FALSE)
  PROVE  Faithful(d, <<v>>, Append(a, v), FALSE)
<1>1. d \o <<v>> = Append(d, v)
  BY AppendIsConcat
<1>2. Within(d, a)
  BY WithinStarts DEF Faithful
<1>3. Within(Append(d, v), Append(a, v))
  BY <1>2, WithinGrows
<1>4. Last(Append(a, v)) = v
  BY Longer DEF Last
<1>5. v \in ToSet(Append(d, v))
  <2>1. /\ Len(d) \in Nat /\ DOMAIN Append(d, v) = 1..(Len(d) + 1)
        /\ Append(d, v)[Len(d) + 1] = v
    BY Longer
  <2>2. Len(d) + 1 \in DOMAIN Append(d, v)
    BY <2>1
  <2>3. QED
    BY <2>1, <2>2 DEF ToSet
<1>6. QED
  BY <1>1, <1>3, <1>4, <1>5 DEF Faithful

(* A delivery keeps it faithful.                                            *)
LEMMA FaithfulTake ==
  ASSUME NEW S, NEW d \in Seq(S), NEW b \in Seq(S), NEW a, NEW queue, b # <<>>,
         Faithful(d, b, a, queue)
  PROVE  Faithful(Append(d, Head(b)), Tail(b), a, queue)
BY ReachedStays DEF Faithful

-----------------------------------------------------------------------------
(* The route the stage is at.                                               *)

(* A set of routes that is not empty has a first one.                       *)
LEMMA LeastNatural ==
  ASSUME NEW T \in SUBSET Nat, T # {}
  PROVE  \E x \in T : \A y \in T : x <= y
<1> DEFINE R == OpToRel(<, Nat)
<1>1. \E x \in T : \A y \in T : <<y, x>> \notin R
  BY NatLessThanWellFounded, WFMin
<1>2. \A x, y \in Nat : <<y, x>> \notin R => x <= y
  BY DEF OpToRel
<1>3. QED
  BY <1>1, <1>2

(* The routes are numbered from 1 on.                                       *)
LEMMA RoutesAre == Routes \in SUBSET Nat /\ 0 \notin Routes
BY DrainAssumption, LenProperties DEF Routes

(* The stage is at one of the routes it has still to visit.                 *)
LEMMA CurrentIs ==
  ASSUME drain.todo \in SUBSET Routes, drain.todo # {}
  PROVE  Current \in drain.todo
<1>1. \E x \in drain.todo : \A y \in drain.todo : x =< y
  BY RoutesAre, LeastNatural
<1>2. QED
  BY <1>1 DEF Current, Min

(* The contract, one route at a time.                                       *)
RouteKept(r) ==
  /\ Faithful(delivered[r], box[r], accepted[r], Table[r] = "bounded")
  /\ Len(box[r]) <= Limit(r)
  /\ Table[r] = "bounded" => Len(delivered[r]) <= mark[r]

(* The contract, one route at a time.                                       *)
LEMMA ContractIs == DrainContract <=> \A r \in Routes : RouteKept(r)
BY DEF DrainContract, NothingButReplacedIsLost, KeepsCapacity, WatermarkHolds, RouteKept, Faithful

(* The same after a step.                                                  *)
LEMMA ContractNext ==
  ASSUME \A r \in Routes : RouteKept(r)'
  PROVE  DrainContract'
BY DEF DrainContract, NothingButReplacedIsLost, KeepsCapacity, WatermarkHolds, RouteKept, Faithful

(* What is stored of route r does not concern the other routes.             *)
LEMMA RouteStays ==
  ASSUME NEW r, RouteKept(r), box'[r] = box[r], delivered'[r] = delivered[r],
         accepted'[r] = accepted[r], mark'[r] = mark[r]
  PROVE  RouteKept(r)'
BY DEF RouteKept, Faithful, Limit

-----------------------------------------------------------------------------
(* The inductive invariant holds at the beginning, ...                      *)

(* The invariant holds at first.                                            *)
LEMMA InitInv ==
  ASSUME Init
  PROVE  IInv
<1>1. <<>> \in Seq(Values) /\ Len(<<>>) = 0
  BY EmptySeq
<1>2. TypeOK
  BY <1>1, DrainAssumption DEF Init, TypeOK, StagePc
<1>3. StageShape /\ LeftToTake
  BY DEF Init, StageShape, LeftToTake, Draining
<1>4. ASSUME NEW r \in Routes PROVE RouteKept(r)
  <2>1. <<>> \o <<>> = <<>>
    BY <1>1, ConcatEmptySeq
  <2>2. box[r] = <<>> /\ delivered[r] = <<>> /\ accepted[r] = <<>> /\ mark[r] = 0
    BY DEF Init
  <2>3. Within(<<>>, <<>>)
    BY WithinItself
  <2>4. Faithful(<<>>, <<>>, <<>>, Table[r] = "bounded")
    BY <2>1, <2>3 DEF Faithful
  <2>5. Limit(r) \in Nat
    BY DrainAssumption DEF Limit
  <2>6. QED
    BY <1>1, <2>2, <2>4, <2>5 DEF RouteKept
<1>5. QED
  BY <1>2, <1>3, <1>4, ContractIs DEF IInv

-----------------------------------------------------------------------------
(* ... and every step of a hook entry keeps it.                             *)

(* Who is at a send has a route and a value.                                *)
LEMMA SendIs ==
  ASSUME TypeOK, NEW c \in Callbacks, writer[c].route # 0
  PROVE  writer[c].route \in Routes /\ writer[c].value \in Values
<1>1. writer[c] \in {NoSend} \cup Sending
  BY DEF TypeOK
<1>2. writer[c] # NoSend
  BY DEF NoSend
<1>3. QED
  BY <1>1, <1>2 DEF Sending

(* A hook entry that is through with its send leaves everything else.       *)
LEMMA EndSendTypes ==
  ASSUME TypeOK, NEW c \in Callbacks, EndSend(c)
  PROVE  /\ writer' \in [Callbacks -> {NoSend} \cup Sending]
         /\ UNCHANGED <<drain, delivered, mark, active, sent>>
BY DEF TypeOK, EndSend, stageVars

(* A send that stores nothing.                                              *)
LEMMA SendFails ==
  ASSUME IInv, NEW c \in Callbacks, EndSend(c), UNCHANGED <<box, accepted>>
  PROVE  IInv'
<1>1. /\ writer' \in [Callbacks -> {NoSend} \cup Sending]
      /\ UNCHANGED <<drain, delivered, mark, active, sent>>
  BY EndSendTypes DEF IInv
<1>2. TypeOK'
  BY <1>1 DEF IInv, TypeOK
<1>3. StageShape' /\ LeftToTake'
  BY <1>1 DEF IInv, StageShape, LeftToTake, Draining, Current
<1>4. DrainContract'
  <2>1. \A r \in Routes : RouteKept(r)'
    BY <1>1, RouteStays, ContractIs DEF IInv
  <2>2. QED
    BY <2>1, ContractNext
<1>5. QED
  BY <1>2, <1>3, <1>4 DEF IInv

(* A send that stores its value: the mailbox does not get shorter.          *)
LEMMA StoreKeeps ==
  ASSUME IInv, NEW c \in Callbacks, NEW r, r = writer[c].route, r # 0, NEW content,
         content \in Seq(Values), content # <<>>,
         Len(box[r]) <= Len(content), Len(content) <= Limit(r),
         Faithful(delivered[r], content, Append(accepted[r], writer[c].value),
                  Table[r] = "bounded"),
         Store(c, r, content)
  PROVE  IInv'
<1>1. /\ writer' \in [Callbacks -> {NoSend} \cup Sending]
      /\ UNCHANGED <<drain, delivered, mark, active, sent>>
  BY EndSendTypes DEF IInv, Store
<1>2. r \in Routes /\ writer[c].value \in Values
  BY SendIs DEF IInv
<1>3. /\ box' = [box EXCEPT ![r] = content]
      /\ accepted' = [accepted EXCEPT ![r] = Append(@, writer[c].value)]
  BY DEF Store
<1>4. /\ box \in [Routes -> Seq(Values)] /\ accepted \in [Routes -> Seq(Values)]
      /\ box'[r] = content /\ accepted'[r] = Append(accepted[r], writer[c].value)
      /\ \A s \in Routes : s # r => box'[s] = box[s] /\ accepted'[s] = accepted[s]
  BY <1>2, <1>3 DEF IInv, TypeOK
<1>5. TypeOK'
  <2>1. Append(accepted[r], writer[c].value) \in Seq(Values)
    BY <1>2, <1>4, AppendProperties
  <2>2. box' \in [Routes -> Seq(Values)] /\ accepted' \in [Routes -> Seq(Values)]
    BY <1>3, <1>4, <2>1
  <2>3. QED
    BY <1>1, <2>2 DEF IInv, TypeOK
<1>6. StageShape' /\ LeftToTake'
  <2>1. drain \in [pc : StagePc, todo : SUBSET Routes, left : Nat]
    BY DEF IInv, TypeOK
  <2>2. Current' = Current
    BY <1>1 DEF Current
  <2>3. CASE ~Draining("Take")
    BY <1>1, <2>3 DEF IInv, StageShape, LeftToTake, Draining
  <2>4. CASE Draining("Take")
    <3>1. Current \in Routes
      BY <2>1, <2>4, CurrentIs DEF IInv, StageShape, Draining
    <3>2. box'[Current] # <<>>
      BY <1>4, <2>4, <3>1 DEF IInv, StageShape
    <3>3. Len(box[Current]) \in Nat /\ Len(box'[Current]) \in Nat
      BY <1>4, <3>1, LenProperties
    <3>4. Len(box[Current]) <= Len(box'[Current])
      BY <1>4, <3>1, <3>3
    <3>5. drain.left <= Len(box[Current]) => drain.left <= Len(box'[Current])
      <4>1. drain.left \in Nat
        BY <2>1
      <4>2. QED
        BY <3>3, <3>4, <4>1
    <3>6. StageShape'
      BY <1>1, <2>2, <2>4, <3>2 DEF IInv, StageShape, Draining
    <3>7. LeftToTake'
      BY <1>1, <2>2, <2>4, <3>5 DEF IInv, LeftToTake, Draining
    <3>8. QED
      BY <3>6, <3>7
  <2>5. QED
    BY <2>3, <2>4
<1>7. ASSUME NEW s \in Routes PROVE RouteKept(s)'
  <2>1. RouteKept(s)
    BY ContractIs DEF IInv
  <2>2. CASE s # r
    BY <1>1, <1>4, <2>1, <2>2, RouteStays
  <2>3. CASE s = r
    BY <1>1, <1>4, <2>1, <2>3 DEF RouteKept, Faithful, Limit
  <2>4. QED
    BY <2>2, <2>3
<1>8. DrainContract'
  BY <1>7, ContractNext
<1>9. QED
  BY <1>5, <1>6, <1>8 DEF IInv

(* A hook entry begins a send.                                              *)
LEMMA BeginKeeps ==
  ASSUME IInv, NEW c \in Callbacks, NEW r \in Routes, BeginSend(c, r)
  PROVE  IInv'
<1>1. /\ UNCHANGED <<box, drain, delivered, mark, active, accepted>>
      /\ sent' = sent + 1 /\ sent < MaxSends
      /\ writer' = [writer EXCEPT ![c] = [route |-> r, value |-> sent + 1]]
  BY DEF BeginSend, stageVars
<1>2. sent' \in 0..MaxSends /\ sent + 1 \in Values
  BY <1>1, DrainAssumption DEF IInv, TypeOK, Values
<1>3. writer' \in [Callbacks -> {NoSend} \cup Sending]
  BY <1>1, <1>2 DEF IInv, TypeOK, Sending
<1>4. TypeOK'
  BY <1>1, <1>2, <1>3 DEF IInv, TypeOK
<1>5. StageShape' /\ LeftToTake'
  BY <1>1 DEF IInv, StageShape, LeftToTake, Draining, Current
<1>6. \A s \in Routes : RouteKept(s)'
  BY <1>1, RouteStays, ContractIs DEF IInv
<1>7. DrainContract'
  BY <1>6, ContractNext
<1>8. QED
  BY <1>4, <1>5, <1>7 DEF IInv

(* A hook entry sends.                                                      *)
LEMMA SendKeeps ==
  ASSUME IInv, NEW c \in Callbacks, Send(c)
  PROVE  IInv'
<1> DEFINE r == writer[c].route
           v == writer[c].value
<1>1. ASSUME r # 0
      PROVE  /\ r \in Routes /\ v \in Values
             /\ box[r] \in Seq(Values) /\ delivered[r] \in Seq(Values)
             /\ accepted[r] \in Seq(Values)
             /\ Faithful(delivered[r], box[r], accepted[r], Table[r] = "bounded")
             /\ Len(box[r]) \in Nat /\ Len(box[r]) <= Limit(r)
  <2>1. r \in Routes /\ v \in Values
    BY <1>1, SendIs DEF IInv
  <2>2. RouteKept(r)
    BY <2>1, ContractIs DEF IInv
  <2>3. /\ box[r] \in Seq(Values) /\ delivered[r] \in Seq(Values)
        /\ accepted[r] \in Seq(Values)
    BY <2>1 DEF IInv, TypeOK
  <2>4. QED
    BY <2>1, <2>2, <2>3, LenProperties DEF RouteKept
<1>2. CASE SendSingle(c)
  <2>1. r # 0 /\ Table[r] # "bounded" /\ Store(c, r, <<v>>)
    BY <1>2 DEF SendSingle
  <2>2. Limit(r) = 1 /\ <<v>> \in Seq(Values) /\ <<v>> # <<>> /\ Len(<<v>>) = 1
    BY <1>1, <2>1 DEF Limit
  <2>3. Faithful(delivered[r], box[r], accepted[r], FALSE)
    BY <1>1, <2>1 DEF Faithful
  <2>4. Faithful(delivered[r], <<v>>, Append(accepted[r], v), FALSE)
    BY <1>1, <2>1, <2>3, FaithfulReplace
  <2>5. Faithful(delivered[r], <<v>>, Append(accepted[r], v), Table[r] = "bounded")
    BY <2>1, <2>4 DEF Faithful
  <2>6. Len(box[r]) <= Len(<<v>>) /\ Len(<<v>>) <= Limit(r)
    BY <1>1, <2>1, <2>2
  <2> HIDE DEF r
  <2>7. QED
    BY <2>1, <2>2, <2>5, <2>6, StoreKeeps DEF r
<1>3. CASE SendShared_Busy(c)
  BY <1>3, SendFails DEF SendShared_Busy
<1>4. CASE SendBounded(c)
  <2> DEFINE content == Append(box[r], v)
  <2>1. /\ r # 0 /\ Table[r] = "bounded" /\ Len(box[r]) < Capacity
        /\ Store(c, r, content)
    BY <1>4 DEF SendBounded
  <2>2. content \in Seq(Values) /\ content # <<>> /\ Len(content) = Len(box[r]) + 1
    BY <1>1, <2>1, AppendProperties
  <2>3. Faithful(delivered[r], content, Append(accepted[r], v), Table[r] = "bounded")
    BY <1>1, <2>1, FaithfulAppend
  <2>4. Len(box[r]) <= Len(content) /\ Len(content) <= Limit(r)
    <3>1. Limit(r) = Capacity /\ Capacity \in Nat /\ Len(box[r]) \in Nat
      BY <1>1, <2>1, DrainAssumption DEF Limit
    <3>2. QED
      BY <2>1, <2>2, <3>1
  <2> HIDE DEF content, r
  <2>5. QED
    BY <2>1, <2>2, <2>3, <2>4, StoreKeeps DEF r
<1>5. CASE SendBounded_Full(c)
  BY <1>5, SendFails DEF SendBounded_Full
<1>6. QED
  BY <1>2, <1>3, <1>4, <1>5 DEF Send

-----------------------------------------------------------------------------
(* So does every step of the stage.                                         *)

(* While the stage is under way, its types say where it is.                 *)
LEMMA AtRoute ==
  ASSUME IInv, ~Draining("Idle")
  PROVE  /\ drain.todo \in SUBSET Routes /\ Current \in drain.todo /\ Current \in Routes
         /\ drain.left \in Nat
         /\ box[Current] \in Seq(Values) /\ delivered[Current] \in Seq(Values)
         /\ accepted[Current] \in Seq(Values) /\ mark[Current] \in Nat
         /\ RouteKept(Current)
<1>1. drain.todo \in SUBSET Routes /\ drain.left \in Nat /\ drain.todo # {}
  BY DEF IInv, TypeOK, StageShape
<1>2. Current \in drain.todo /\ Current \in Routes
  BY <1>1, CurrentIs
<1>3. /\ box[Current] \in Seq(Values) /\ delivered[Current] \in Seq(Values)
      /\ accepted[Current] \in Seq(Values) /\ mark[Current] \in Nat
  BY <1>2 DEF IInv, TypeOK
<1>4. RouteKept(Current)
  BY <1>2, ContractIs DEF IInv
<1>5. QED
  BY <1>1, <1>2, <1>3, <1>4

(* The stage goes on to the next route, or ends.                            *)
LEMMA AdvanceKeeps ==
  ASSUME IInv, ~Draining("Idle"), Advance
  PROVE  /\ drain' \in [pc : StagePc, todo : SUBSET Routes, left : Nat]
         /\ StageShape' /\ LeftToTake'
<1> DEFINE todo == drain.todo \ {Current}
<1>1. drain' = [pc |-> IF todo # {} THEN "Depth" ELSE "Idle", todo |-> todo, left |-> 0]
  BY DEF Advance
<1>2. todo \in SUBSET Routes
  BY AtRoute
<1> HIDE DEF todo
<1>3. drain' \in [pc : StagePc, todo : SUBSET Routes, left : Nat]
  <2>1. CASE todo # {}
    BY <1>1, <1>2, <2>1 DEF StagePc
  <2>2. CASE todo = {}
    BY <1>1, <1>2, <2>2 DEF StagePc
  <2>3. QED
    BY <2>1, <2>2
<1>4. drain'.pc # "Take" /\ (drain'.pc # "Idle" => drain'.todo # {})
  BY <1>1
<1>5. QED
  BY <1>3, <1>4 DEF StageShape, LeftToTake, Draining

(* A step that only moves the stage.                                        *)
LEMMA OnlyStageMoves ==
  ASSUME IInv, UNCHANGED <<box, delivered, mark, sendVars>>,
         drain' \in [pc : StagePc, todo : SUBSET Routes, left : Nat],
         StageShape', LeftToTake'
  PROVE  IInv'
<1>1. UNCHANGED <<box, delivered, mark, writer, active, accepted, sent>>
  BY DEF sendVars
<1>2. TypeOK'
  BY <1>1 DEF IInv, TypeOK
<1>3. \A r \in Routes : RouteKept(r)'
  BY <1>1, RouteStays, ContractIs DEF IInv
<1>4. QED
  BY <1>2, <1>3, ContractNext DEF IInv

(* The stage begins with the routes of the owners that are active.          *)
LEMMA StageBeginsKeeps ==
  ASSUME IInv, StageBegins
  PROVE  IInv'
<1> DEFINE todo == {r \in Routes : Owner[r] \in active}
<1>1. /\ todo # {} /\ drain' = [pc |-> "Depth", todo |-> todo, left |-> 0]
      /\ UNCHANGED <<box, delivered, mark, sendVars>>
  BY DEF StageBegins
<1>2. todo \in SUBSET Routes
  OBVIOUS
<1> HIDE DEF todo
<1>3. drain' \in [pc : StagePc, todo : SUBSET Routes, left : Nat]
  BY <1>1, <1>2 DEF StagePc
<1>4. StageShape' /\ LeftToTake'
  BY <1>1 DEF StageShape, LeftToTake, Draining
<1>5. QED
  BY <1>1, <1>3, <1>4, OnlyStageMoves

(* The stage reads the watermark: all that the queue has accepted and not   *)
(* delivered is in it, so what is delivered ends at what was accepted.      *)
LEMMA ReadDepthKeeps ==
  ASSUME IInv, ReadDepth
  PROVE  IInv'
<1> DEFINE n == Len(box[Current])
           d == Len(delivered[Current])
           a == Len(accepted[Current])
<1>1. /\ Draining("Depth") /\ box[Current] # <<>>
      /\ drain' = [drain EXCEPT !.pc = "Take", !.left = Len(box[Current])]
      /\ mark' = [mark EXCEPT ![Current] = Len(accepted[Current])]
      /\ UNCHANGED <<box, delivered, writer, active, accepted, sent>>
  BY DEF ReadDepth, sendVars
<1>2. ~Draining("Idle")
  BY <1>1 DEF Draining
<1>3. drain \in [pc : StagePc, todo : SUBSET Routes, left : Nat]
  BY DEF IInv, TypeOK
<1>4. /\ Current \in Routes /\ RouteKept(Current)
      /\ n \in Nat \ {0} /\ d \in Nat /\ a \in Nat
  BY <1>1, <1>2, AtRoute, LenProperties, EmptySeq
<1>5. /\ drain'.pc = "Take" /\ drain'.todo = drain.todo /\ drain'.left = n
      /\ drain' \in [pc : StagePc, todo : SUBSET Routes, left : Nat]
  BY <1>1, <1>3, <1>4 DEF StagePc
<1>6. Current' = Current
  BY <1>5 DEF Current
<1>7. /\ mark' \in [Routes -> Nat] /\ mark'[Current] = a
      /\ \A s \in Routes : s # Current => mark'[s] = mark[s]
  BY <1>1, <1>4 DEF IInv, TypeOK
<1>8. Table[Current] = "bounded" => a = d + n
  <2>1. box[Current] \in Seq(Values) /\ delivered[Current] \in Seq(Values)
    BY <1>2, AtRoute
  <2>2. Len(delivered[Current] \o box[Current]) = Len(delivered[Current]) + Len(box[Current])
    BY <2>1, ConcatProperties
  <2>3. Table[Current] = "bounded" => delivered[Current] \o box[Current] = accepted[Current]
    BY <1>4 DEF RouteKept, Faithful
  <2>4. QED
    BY <2>2, <2>3
<1>9. TypeOK'
  BY <1>1, <1>5, <1>7 DEF IInv, TypeOK
<1>10. StageShape'
  BY <1>1, <1>2, <1>5, <1>6 DEF IInv, StageShape, Draining
<1>11. LeftToTake'
  <2>1. Table[Current] = "bounded" => d + n = a
    BY <1>8
  <2>2. n >= 1 /\ n <= n
    <3> HIDE DEF n, d, a
    <3>1. QED
      BY <1>4
  <2>3. QED
    BY <1>1, <1>5, <1>6, <1>7, <2>1, <2>2 DEF LeftToTake, Draining
<1>12. ASSUME NEW s \in Routes PROVE RouteKept(s)'
  <2>1. RouteKept(s)
    BY ContractIs DEF IInv
  <2>2. CASE s # Current
    BY <1>1, <1>7, <2>1, <2>2, RouteStays
  <2>3. CASE s = Current
    <3>1. Table[s] = "bounded" => Len(delivered'[s]) <= mark'[s]
      <4>1. Table[Current] = "bounded" => d <= a
        <5> HIDE DEF n, d, a
        <5>1. QED
          BY <1>4, <1>8
      <4>2. delivered' = delivered /\ mark'[Current] = a
        BY <1>1, <1>7
      <4>3. QED
        BY <2>3, <4>1, <4>2
    <3>2. QED
      BY <1>1, <2>1, <3>1 DEF RouteKept, Faithful, Limit
  <2>4. QED
    BY <2>2, <2>3
<1>13. QED
  BY <1>9, <1>10, <1>11, <1>12, ContractNext DEF IInv

(* The stage delivers the oldest value of the route it is at: all but the   *)
(* watermark is as it was.                                                  *)
LEMMA DeliverKeeps ==
  ASSUME IInv, Draining("Take"), NEW rest, rest = Tail(box[Current]),
         Deliver(Head(box[Current]), rest),
         Table[Current] = "bounded" => Len(delivered[Current]) + 1 <= mark[Current],
         drain' \in [pc : StagePc, todo : SUBSET Routes, left : Nat],
         StageShape', LeftToTake'
  PROVE  IInv'
<1> DEFINE r == Current
           value == Head(box[r])
<1>1. /\ r \in Routes /\ box[r] \in Seq(Values) /\ delivered[r] \in Seq(Values)
      /\ RouteKept(r) /\ box[r] # <<>>
  BY AtRoute DEF IInv, StageShape, Draining
<1>2. /\ delivered' = [delivered EXCEPT ![r] = Append(@, value)]
      /\ box' = [box EXCEPT ![r] = rest]
      /\ UNCHANGED <<mark, writer, active, accepted, sent>>
  BY DEF Deliver, sendVars
<1> HIDE DEF r
<1>3. /\ value \in Values /\ rest \in Seq(Values) /\ Len(rest) = Len(box[r]) - 1
      /\ Append(delivered[r], value) \in Seq(Values)
      /\ Len(Append(delivered[r], value)) = Len(delivered[r]) + 1
  <2>1. value \in Values /\ rest \in Seq(Values) /\ Len(rest) = Len(box[r]) - 1
    BY <1>1, HeadTailProperties DEF r
  <2> HIDE DEF value
  <2>2. QED
    BY <1>1, <2>1, AppendProperties
<1>4. /\ box'[r] = rest /\ delivered'[r] = Append(delivered[r], value)
      /\ \A s \in Routes : s # r => box'[s] = box[s] /\ delivered'[s] = delivered[s]
  BY <1>1, <1>2 DEF IInv, TypeOK
<1>5. TypeOK'
  <2>1. box' \in [Routes -> Seq(Values)] /\ delivered' \in [Routes -> Seq(Values)]
    BY <1>1, <1>2, <1>3 DEF IInv, TypeOK
  <2>2. QED
    BY <1>2, <2>1 DEF IInv, TypeOK
<1>6. ASSUME NEW s \in Routes PROVE RouteKept(s)'
  <2>1. RouteKept(s)
    BY ContractIs DEF IInv
  <2>2. CASE s # r
    BY <1>2, <1>4, <2>1, <2>2, RouteStays
  <2>3. CASE s = r
    <3>1. Faithful(Append(delivered[r], value), rest, accepted[r], Table[r] = "bounded")
      BY <1>1, FaithfulTake DEF r, RouteKept
    <3>2. Faithful(delivered'[s], box'[s], accepted'[s], Table[s] = "bounded")
      BY <1>2, <1>4, <2>3, <3>1
    <3>3. Len(box'[s]) <= Limit(s)
      <4>1. Len(box[r]) \in Nat /\ Limit(r) \in Nat /\ Len(box[r]) <= Limit(r)
        BY <1>1, LenProperties, DrainAssumption DEF RouteKept, Limit
      <4>2. \A m, k \in Nat : m <= k => m - 1 <= k
        OBVIOUS
      <4>3. Len(rest) <= Limit(r)
        BY <1>3, <4>1, <4>2
      <4>4. QED
        BY <1>4, <2>3, <4>3
    <3>4. Table[s] = "bounded" => Len(delivered'[s]) <= mark'[s]
      BY <1>2, <1>3, <1>4, <2>3 DEF r
    <3>5. QED
      BY <3>2, <3>3, <3>4 DEF RouteKept, Faithful, Limit
  <2>4. QED
    BY <2>2, <2>3
<1>7. QED
  BY <1>5, <1>6, ContractNext DEF IInv

(* The slot gives its value, and the stage goes on.                         *)
LEMMA TakeSingleKeeps ==
  ASSUME IInv, TakeSingle
  PROVE  IInv'
<1>1. /\ Draining("Take") /\ Table[Current] # "bounded" /\ box[Current] # <<>>
      /\ Deliver(Head(box[Current]), <<>>) /\ Advance
  BY DEF TakeSingle
<1>2. ~Draining("Idle")
  BY <1>1 DEF Draining
<1>3. Tail(box[Current]) = <<>>
  <2>1. box[Current] \in Seq(Values) /\ Len(box[Current]) <= 1
    BY <1>1, <1>2, AtRoute DEF RouteKept, Limit
  <2>2. QED
    BY <1>1, <2>1, NothingLeft
<1>4. QED
  BY <1>1, <1>2, <1>3, AdvanceKeeps, DeliverKeeps

(* The queue gives its oldest value, and the stage goes on when that was    *)
(* the last one below the watermark.                                        *)
LEMMA TakeBoundedKeeps ==
  ASSUME IInv, TakeBounded
  PROVE  IInv'
<1>1. /\ Draining("Take") /\ Table[Current] = "bounded"
      /\ Deliver(Head(box[Current]), Tail(box[Current]))
      /\ IF drain.left > 1 THEN drain' = [drain EXCEPT !.left = @ - 1] ELSE Advance
  BY DEF TakeBounded
<1>2. ~Draining("Idle")
  BY <1>1 DEF Draining
<1>3. /\ Current \in Routes /\ drain.left \in Nat /\ mark[Current] \in Nat
      /\ box[Current] \in Seq(Values) /\ box[Current] # <<>>
      /\ delivered[Current] \in Seq(Values)
  BY <1>1, <1>2, AtRoute DEF IInv, StageShape
<1>4. Len(delivered[Current]) \in Nat /\ Len(box[Current]) \in Nat
  BY <1>3, LenProperties
<1>5. /\ Len(delivered[Current]) + drain.left = mark[Current]
      /\ drain.left >= 1 /\ drain.left <= Len(box[Current])
  BY <1>1 DEF IInv, LeftToTake
<1>6. Len(delivered[Current]) + 1 <= mark[Current]
  BY <1>3, <1>4, <1>5
<1>7. CASE drain.left > 1
  <2>1. drain' = [drain EXCEPT !.left = @ - 1]
    BY <1>1, <1>7
  <2>2. drain \in [pc : StagePc, todo : SUBSET Routes, left : Nat]
    BY DEF IInv, TypeOK
  <2>3. /\ drain'.pc = "Take" /\ drain'.todo = drain.todo /\ drain'.left = drain.left - 1
        /\ drain' \in [pc : StagePc, todo : SUBSET Routes, left : Nat]
    BY <1>1, <1>3, <1>7, <2>1, <2>2 DEF Draining
  <2>4. Current' = Current
    BY <2>3 DEF Current
  <2>5. /\ box'[Current] = Tail(box[Current]) /\ mark' = mark
        /\ delivered'[Current] = Append(delivered[Current], Head(box[Current]))
    <3>1. /\ delivered' = [delivered EXCEPT ![Current] = Append(@, Head(box[Current]))]
          /\ box' = [box EXCEPT ![Current] = Tail(box[Current])] /\ mark' = mark
      BY <1>1 DEF Deliver
    <3>2. box \in [Routes -> Seq(Values)] /\ delivered \in [Routes -> Seq(Values)]
      BY DEF IInv, TypeOK
    <3>3. QED
      BY <1>3, <3>1, <3>2
  <2>6. /\ Len(box'[Current]) = Len(box[Current]) - 1
        /\ Len(delivered'[Current]) = Len(delivered[Current]) + 1
    <3>1. Len(Tail(box[Current])) = Len(box[Current]) - 1 /\ Head(box[Current]) \in Values
      BY <1>3, HeadTailProperties
    <3>2. Len(Append(delivered[Current], Head(box[Current]))) = Len(delivered[Current]) + 1
      BY <1>3, <3>1, AppendProperties
    <3>3. QED
      BY <2>5, <3>1, <3>2
  <2>7. box'[Current] # <<>>
    BY <1>3, <1>4, <1>5, <1>7, <2>6, EmptySeq
  <2>8. StageShape'
    BY <1>1, <1>2, <2>3, <2>4, <2>7 DEF IInv, StageShape, Draining
  <2>9. LeftToTake'
    <3>1. \A d, n, l, k \in Nat : d + l = k /\ l > 1 /\ l <= n =>
            d + 1 + (l - 1) = k /\ l - 1 >= 1 /\ l - 1 <= n - 1
      OBVIOUS
    <3>2. /\ Len(delivered[Current]) + 1 + (drain.left - 1) = mark[Current]
          /\ drain.left - 1 >= 1 /\ drain.left - 1 <= Len(box[Current]) - 1
      <4> DEFINE d == Len(delivered[Current])
                 n == Len(box[Current])
                 l == drain.left
                 k == mark[Current]
      <4>1. d \in Nat /\ n \in Nat /\ l \in Nat /\ k \in Nat
        BY <1>3, <1>4
      <4>2. d + l = k /\ l > 1 /\ l <= n
        BY <1>5, <1>7
      <4> HIDE DEF d, n, l, k
      <4>3. d + 1 + (l - 1) = k /\ l - 1 >= 1 /\ l - 1 <= n - 1
        BY <3>1, <4>1, <4>2
      <4>4. QED
        BY <4>3 DEF d, n, l, k
    <3>3. /\ Len(delivered'[Current]) + drain'.left = mark'[Current]
          /\ drain'.left >= 1 /\ drain'.left <= Len(box'[Current])
      BY <2>3, <2>5, <2>6, <3>2
    <3>4. QED
      BY <2>4, <3>3 DEF LeftToTake
  <2>10. QED
    BY <1>1, <1>6, <2>3, <2>8, <2>9, DeliverKeeps
<1>8. CASE ~(drain.left > 1)
  BY <1>1, <1>2, <1>6, <1>8, AdvanceKeeps, DeliverKeeps
<1>9. QED
  BY <1>7, <1>8

(* A step of the stage.                                                     *)
LEMMA StageKeeps ==
  ASSUME IInv, Stage
  PROVE  IInv'
<1>1. ASSUME Draining("Depth") \/ Draining("Take"), Advance,
             UNCHANGED <<box, delivered, mark, sendVars>>
      PROVE  IInv'
  <2>1. ~Draining("Idle")
    BY <1>1 DEF Draining
  <2>2. QED
    BY <1>1, <2>1, AdvanceKeeps, OnlyStageMoves
<1>2. CASE SkipEmpty
  BY <1>1, <1>2 DEF SkipEmpty
<1>3. CASE TakeShared_Busy
  BY <1>1, <1>3 DEF TakeShared_Busy
<1>4. QED
  BY <1>2, <1>3, StageBeginsKeeps, ReadDepthKeeps, TakeSingleKeeps, TakeBoundedKeeps DEF Stage

(* An owner retires.                                                        *)
LEMMA RetireKeeps ==
  ASSUME IInv, NEW o \in Owners, Retire(o)
  PROVE  IInv'
<1>1. active' = active \ {o} /\ UNCHANGED <<box, writer, drain, delivered, mark, accepted, sent>>
  BY DEF Retire, stageVars
<1>2. TypeOK'
  BY <1>1 DEF IInv, TypeOK
<1>3. StageShape' /\ LeftToTake'
  BY <1>1 DEF IInv, StageShape, LeftToTake, Draining, Current
<1>4. \A r \in Routes : RouteKept(r)'
  BY <1>1, RouteStays, ContractIs DEF IInv
<1>5. QED
  BY <1>2, <1>3, <1>4, ContractNext DEF IInv

(* Nothing happens.                                                         *)
LEMMA StutterKeeps ==
  ASSUME IInv, UNCHANGED vars
  PROVE  IInv'
<1>1. UNCHANGED <<box, writer, drain, delivered, mark, active, accepted, sent>>
  BY DEF vars, stageVars
<1>2. TypeOK'
  BY <1>1 DEF IInv, TypeOK
<1>3. StageShape' /\ LeftToTake'
  BY <1>1 DEF IInv, StageShape, LeftToTake, Draining, Current
<1>4. \A r \in Routes : RouteKept(r)'
  BY <1>1, RouteStays, ContractIs DEF IInv
<1>5. QED
  BY <1>2, <1>3, <1>4, ContractNext DEF IInv

-----------------------------------------------------------------------------
(* The theorems.                                                            *)

(* The inductive invariant.                                                 *)
THEOREM Invariance == Spec => []IInv
<1>1. Init => IInv
  BY InitInv
<1>2. IInv /\ [Next]_vars => IInv'
  BY BeginKeeps, SendKeeps, StageKeeps, RetireKeeps, StutterKeeps DEF Next
<1>3. QED
  BY <1>1, <1>2, PTL DEF Spec

(* Mailboxes, Messages<T> and the stage stay within their types; in         *)
(* particular the stage only visits registered routes (RouteTable,          *)
(* ActiveDrains).                                                           *)
THEOREM TypeCorrect == Spec => []TypeOK
<1>1. IInv => TypeOK
  BY DEF IInv
<1>2. QED
  BY <1>1, Invariance, PTL

(* Every mailbox keeps its promise to the sender (try_send of LatestCell,   *)
(* BoundedQueue and SharedSlot) and its capacity, and a frame delivers of a *)
(* queue no more than its depth was (drain_route).                          *)
THEOREM DrainKeepsContract == Spec => []DrainContract
<1>1. IInv => DrainContract
  BY DEF IInv
<1>2. QED
  BY <1>1, Invariance, PTL
===============================================================================
