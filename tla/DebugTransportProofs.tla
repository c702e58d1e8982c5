------------------------- MODULE DebugTransportProofs -------------------------
(***************************************************************************)
(* What the debug control plane promises its clients, for every set of     *)
(* ids, every limit of its queues and every number of connections and      *)
(* frames.                                                                 *)
(***************************************************************************)
EXTENDS DebugTransport, SequenceTheorems, FiniteSetTheorems, FunctionTheorems, TLAPS

Kinds    == {"nameless", "duplicate", "undelivered", "unavailable", "handled"}
Request  == [n : Numbers, id : Ids, gen : Nat]
Response == [req : Request, kind : Kinds]

-----------------------------------------------------------------------------
(* Sequences without repetition, as the sets of their entries.              *)

Once(q) == \A i, j \in DOMAIN q : q[i] = q[j] => i = j

(* An entry that is put at the end.                                         *)
LEMMA OnceAppend ==
  ASSUME NEW S, NEW q \in Seq(S), NEW e \in S
  PROVE  /\ Append(q, e) \in Seq(S)
         /\ ToSet(Append(q, e)) = ToSet(q) \cup {e}
         /\ Once(q) /\ e \notin ToSet(q) => Once(Append(q, e))
<1> DEFINE t == Append(q, e)
           n == Len(q)
<1>1. /\ n \in Nat /\ DOMAIN q = 1..n /\ t \in Seq(S) /\ DOMAIN t = 1..(n + 1)
      /\ \A i \in 1..n : t[i] = q[i]
      /\ t[n + 1] = e
  BY AppendProperties, LenProperties
<1>2. \A i \in 1..(n + 1) : i \in 1..n \/ i = n + 1
  BY <1>1
<1>3. 1..n \subseteq 1..(n + 1) /\ n + 1 \in 1..(n + 1)
  BY <1>1
<1> HIDE DEF t, n
<1>4. ToSet(t) = ToSet(q) \cup {e}
  BY <1>1, <1>2, <1>3 DEF ToSet
<1>5. ASSUME Once(q), e \notin ToSet(q), NEW i \in DOMAIN t, NEW j \in DOMAIN t, t[i] = t[j]
      PROVE  i = j
  <2>1. CASE i \in 1..n /\ j \in 1..n
    BY <1>1, <1>5, <2>1 DEF Once
  <2>2. CASE i = n + 1 /\ j \in 1..n
    BY <1>1, <1>5, <2>2 DEF ToSet
  <2>3. CASE j = n + 1 /\ i \in 1..n
    BY <1>1, <1>5, <2>3 DEF ToSet
  <2>4. QED
    BY <1>1, <1>2, <2>1, <2>2, <2>3
<1>6. Once(q) /\ e \notin ToSet(q) => Once(t)
  BY <1>5 DEF Once
<1>7. QED
  BY <1>1, <1>4, <1>6 DEF t

(* The first entry is taken.                                                *)
LEMMA OnceTail ==
  ASSUME NEW S, NEW q \in Seq(S), q # <<>>, Once(q)
  PROVE  /\ Head(q) \in ToSet(q) /\ Head(q) \in S /\ Tail(q) \in Seq(S)
         /\ ToSet(Tail(q)) = ToSet(q) \ {Head(q)}
         /\ Once(Tail(q))
<1> DEFINE t == Tail(q)
           n == Len(q)
<1>1. /\ n \in Nat /\ n # 0 /\ DOMAIN q = 1..n /\ Head(q) = q[1] /\ Head(q) \in S
      /\ t \in Seq(S) /\ DOMAIN t = 1..(n - 1)
      /\ \A i \in 1..(n - 1) : t[i] = q[i + 1]
  <2>1. n \in Nat \ {0} /\ DOMAIN q = 1..n
    BY EmptySeq, LenProperties
  <2>2. /\ Head(q) \in S /\ t \in Seq(S) /\ Len(t) = n - 1
        /\ \A i \in 1..Len(t) : t[i] = q[i + 1]
    BY HeadTailProperties
  <2>3. DOMAIN t = 1..Len(t)
    BY <2>2, LenProperties
  <2>4. QED
    BY <2>1, <2>2, <2>3
<1>2. /\ 1 \in 1..n
      /\ \A i \in 1..(n - 1) : i + 1 \in 1..n /\ i + 1 # 1
      /\ \A j \in 1..n : j # 1 => j - 1 \in 1..(n - 1) /\ (j - 1) + 1 = j
      /\ \A i, j \in 1..(n - 1) : i + 1 = j + 1 => i = j
  BY <1>1
<1> HIDE DEF t, n
<1>3. ToSet(t) = ToSet(q) \ {Head(q)}
  <2>1. ASSUME NEW x \in ToSet(t) PROVE x \in ToSet(q) /\ x # Head(q)
    <3>1. PICK i \in 1..(n - 1) : x = t[i]
      BY <1>1 DEF ToSet
    <3>2. x = q[i + 1] /\ i + 1 \in 1..n /\ i + 1 # 1
      BY <1>1, <1>2, <3>1
    <3>3. QED
      BY <1>1, <1>2, <3>2 DEF ToSet, Once
  <2>2. ASSUME NEW x \in ToSet(q), x # Head(q) PROVE x \in ToSet(t)
    <3>1. PICK j \in 1..n : x = q[j]
      BY <1>1 DEF ToSet
    <3>2. j # 1
      BY <1>1, <2>2, <3>1
    <3>3. j - 1 \in 1..(n - 1) /\ t[j - 1] = q[j]
      BY <1>1, <1>2, <3>1, <3>2
    <3>4. QED
      BY <1>1, <3>1, <3>3 DEF ToSet
  <2>3. QED
    BY <2>1, <2>2
<1>4. Once(t)
  <2>1. ASSUME NEW i \in 1..(n - 1), NEW j \in 1..(n - 1), t[i] = t[j] PROVE i = j
    <3>1. i + 1 \in 1..n /\ j + 1 \in 1..n /\ q[i + 1] = q[j + 1]
      BY <1>1, <1>2, <2>1
    <3>2. i + 1 = j + 1
      BY <1>1, <3>1 DEF Once
    <3>3. QED
      BY <1>2, <3>2
  <2>2. QED
    BY <1>1, <2>1 DEF Once
<1>5. Head(q) \in ToSet(q)
  BY <1>1, <1>2 DEF ToSet
<1>6. QED
  BY <1>1, <1>3, <1>4, <1>5 DEF t

(* Two sequences one after the other.                                       *)
LEMMA OnceConcat ==
  ASSUME NEW S, NEW p \in Seq(S), NEW q \in Seq(S)
  PROVE  /\ p \o q \in Seq(S)
         /\ ToSet(p \o q) = ToSet(p) \cup ToSet(q)
         /\ Once(p) /\ Once(q) /\ ToSet(p) \cap ToSet(q) = {} => Once(p \o q)
<1> DEFINE t == p \o q
           m == Len(p)
           n == Len(q)
<1>1. /\ m \in Nat /\ n \in Nat /\ DOMAIN p = 1..m /\ DOMAIN q = 1..n
      /\ t \in Seq(S) /\ DOMAIN t = 1..(m + n)
      /\ \A i \in 1..(m + n) : t[i] = IF i <= m THEN p[i] ELSE q[i - m]
  BY ConcatProperties, LenProperties
<1>2. /\ \A i \in 1..m : i \in 1..(m + n) /\ i <= m
      /\ \A i \in 1..n : i + m \in 1..(m + n) /\ ~(i + m <= m) /\ (i + m) - m = i
      /\ \A i \in 1..(m + n) : i <= m => i \in 1..m
      /\ \A i \in 1..(m + n) : ~(i <= m) => i - m \in 1..n
      /\ \A i, j \in 1..(m + n) : i - m = j - m => i = j
  BY <1>1
<1> HIDE DEF t, m, n
<1>3. ToSet(t) = ToSet(p) \cup ToSet(q)
  <2>1. ASSUME NEW x \in ToSet(t) PROVE x \in ToSet(p) \cup ToSet(q)
    <3>1. PICK i \in 1..(m + n) : x = t[i]
      BY <1>1 DEF ToSet
    <3>2. CASE i <= m
      BY <1>1, <1>2, <3>1, <3>2 DEF ToSet
    <3>3. CASE ~(i <= m)
      <4>1. i - m \in 1..n /\ x = q[i - m]
        BY <1>1, <1>2, <3>1, <3>3
      <4>2. QED
        BY <1>1, <4>1 DEF ToSet
    <3>4. QED
      BY <3>2, <3>3
  <2>2. ASSUME NEW x \in ToSet(p) PROVE x \in ToSet(t)
    BY <1>1, <1>2 DEF ToSet
  <2>3. ASSUME NEW x \in ToSet(q) PROVE x \in ToSet(t)
    <3>1. PICK i \in 1..n : x = q[i]
      BY <1>1 DEF ToSet
    <3>2. i + m \in 1..(m + n) /\ t[i + m] = q[i]
      BY <1>1, <1>2, <3>1
    <3>3. QED
      BY <1>1, <3>1, <3>2 DEF ToSet
  <2>4. QED
    BY <2>1, <2>2, <2>3
<1>4. ASSUME Once(p), Once(q), ToSet(p) \cap ToSet(q) = {},
             NEW i \in DOMAIN t, NEW j \in DOMAIN t, t[i] = t[j]
      PROVE  i = j
  <2>1. \A x \in DOMAIN t : \/ x \in 1..m /\ t[x] = p[x] /\ p[x] \in ToSet(p)
                            \/ x - m \in 1..n /\ t[x] = q[x - m] /\ q[x - m] \in ToSet(q)
    BY <1>1, <1>2 DEF ToSet
  <2>2. CASE i \in 1..m /\ t[i] = p[i] /\ p[i] \in ToSet(p)
    <3>1. j \in 1..m /\ t[j] = p[j]
      BY <1>4, <2>1, <2>2
    <3>2. QED
      BY <1>1, <1>4, <2>2, <3>1 DEF Once
  <2>3. CASE i - m \in 1..n /\ t[i] = q[i - m] /\ q[i - m] \in ToSet(q)
    <3>1. j - m \in 1..n /\ t[j] = q[j - m]
      BY <1>4, <2>1, <2>3
    <3>2. i - m = j - m
      BY <1>1, <1>4, <2>3, <3>1 DEF Once
    <3>3. QED
      BY <1>1, <1>2, <3>2
  <2>4. QED
    BY <2>1, <2>2, <2>3
<1>5. Once(p) /\ Once(q) /\ ToSet(p) \cap ToSet(q) = {} => Once(t)
  BY <1>4 DEF Once
<1>6. QED
  BY <1>1, <1>3, <1>5 DEF t

(* A part of a sequence.                                                    *)
LEMMA OncePart ==
  ASSUME NEW S, NEW q \in Seq(S), NEW a \in Nat \ {0}, NEW b \in 0..Len(q)
  PROVE  LET t == SubSeq(q, a, b)
         IN  /\ t \in Seq(S)
             /\ ToSet(t) = {q[i] : i \in a..b}
             /\ Once(q) => Once(t)
<1> DEFINE t == SubSeq(q, a, b)
           n == IF a <= b THEN b - a + 1 ELSE 0
<1>1. Len(q) \in Nat /\ DOMAIN q = 1..Len(q) /\ \A i \in a..b : i \in DOMAIN q /\ q[i] \in S
  <2>1. Len(q) \in Nat /\ DOMAIN q = 1..Len(q) /\ \A i \in 1..Len(q) : q[i] \in S
    BY LenProperties
  <2>2. \A i \in a..b : i \in 1..Len(q)
    BY <2>1
  <2>3. QED
    BY <2>1, <2>2
<1>2. /\ t \in Seq(S) /\ Len(t) = n
      /\ \A i \in 1..(b - a + 1) : t[i] = q[a + i - 1]
  <2>1. a \in Int /\ b \in Int /\ \A i \in a..b : q[i] \in S
    BY <1>1
  <2>2. QED
    BY <2>1, SubSeqProperties
<1>3. DOMAIN t = 1..n
  BY <1>2, LenProperties
<1>4. /\ \A i \in 1..n : i \in 1..(b - a + 1) /\ a + i - 1 \in a..b
      /\ \A j \in a..b : j - a + 1 \in 1..n /\ a + (j - a + 1) - 1 = j /\ j - a + 1 \in 1..(b - a + 1)
      /\ \A i, j \in 1..n : a + i - 1 = a + j - 1 => i = j
  BY <1>1
<1> HIDE DEF t, n
<1>5. ToSet(t) = {q[i] : i \in a..b}
  <2>1. ASSUME NEW x \in ToSet(t) PROVE x \in {q[i] : i \in a..b}
    BY <1>2, <1>3, <1>4 DEF ToSet
  <2>2. ASSUME NEW j \in a..b PROVE q[j] \in ToSet(t)
    <3>1. j - a + 1 \in 1..n /\ t[j - a + 1] = q[j]
      BY <1>2, <1>4
    <3>2. QED
      BY <1>3, <3>1 DEF ToSet
  <2>3. QED
    BY <2>1, <2>2
<1>6. Once(q) => Once(t)
  <2>1. ASSUME Once(q), NEW i \in 1..n, NEW j \in 1..n, t[i] = t[j] PROVE i = j
    <3>1. t[i] = q[a + i - 1] /\ t[j] = q[a + j - 1]
      BY <1>2, <1>4
    <3>2. a + i - 1 \in DOMAIN q /\ a + j - 1 \in DOMAIN q
      BY <1>1, <1>4
    <3>3. a + i - 1 = a + j - 1
      BY <2>1, <3>1, <3>2 DEF Once
    <3>4. QED
      BY <1>4, <3>3
  <2>2. QED
    BY <1>3, <2>1 DEF Once
<1>7. QED
  BY <1>2, <1>5, <1>6 DEF t

(* A finite set of numbers has an increasing enumeration.                   *)
LEMMA Enumerated ==
  ASSUME NEW n \in Nat, NEW P \in SUBSET (1..n)
  PROVE  \E at \in [1..Cardinality(P) -> P] :
           \A j, k \in DOMAIN at : j < k => at[j] < at[k]
<1> DEFINE c        == Cardinality(P)
           upTo(i)  == {j \in P : j <= i}
           rank     == [i \in P |-> Cardinality(upTo(i))]
<1>0. \A k \in P : k \in Int
  OBVIOUS
<1>1. IsFiniteSet(P) /\ c \in Nat /\ IsFiniteSet(1..c) /\ Cardinality(1..c) = c
  <2>1. IsFiniteSet(1..n)
    BY FS_Interval
  <2>2. IsFiniteSet(P) /\ c \in Nat
    BY <2>1, FS_Subset, FS_CardinalityType
  <2> HIDE DEF c
  <2>3. IsFiniteSet(1..c) /\ Cardinality(1..c) = IF 1 > c THEN 0 ELSE c - 1 + 1
    BY <2>2, FS_Interval
  <2>4. QED
    BY <2>2, <2>3
<1>2. ASSUME NEW i \in P
      PROVE  /\ IsFiniteSet(upTo(i)) /\ rank[i] = Cardinality(upTo(i))
             /\ rank[i] \in 1..c
  <2>1. upTo(i) \in SUBSET P /\ i \in upTo(i)
    OBVIOUS
  <2>2. IsFiniteSet(upTo(i)) /\ Cardinality(upTo(i)) <= c
    BY <1>1, <2>1, FS_Subset
  <2>3. Cardinality(upTo(i)) \in Nat /\ Cardinality(upTo(i)) # 0
    BY <2>1, <2>2, FS_CardinalityType, FS_EmptySet
  <2> HIDE DEF upTo, c
  <2>4. Cardinality(upTo(i)) \in 1..c
    BY <1>1, <2>2, <2>3
  <2>5. QED
    BY <2>2, <2>4
<1>3. ASSUME NEW i \in P, NEW j \in P, i < j PROVE rank[i] < rank[j]
  <2>1. upTo(i) \in SUBSET upTo(j) /\ j \in upTo(j) /\ j \notin upTo(i)
    <3>1. \A k \in P : k \in Int
      BY <1>0
    <3>2. j <= j /\ ~(j <= i) /\ \A k \in P : k <= i => k <= j
      BY <1>3, <3>1
    <3>3. QED
      BY <3>2
  <2>2. Cardinality(upTo(i)) <= Cardinality(upTo(j)) /\ Cardinality(upTo(i)) # Cardinality(upTo(j))
    BY <1>2, <2>1, FS_Subset
  <2> HIDE DEF upTo, c, rank
  <2>3. rank[i] <= rank[j] /\ rank[i] # rank[j] /\ rank[i] \in Int /\ rank[j] \in Int
    BY <1>1, <1>2, <2>2
  <2>4. QED
    BY <2>3
<1>4. rank \in [P -> 1..c]
  <2> HIDE DEF upTo, c
  <2>1. QED
    BY <1>2
<1> HIDE DEF rank, c
<1>5. rank \in Injection(P, 1..c)
  <2>1. ASSUME NEW i \in P, NEW j \in P, rank[i] = rank[j] PROVE i = j
    <3>1. \A k \in 1..c : ~(k < k)
      BY <1>1
    <3>2. ~(i < j) /\ ~(j < i)
      BY <1>2, <1>3, <2>1, <3>1
    <3>3. QED
      BY <1>0, <3>2
  <2>2. QED
    BY <1>4, <2>1, Fun_IsInj
<1>6. \A k \in 1..c : \E i \in P : rank[i] = k
  <2>1. rank \in Surjection(P, 1..c)
    BY <1>1, <1>5, FS_Injection DEF c
  <2>2. QED
    BY <2>1, Fun_SurjectionProperties
<1> DEFINE at == [k \in 1..c |-> CHOOSE i \in P : rank[i] = k]
<1>7. \A k \in 1..c : at[k] \in P /\ rank[at[k]] = k
  BY <1>6
<1>8. at \in [1..c -> P]
  BY <1>7
<1> HIDE DEF at
<1>9. ASSUME NEW j \in 1..c, NEW k \in 1..c, j < k PROVE at[j] < at[k]
  <2>1. at[j] \in P /\ at[k] \in P /\ rank[at[j]] < rank[at[k]]
    BY <1>7, <1>9
  <2>2. at[j] \in Int /\ at[k] \in Int
    BY <1>0, <2>1
  <2>3. \A l, m \in 1..c : ~(l < l) /\ ~(l < m /\ m < l)
    BY <1>1
  <2>4. at[j] # at[k] /\ ~(at[k] < at[j])
    BY <1>2, <1>3, <2>1, <2>3
  <2>5. QED
    BY <2>2, <2>4
<1>10. QED
  BY <1>8, <1>9 DEF c

(* The queue that remains.                                                  *)
LEMMA Retained ==
  ASSUME NEW S, NEW q \in Seq(S), NEW P \in SUBSET DOMAIN q
  PROVE  /\ Retain(q, P) \in Seq(S)
         /\ ToSet(Retain(q, P)) = {q[i] : i \in P}
         /\ Once(q) => Once(Retain(q, P))
<1> DEFINE at == InOrder(P)
           c  == Cardinality(P)
<1>1. Len(q) \in Nat /\ DOMAIN q = 1..Len(q) /\ P \in SUBSET (1..Len(q)) /\ P \in SUBSET Int
  BY LenProperties
<1>2. at \in [1..c -> P] /\ \A j, k \in DOMAIN at : j < k => at[j] < at[k]
  BY <1>1, Enumerated DEF InOrder
<1>3. IsFiniteSet(P) /\ c \in Nat /\ IsFiniteSet(1..c) /\ Cardinality(1..c) = c
  <2>1. IsFiniteSet(1..Len(q))
    BY <1>1, FS_Interval
  <2>2. IsFiniteSet(P) /\ c \in Nat
    BY <1>1, <2>1, FS_Subset, FS_CardinalityType
  <2> HIDE DEF c
  <2>3. IsFiniteSet(1..c) /\ Cardinality(1..c) = IF 1 > c THEN 0 ELSE c - 1 + 1
    BY <2>2, FS_Interval
  <2>4. QED
    BY <2>2, <2>3
<1> HIDE DEF at
<1>4. at \in Injection(1..c, P)
  <2>1. ASSUME NEW j \in 1..c, NEW k \in 1..c, at[j] = at[k] PROVE j = k
    <3>1. at[j] \in Int /\ ~(j < k) /\ ~(k < j)
      <4>1. at[j] \in Int /\ at[k] \in Int /\ ~(at[j] < at[k]) /\ ~(at[k] < at[j])
        BY <1>1, <1>2, <2>1
      <4>2. QED
        BY <1>2, <4>1
    <3>2. QED
      BY <3>1
  <2>2. QED
    BY <1>2, <2>1, Fun_IsInj
<1>5. at \in Surjection(1..c, P)
  BY <1>3, <1>4, FS_Injection DEF c
<1>6. /\ \A i \in P : \E k \in 1..c : at[k] = i
      /\ \A k \in 1..c : at[k] \in P /\ q[at[k]] \in S
      /\ \A j, k \in 1..c : at[j] = at[k] => j = k
  <2>1. \A i \in P : \E k \in 1..c : at[k] = i
    <3> HIDE DEF c
    <3>1. QED
      BY <1>5 DEF Surjection
  <2>2. \A k \in 1..c : at[k] \in P /\ q[at[k]] \in S
    BY <1>1, <1>2
  <2>3. \A j, k \in 1..c : at[j] = at[k] => j = k
    BY <1>4, Fun_InjectionProperties
  <2>4. QED
    BY <2>1, <2>2, <2>3
<1> DEFINE t == [k \in 1..c |-> q[at[k]]]
<1>7. Retain(q, P) = t
  BY <1>2 DEF Retain, at
<1>8. t \in Seq(S) /\ DOMAIN t = 1..c /\ \A k \in 1..c : t[k] = q[at[k]]
  BY <1>3, <1>6
<1> HIDE DEF t, c
<1>9. ToSet(t) = {q[i] : i \in P}
  BY <1>6, <1>8 DEF ToSet
<1>10. Once(q) => Once(t)
  BY <1>1, <1>6, <1>8 DEF Once
<1>11. QED
  BY <1>7, <1>8, <1>9, <1>10

(* Answers to a queue of requests.                                          *)
LEMMA Replied ==
  ASSUME NEW q \in Seq(Request), NEW kind \in Kinds
  PROVE  /\ Replies(q, kind) \in Seq(Response)
         /\ ToSet(Replies(q, kind)) = {Reply(x, kind) : x \in ToSet(q)}
         /\ Once(q) => Once(Replies(q, kind))
<1> DEFINE t == Replies(q, kind)
<1>1. Len(q) \in Nat /\ DOMAIN q = 1..Len(q) /\ \A i \in 1..Len(q) : q[i] \in Request
  BY LenProperties
<1>2. t = [i \in 1..Len(q) |-> Reply(q[i], kind)]
  BY <1>1 DEF Replies
<1>3. \A x \in Request : Reply(x, kind) \in Response /\ Reply(x, kind).req = x
  BY DEF Reply, Response
<1>4. t \in Seq(Response) /\ DOMAIN t = 1..Len(q) /\ \A i \in 1..Len(q) : t[i] = Reply(q[i], kind)
  <2>1. \A i \in 1..Len(q) : Reply(q[i], kind) \in Response
    BY <1>1, <1>3
  <2>2. QED
    BY <1>1, <1>2, <2>1
<1> HIDE DEF t
<1>5. ToSet(t) = {Reply(x, kind) : x \in ToSet(q)}
  BY <1>1, <1>4 DEF ToSet
<1>6. Once(q) => Once(t)
  BY <1>1, <1>3, <1>4 DEF Once
<1>7. QED
  BY <1>4, <1>5, <1>6 DEF t

Among(H, n) == IF \E x \in H : x.n = n THEN 1 ELSE 0

(* How often a number occurs among requests that differ in their numbers.   *)
LEMMA Counted ==
  ASSUME NEW q \in Seq(Request), Once(q), NEW n,
         \A x, y \in ToSet(q) : x.n = y.n => x = y
  PROVE  Cardinality({i \in DOMAIN q : q[i].n = n}) = Among(ToSet(q), n)
<1> DEFINE P == {i \in DOMAIN q : q[i].n = n}
<1>1. CASE \E x \in ToSet(q) : x.n = n
  <2>1. PICK i \in DOMAIN q : q[i].n = n
    BY <1>1 DEF ToSet
  <2>2. ASSUME NEW j \in P PROVE j = i
    <3>1. q[i] \in ToSet(q) /\ q[j] \in ToSet(q)
      BY DEF ToSet
    <3>2. q[i] = q[j]
      BY <2>1, <3>1
    <3>3. QED
      BY <2>1, <3>2 DEF Once
  <2>3. P = {i}
    BY <2>1, <2>2
  <2>4. QED
    BY <1>1, <2>3, FS_Singleton DEF Among
<1>2. CASE ~\E x \in ToSet(q) : x.n = n
  <2>1. P = {}
    BY <1>2 DEF ToSet
  <2>2. QED
    BY <1>2, <2>1, FS_EmptySet DEF Among
<1>3. QED
  BY <1>1, <1>2

-----------------------------------------------------------------------------
(* The inductive invariant.                                                 *)

WorkerPc == {"Accept", "Purge", "Drain", "Write", "Frame"}
MainPc   == {"Idle", "Drain", "Serve", "Flush"}

(* What the two threads hold: requests, or answers.                         *)
Asked    == IF WorkerAt("Write") THEN <<>> ELSE worker.held
Writing  == IF WorkerAt("Write") THEN worker.held ELSE <<>>
Serving  == IF MainAt("Flush") THEN <<>> ELSE main.held
Flushing == IF MainAt("Flush") THEN main.held ELSE <<>>

TypeOK ==
  /\ inbox \in Seq(Request) /\ outbox \in Seq(Response)
  /\ activeIds \subseteq Ids /\ generation \in Nat /\ open \in BOOLEAN
  /\ worker \in [pc : WorkerPc, gen : Nat, held : Seq(Request) \cup Seq(Response)]
  /\ main \in [pc : MainPc, gen : Nat, held : Seq(Request) \cup Seq(Response)]
  /\ Asked \in Seq(Request) /\ Writing \in Seq(Response)
  /\ Serving \in Seq(Request) /\ Flushing \in Seq(Response)
  /\ topic \in [in : Seq(Request), out : Seq(Response)]
  /\ runtimeGate \in BOOLEAN /\ retired \in BOOLEAN
  /\ frames \in Seq(Request) /\ Len(frames) <= MaxFrames
  /\ written \subseteq [req : Request, kind : Kinds, to : Nat]
  /\ dropped \subseteq Numbers /\ careless \subseteq Numbers /\ stale \subseteq Numbers
  /\ handled \in [Numbers -> Nat]

Fresh == \A n \in DOMAIN frames : frames[n].gen # generation

Shape ==
  /\ worker.gen = generation /\ main.gen <= generation
  /\ worker.pc \in {"Accept", "Purge", "Drain"} => worker.held = <<>>
  /\ WorkerAt("Frame") => worker.held # <<>> /\ worker.held = <<Head(worker.held)>>
  /\ main.pc \in {"Idle", "Drain"} => main.held = <<>>
  /\ WorkerAt("Purge") => Fresh
  /\ retired => topic.in = <<>>

(* No place holds anything twice, and no two places hold the same.          *)
Apart ==
  /\ Once(Asked) /\ Once(inbox) /\ Once(Serving) /\ Once(topic.in)
  /\ Once(topic.out) /\ Once(Flushing) /\ Once(outbox) /\ Once(Writing)
  /\ ToSet(Asked) \cap (ToSet(inbox) \cup ToSet(Serving) \cup ToSet(topic.in)) = {}
  /\ ToSet(inbox) \cap (ToSet(Serving) \cup ToSet(topic.in)) = {}
  /\ ToSet(Serving) \cap ToSet(topic.in) = {}
  /\ ToSet(topic.out) \cap (ToSet(Flushing) \cup ToSet(outbox) \cup ToSet(Writing)) = {}
  /\ ToSet(Flushing) \cap (ToSet(outbox) \cup ToSet(Writing)) = {}
  /\ ToSet(outbox) \cap ToSet(Writing) = {}

(* Whose requests and what answers a place may hold.                        *)
FromTopic(r) == r.kind \in {"handled", "unavailable"}

Origin ==
  /\ \A x \in ToSet(Asked) : x.gen = generation
  /\ \A x \in ToSet(Serving) : x.gen = main.gen
  /\ \A x \in ToSet(topic.in) : x.gen <= main.gen
  /\ \A r \in ToSet(topic.out) : r.req.gen <= main.gen /\ FromTopic(r)
  /\ \A r \in ToSet(Flushing) : FromTopic(r)

(* All that is not answered yet, and all that is not written yet.           *)
Pending == ToSet(Asked) \cup ToSet(inbox) \cup ToSet(Serving) \cup ToSet(topic.in)
Answers == ToSet(topic.out) \cup ToSet(Flushing) \cup ToSet(outbox) \cup ToSet(Writing)

IsFrame(x) == x.n \in DOMAIN frames /\ frames[x.n] = x

Genuine ==
  /\ \A n \in DOMAIN frames : frames[n].n = n /\ frames[n].gen <= generation
  /\ \A x \in Pending : IsFrame(x)
  /\ \A r \in Answers \cup written : IsFrame(r.req)
  /\ \A w \in written : w.to = w.req.gen

(* A frame has one answer at most, and then is not pending.                 *)
Unique ==
  /\ \A r \in Answers \cup written : r.req \notin Pending
  /\ \A r, s \in Answers : r.req = s.req => r = s
  /\ \A v, w \in written : v.req = w.req => v = w
  /\ \A r \in Answers, w \in written : r.req # w.req

(* What the handler has to do with it.                                      *)
Explained(r) ==
  /\ r.kind = "handled" => handled[r.req.n] = 1
  /\ ~FromTopic(r) => handled[r.req.n] = 0

HandlerInv ==
  /\ \A n \in Numbers : handled[n] <= 1
  /\ \A n \in Numbers : n \notin DOMAIN frames => handled[n] = 0
  /\ \A x \in Pending : handled[x.n] = 0
  /\ \A r \in Answers \cup written : Explained(r)

Accounted(n) ==
  \/ frames[n] \in Pending \/ \E r \in Answers : r.req = frames[n]
  \/ n \in dropped \cup stale \/ \E w \in written : w.req = frames[n]

NothingLost ==
  ~WorkerAt("Accept") =>
    \A n \in DOMAIN frames : frames[n].gen = generation => Accounted(n)

(* An id is active because of a frame that waits for its answer, and not    *)
(* for one without an id.                                                   *)
Waits(n) ==
  /\ frames[n].gen = generation /\ frames[n] \notin ToSet(Asked)
  /\ \A r \in Answers : r.req = frames[n] => r.kind # "nameless"
  /\ \A w \in written : w.req # frames[n]

ActiveInv ==
  worker.pc \notin {"Accept", "Purge"} =>
    \A id \in activeIds : \E n \in DOMAIN frames : frames[n].id = id /\ Waits(n)

CarelessInv ==
  /\ \A r \in Answers \cup written : r.kind = "duplicate" => r.req.n \in careless
  /\ \A x \in ToSet(Asked) : x.id \in activeIds => x.n \in careless

(* The frames of the live connection that went to the topic.                *)
Freed(id) == \E w \in written : /\ w.kind \in {"duplicate", "undelivered"}
                                /\ w.req.id = id /\ w.to = generation

Busy(n) ==
  /\ frames[n].gen = generation
  /\ \/ frames[n] \in Pending \ ToSet(Asked)
     \/ \E r \in Answers : r.req = frames[n] /\ FromTopic(r)

BusyInv ==
  \A n \in DOMAIN frames : Busy(n) /\ ~Freed(frames[n].id) =>
    /\ frames[n].id \in activeIds
    /\ \A m \in DOMAIN frames : Busy(m) /\ frames[m].id = frames[n].id => m = n

Ledger == Genuine /\ Unique /\ HandlerInv /\ NothingLost /\ ActiveInv /\ CarelessInv /\ BusyInv

IInv == TypeOK /\ Shape /\ Apart /\ Origin /\ Ledger

-----------------------------------------------------------------------------
(* What the invariant says after a step, in terms of the sets of requests   *)
(* and of answers.                                                          *)

(* What the places hold has its type.                                       *)
LEMMA Places ==
  ASSUME TypeOK
  PROVE  /\ \A x \in Pending : x \in Request
         /\ \A r \in Answers : r \in Response
         /\ ToSet(Asked) \subseteq Pending
         /\ \A n \in DOMAIN frames : n \in Numbers /\ frames[n] \in Request
<1>1. ASSUME NEW S, NEW q \in Seq(S) PROVE ToSet(q) \subseteq S
  <2>1. DOMAIN q = 1..Len(q) /\ \A i \in 1..Len(q) : q[i] \in S
    BY LenProperties
  <2>2. QED
    BY <2>1 DEF ToSet
<1>2. /\ ToSet(Asked) \subseteq Request /\ ToSet(inbox) \subseteq Request
      /\ ToSet(Serving) \subseteq Request /\ ToSet(topic.in) \subseteq Request
  BY <1>1 DEF TypeOK
<1>3. /\ ToSet(Writing) \subseteq Response /\ ToSet(outbox) \subseteq Response
      /\ ToSet(Flushing) \subseteq Response /\ ToSet(topic.out) \subseteq Response
  BY <1>1 DEF TypeOK
<1>4. \A n \in DOMAIN frames : n \in Numbers /\ frames[n] \in Request
  <2>1. frames \in Seq(Request) /\ Len(frames) <= MaxFrames
    BY DEF TypeOK
  <2>2. /\ Len(frames) \in Nat /\ DOMAIN frames = 1..Len(frames)
        /\ \A i \in 1..Len(frames) : frames[i] \in Request
    BY <2>1, LenProperties
  <2>3. QED
    BY <2>1, <2>2, TransportAssumption DEF Numbers
<1>5. QED
  BY <1>2, <1>3, <1>4 DEF Pending, Answers

(* Requests and answers of other connections are dropped, or what is        *)
(* dropped is accounted for.                                                *)
LEMMA LoseSome ==
  ASSUME IInv,
         UNCHANGED <<activeIds, generation, frames, careless, written, handled>>,
         dropped \subseteq dropped', stale \subseteq stale',
         worker.pc = "Accept" => worker'.pc = "Accept",
         worker.pc \in {"Accept", "Purge"} => worker'.pc \in {"Accept", "Purge"},
         ToSet(Asked)' = ToSet(Asked), Pending' \subseteq Pending, Answers' \subseteq Answers,
         \A x \in Pending \ Pending' : x.gen = generation => x.n \in stale',
         worker'.pc # "Accept" =>
           \A r \in Answers \ Answers' : r.req.gen = generation => r.req.n \in dropped'
  PROVE  Ledger'
<1>1. TypeOK /\ Genuine /\ Unique /\ HandlerInv /\ NothingLost /\ ActiveInv /\ CarelessInv /\ BusyInv
  BY DEF IInv, Ledger
<1>2. Genuine'
  BY <1>1 DEF Genuine, IsFrame
<1>3. Unique'
  BY <1>1 DEF Unique
<1>4. HandlerInv'
  BY <1>1 DEF HandlerInv, Explained, FromTopic
<1>5. NothingLost'
  <2>1. ASSUME worker'.pc # "Accept", NEW n \in DOMAIN frames, frames[n].gen = generation
        PROVE  Accounted(n)'
    <3>1. Accounted(n) /\ frames[n].n = n
      BY <1>1, <2>1 DEF NothingLost, WorkerAt, Genuine
    <3>2. CASE frames[n] \in Pending
      BY <2>1, <3>1, <3>2 DEF Accounted
    <3>3. CASE \E r \in Answers : r.req = frames[n]
      BY <2>1, <3>1, <3>3 DEF Accounted
    <3>4. CASE n \in dropped \cup stale \/ \E w \in written : w.req = frames[n]
      BY <3>4 DEF Accounted
    <3>5. QED
      BY <3>1, <3>2, <3>3, <3>4 DEF Accounted
  <2>2. QED
    BY <2>1 DEF NothingLost, WorkerAt
<1>6. ActiveInv'
  BY <1>1 DEF ActiveInv, Waits
<1>7. CarelessInv'
  BY <1>1 DEF CarelessInv
<1>8. BusyInv'
  <2>1. \A n \in DOMAIN frames : Busy(n)' => Busy(n)
    BY DEF Busy
  <2>2. \A id : Freed(id)' <=> Freed(id)
    BY DEF Freed
  <2>3. QED
    BY <1>1, <2>1, <2>2 DEF BusyInv
<1>9. QED
  BY <1>2, <1>3, <1>4, <1>5, <1>6, <1>7, <1>8 DEF Ledger

(* A new connection, of which there is no frame yet.                        *)
LEMMA LoseOld ==
  ASSUME IInv, Fresh',
         UNCHANGED <<frames, careless, written, dropped, stale, handled>>,
         generation' \in Nat, generation <= generation',
         worker'.pc = "Purge" \/ activeIds' = {},
         ToSet(Asked)' = {}, Pending' \subseteq Pending, Answers' \subseteq Answers
  PROVE  Ledger'
<1>1. /\ TypeOK /\ Genuine /\ Unique /\ HandlerInv /\ NothingLost
      /\ ActiveInv /\ CarelessInv /\ BusyInv
      /\ generation \in Nat
  BY DEF IInv, Ledger, TypeOK
<1>2. Genuine'
  <2>1. \A n \in DOMAIN frames : frames[n].gen \in Nat
    BY <1>1, Places DEF Request
  <2>2. \A n \in DOMAIN frames : frames[n].n = n /\ frames[n].gen <= generation'
    BY <1>1, <2>1 DEF Genuine
  <2>3. QED
    BY <1>1, <2>2 DEF Genuine, IsFrame
<1>3. Unique'
  BY <1>1 DEF Unique
<1>4. HandlerInv'
  BY <1>1 DEF HandlerInv, Explained, FromTopic
<1>5. NothingLost'
  BY DEF NothingLost, Fresh
<1>6. ActiveInv'
  BY DEF ActiveInv
<1>7. CarelessInv'
  BY <1>1 DEF CarelessInv
<1>8. BusyInv'
  <2>1. \A n \in DOMAIN frames' : ~Busy(n)'
    BY DEF Busy, Fresh
  <2>2. QED
    BY <2>1 DEF BusyInv
<1>9. QED
  BY <1>2, <1>3, <1>4, <1>5, <1>6, <1>7, <1>8 DEF Ledger

(* A request gets its answer, not from the handler, or that is dropped.     *)
LEMMA AnswerOne ==
  ASSUME IInv, NEW q \in Pending, NEW kind \in Kinds \ {"handled"},
         UNCHANGED <<generation, frames, careless, written, stale, handled>>,
         worker.pc = "Accept" => worker'.pc = "Accept",
         worker.pc \in {"Accept", "Purge"} => worker'.pc \in {"Accept", "Purge"},
         ToSet(Asked)' = ToSet(Asked) \ {q}, Pending' = Pending \ {q},
         \/ Answers' = Answers \cup {Reply(q, kind)} /\ dropped' = dropped
         \/ Answers' = Answers /\ dropped' = dropped \cup {q.n},
         kind = "duplicate" => q \in ToSet(Asked) /\ q.id \in activeIds,
         kind = "nameless" => q \in ToSet(Asked),
         kind = "unavailable" => q \notin ToSet(Asked),
         \/ activeIds' = activeIds
         \/ /\ activeIds' = activeIds \cup {q.id} /\ kind = "undelivered"
            /\ q \in ToSet(Asked) /\ ToSet(Asked)' = {}
  PROVE  Ledger'
<1> DEFINE e == Reply(q, kind)
<1>1. /\ TypeOK /\ Genuine /\ Unique /\ HandlerInv /\ NothingLost
      /\ ActiveInv /\ CarelessInv /\ BusyInv
      /\ q \in Request /\ e.req = q /\ e.kind = kind /\ IsFrame(q)
      /\ \A x \in ToSet(Asked) : x.gen = generation
  BY Places DEF IInv, Ledger, Reply, Genuine, Origin
<1>2. q.n \in Numbers /\ q.n \in DOMAIN frames /\ frames[q.n] = q
  BY <1>1 DEF Request, IsFrame
<1>3. \A r \in Answers' : r \in Answers \/ r = e
  OBVIOUS
<1>4. Answers \subseteq Answers'
  OBVIOUS
<1> HIDE DEF e
<1>5. Genuine'
  BY <1>1, <1>3 DEF Genuine, IsFrame
<1>6. Unique'
  <2>1. \A r \in Answers \cup written : r.req # q
    BY <1>1 DEF Unique
  <2>2. QED
    BY <1>1, <1>3, <2>1 DEF Unique
<1>7. HandlerInv'
  <2>1. handled[q.n] = 0
    BY <1>1 DEF HandlerInv
  <2>2. Explained(e)'
    BY <1>1, <2>1 DEF Explained, FromTopic
  <2>3. \A r \in Answers \cup written : Explained(r)'
    BY <1>1 DEF HandlerInv, Explained, FromTopic
  <2>4. \A r \in Answers' \cup written' : Explained(r)'
    BY <1>3, <2>2, <2>3
  <2>5. QED
    BY <1>1, <2>4 DEF HandlerInv
<1>8. NothingLost'
  <2>1. ASSUME worker'.pc # "Accept", NEW n \in DOMAIN frames, frames[n].gen = generation
        PROVE  Accounted(n)'
    <3>1. Accounted(n) /\ frames[n].n = n
      BY <1>1, <2>1 DEF NothingLost, WorkerAt, Genuine
    <3>2. CASE frames[n] = q
      BY <1>1, <3>1, <3>2 DEF Accounted, e
    <3>3. CASE frames[n] # q
      BY <1>4, <3>1, <3>3 DEF Accounted
    <3>4. QED
      BY <3>2, <3>3
  <2>2. QED
    BY <2>1 DEF NothingLost, WorkerAt
<1>9. ActiveInv'
  <2>1. ASSUME NEW n \in DOMAIN frames, Waits(n) PROVE Waits(n)'
    <3>1. frames[n] = q => kind # "nameless"
      BY <2>1 DEF Waits
    <3>2. \A r \in Answers' : r.req = frames[n] => r.kind # "nameless"
      BY <1>1, <1>3, <2>1, <3>1 DEF Waits
    <3>3. QED
      BY <2>1, <3>2 DEF Waits
  <2>2. ASSUME kind = "undelivered", q \in ToSet(Asked) PROVE Waits(q.n)'
    <3>1. \A r \in Answers' : r.req = q => r.kind # "nameless"
      BY <1>1, <1>3, <2>2 DEF Unique
    <3>2. \A w \in written : w.req # q
      BY <1>1 DEF Unique
    <3>3. QED
      BY <1>1, <1>2, <2>2, <3>1, <3>2 DEF Waits
  <2>3. ASSUME worker'.pc \notin {"Accept", "Purge"}, NEW id \in activeIds'
        PROVE  \E n \in DOMAIN frames : frames[n].id = id /\ Waits(n)'
    <3>1. CASE id \in activeIds
      BY <1>1, <2>1, <2>3, <3>1 DEF ActiveInv
    <3>2. CASE id \notin activeIds
      BY <1>2, <2>2, <2>3, <3>2
    <3>3. QED
      BY <3>1, <3>2
  <2>4. QED
    BY <2>3 DEF ActiveInv
<1>10. CarelessInv'
  <2>1. e.kind = "duplicate" => e.req.n \in careless
    BY <1>1 DEF CarelessInv
  <2>2. \A r \in Answers' \cup written' : r.kind = "duplicate" => r.req.n \in careless'
    BY <1>1, <1>3, <2>1 DEF CarelessInv
  <2>3. \A x \in ToSet(Asked)' : x.id \in activeIds' => x.n \in careless'
    BY <1>1 DEF CarelessInv
  <2>4. QED
    BY <2>2, <2>3 DEF CarelessInv
<1>11. BusyInv'
  <2>1. ASSUME NEW n \in DOMAIN frames, Busy(n)' PROVE Busy(n)
    <3>1. FromTopic(e) => q \in Pending \ ToSet(Asked)
      BY <1>1 DEF FromTopic
    <3>2. \A r \in Answers' : r.req = frames[n] /\ FromTopic(r) =>
            r \in Answers \/ frames[n] \in Pending \ ToSet(Asked)
      BY <1>1, <1>3, <3>1
    <3>3. QED
      BY <2>1, <3>2 DEF Busy, FromTopic
  <2>2. \A id : Freed(id)' <=> Freed(id)
    BY DEF Freed
  <2>3. activeIds \subseteq activeIds'
    OBVIOUS
  <2>4. QED
    BY <1>1, <2>1, <2>2, <2>3 DEF BusyInv
<1>12. QED
  BY <1>5, <1>6, <1>7, <1>8, <1>9, <1>10, <1>11 DEF Ledger

(* A request whose id was free enters the inbox.                            *)
LEMMA DeliverOne ==
  ASSUME IInv, NEW q \in ToSet(Asked), q.id \notin activeIds,
         UNCHANGED <<generation, frames, careless, written, dropped, stale, handled>>,
         activeIds' = activeIds \cup {q.id},
         worker.pc \notin {"Accept", "Purge"},
         ToSet(Asked) = {q}, ToSet(Asked)' = {}, Pending' = Pending, Answers' = Answers
  PROVE  Ledger'
<1>1. /\ TypeOK /\ Genuine /\ Unique /\ HandlerInv /\ NothingLost
      /\ ActiveInv /\ CarelessInv /\ BusyInv
      /\ q \in Pending /\ q \in Request /\ IsFrame(q) /\ q.gen = generation
  BY Places DEF IInv, Ledger, Genuine, Origin
<1>2. q.n \in DOMAIN frames /\ frames[q.n] = q
  BY <1>1 DEF IsFrame
<1>3. Genuine' /\ Unique'
  BY <1>1 DEF Genuine, IsFrame, Unique
<1>4. HandlerInv'
  BY <1>1 DEF HandlerInv, Explained, FromTopic
<1>5. NothingLost'
  BY <1>1 DEF NothingLost, Accounted, WorkerAt
<1>6. ActiveInv'
  <2>1. \A n \in DOMAIN frames : Waits(n) => Waits(n)'
    BY DEF Waits
  <2>2. Waits(q.n)'
    BY <1>1, <1>2 DEF Waits, Unique
  <2>3. QED
    BY <1>1, <1>2, <2>1, <2>2 DEF ActiveInv
<1>7. CarelessInv'
  BY <1>1 DEF CarelessInv
<1>8. BusyInv'
  <2>1. \A n \in DOMAIN frames : Busy(n)' => Busy(n) \/ n = q.n
    <3>1. \A n \in DOMAIN frames : frames[n].n = n
      BY <1>1 DEF Genuine
    <3>2. QED
      BY <1>2, <3>1 DEF Busy, FromTopic
  <2>2. \A id : Freed(id)' <=> Freed(id)
    BY DEF Freed
  <2>3. \A n \in DOMAIN frames : Busy(n) /\ ~Freed(frames[n].id) =>
          frames[n].id \in activeIds /\ frames[n].id # q.id
    BY <1>1 DEF BusyInv
  <2>4. ASSUME NEW n \in DOMAIN frames, Busy(n)', ~Freed(frames[n].id)
        PROVE  /\ frames[n].id \in activeIds'
               /\ \A m \in DOMAIN frames : Busy(m)' /\ frames[m].id = frames[n].id => m = n
    <3>1. CASE n = q.n
      BY <1>2, <2>1, <2>3, <2>4, <3>1
    <3>2. CASE n # q.n
      BY <1>1, <1>2, <2>1, <2>3, <2>4, <3>2 DEF BusyInv
    <3>3. QED
      BY <3>1, <3>2
  <2>5. QED
    BY <2>2, <2>4 DEF BusyInv
<1>9. QED
  BY <1>3, <1>4, <1>5, <1>6, <1>7, <1>8 DEF Ledger

(* A frame is read.                                                         *)
LEMMA ReadOne ==
  ASSUME IInv, NEW q \in Request, q.n = Len(frames) + 1, q.gen = generation,
         frames' = Append(frames, q),
         careless' = IF q.id \in Unanswered THEN careless \cup {q.n} ELSE careless,
         UNCHANGED <<generation, activeIds, written, dropped, stale, handled>>,
         worker.pc \notin {"Accept", "Purge"}, worker'.pc \notin {"Accept", "Purge"},
         worker.gen = generation,
         ToSet(Asked) = {}, ToSet(Asked)' = {q}, Pending' = Pending \cup {q}, Answers' = Answers
  PROVE  Ledger'
<1>1. /\ TypeOK /\ Genuine /\ Unique /\ HandlerInv /\ NothingLost
      /\ ActiveInv /\ CarelessInv /\ BusyInv
      /\ generation \in Nat
  BY DEF IInv, Ledger, TypeOK
<1> DEFINE D == DOMAIN frames
<1>2. /\ DOMAIN frames' = D \cup {q.n} /\ q.n \notin D /\ frames'[q.n] = q
      /\ \A n \in D : frames'[n] = frames[n]
  <2>1. frames \in Seq(Request)
    BY <1>1 DEF TypeOK
  <2>2. /\ Len(frames') = Len(frames) + 1 /\ frames' \in Seq(Request)
        /\ \A i \in 1..Len(frames) : frames'[i] = frames[i]
        /\ frames'[Len(frames) + 1] = q
    BY <2>1, AppendProperties
  <2>3. Len(frames) \in Nat /\ D = 1..Len(frames) /\ DOMAIN frames' = 1..Len(frames')
    BY <2>1, <2>2, LenProperties
  <2>4. QED
    BY <2>2, <2>3
<1>3. q.n \in Numbers /\ q.id \in Ids
  BY DEF Request
<1>4. /\ \A x \in Pending : x # q /\ x.n \in D
      /\ \A r \in Answers \cup written : r.req # q /\ r.req.n \in D
      /\ \A n \in D : frames[n] # q
  BY <1>1, <1>2 DEF Genuine, IsFrame
<1> HIDE DEF D
<1>5. Genuine'
  <2>1. \A n \in DOMAIN frames' : frames'[n].n = n /\ frames'[n].gen <= generation
    BY <1>1, <1>2 DEF Genuine, D
  <2>2. \A x : IsFrame(x) => IsFrame(x)'
    BY <1>2 DEF IsFrame, D
  <2>3. IsFrame(q)'
    BY <1>2 DEF IsFrame
  <2>4. \A w \in written : w.to = w.req.gen
    BY <1>1 DEF Genuine
  <2>5. /\ \A x \in Pending : IsFrame(x)'
        /\ \A r \in Answers \cup written : IsFrame(r.req)'
    BY <1>1, <2>2 DEF Genuine
  <2>6. QED
    BY <2>1, <2>3, <2>4, <2>5 DEF Genuine
<1>6. Unique'
  BY <1>1, <1>4 DEF Unique
<1>7. HandlerInv'
  <2>1. handled[q.n] = 0
    BY <1>1, <1>2, <1>3 DEF HandlerInv, D
  <2>2. \A n \in Numbers : n \notin DOMAIN frames' => handled[n] = 0
    BY <1>1, <1>2 DEF HandlerInv, D
  <2>3. QED
    BY <1>1, <2>1, <2>2 DEF HandlerInv, Explained, FromTopic
<1>8. NothingLost'
  <2>1. \A n \in D : Accounted(n) => Accounted(n)'
    BY <1>2 DEF Accounted
  <2>2. Accounted(q.n)'
    BY <1>2 DEF Accounted
  <2>3. QED
    BY <1>1, <1>2, <2>1, <2>2 DEF NothingLost, WorkerAt, D
<1>9. ActiveInv'
  <2>1. \A n \in D : Waits(n) => Waits(n)'
    BY <1>2, <1>4 DEF Waits
  <2>2. QED
    BY <1>1, <1>2, <2>1 DEF ActiveInv, D
<1>10. CarelessInv'
  <2>1. ASSUME q.id \in activeIds PROVE q.id \in Unanswered
    <3>1. PICK n \in D : frames[n].id = q.id /\ Waits(n)
      BY <1>1, <2>1 DEF ActiveInv, D
    <3>2. \A w \in written : w.req.n # n
      BY <1>1, <3>1 DEF Waits, Genuine, IsFrame
    <3>3. QED
      BY <3>1, <3>2 DEF Unanswered, Waits, D
  <2>2. q.id \in activeIds => q.n \in careless'
    BY <2>1
  <2>3. careless \subseteq careless'
    OBVIOUS
  <2>4. QED
    BY <1>1, <2>2, <2>3 DEF CarelessInv
<1>11. BusyInv'
  <2>1. \A n \in D : Busy(n)' => Busy(n)
    BY <1>2, <1>4 DEF Busy, FromTopic
  <2>2. ~Busy(q.n)'
    BY <1>2, <1>4 DEF Busy
  <2>3. \A id : Freed(id)' <=> Freed(id)
    BY DEF Freed
  <2>4. \A n \in DOMAIN frames' : Busy(n)' => n \in D /\ Busy(n) /\ frames'[n] = frames[n]
    BY <1>2, <2>1, <2>2
  <2>5. QED
    BY <1>1, <2>3, <2>4 DEF BusyInv, D
<1>12. QED
  BY <1>5, <1>6, <1>7, <1>8, <1>9, <1>10, <1>11 DEF Ledger

(* An answer of the live connection is written.                             *)
LEMMA WriteOne ==
  ASSUME IInv, NEW r \in Answers, r.req.gen = generation,
         UNCHANGED <<generation, frames, careless, dropped, stale, handled>>,
         worker'.pc \notin {"Accept", "Purge"}, worker.pc \notin {"Accept", "Purge"},
         activeIds' = IF r.kind = "nameless" THEN activeIds ELSE activeIds \ {r.req.id},
         written' = written \cup {[req |-> r.req, kind |-> r.kind, to |-> generation]},
         ToSet(Asked) = {}, ToSet(Asked)' = {}, Pending' = Pending, Answers' = Answers \ {r}
  PROVE  Ledger'
<1> DEFINE e == [req |-> r.req, kind |-> r.kind, to |-> generation]
<1>1. /\ TypeOK /\ Genuine /\ Unique /\ HandlerInv /\ NothingLost
      /\ ActiveInv /\ CarelessInv /\ BusyInv
      /\ r \in Response /\ IsFrame(r.req)
  BY Places DEF IInv, Ledger, Genuine
<1>2. e.req = r.req /\ e.kind = r.kind /\ e.to = generation
  OBVIOUS
<1>3. \A w \in written' : w \in written \/ w = e
  OBVIOUS
<1>4. written \subseteq written' /\ e \in written' /\ Answers' \subseteq Answers
  OBVIOUS
<1> HIDE DEF e
<1>5. Genuine'
  BY <1>1, <1>2, <1>3 DEF Genuine, IsFrame
<1>6. Unique'
  <2>1. \A s \in Answers' : s.req # r.req
    BY <1>1 DEF Unique
  <2>2. \A w \in written : w.req # r.req
    BY <1>1 DEF Unique
  <2>3. r.req \notin Pending
    BY <1>1 DEF Unique
  <2>4. QED
    BY <1>1, <1>2, <1>3, <1>4, <2>1, <2>2, <2>3 DEF Unique
<1>7. HandlerInv'
  <2>1. \A s : s = e => Explained(s)'
    <3>1. Explained(r)
      BY <1>1 DEF HandlerInv
    <3>2. QED
      BY <1>2, <3>1 DEF Explained, FromTopic
  <2>2. \A s \in Answers \cup written : Explained(s)'
    BY <1>1 DEF HandlerInv, Explained, FromTopic
  <2>3. \A s \in Answers' \cup written' : Explained(s)'
    BY <1>3, <1>4, <2>1, <2>2
  <2>4. QED
    BY <1>1, <2>3 DEF HandlerInv
<1>8. NothingLost'
  <2>1. \A n \in DOMAIN frames : Accounted(n) => Accounted(n)'
    BY <1>2, <1>4 DEF Accounted
  <2>2. QED
    BY <1>1, <2>1 DEF NothingLost, WorkerAt
<1>9. ActiveInv'
  <2>1. ASSUME NEW id \in activeIds' PROVE \E n \in DOMAIN frames : frames[n].id = id /\ Waits(n)'
    <3>1. PICK n \in DOMAIN frames : frames[n].id = id /\ Waits(n)
      BY <1>1, <2>1 DEF ActiveInv
    <3>2. frames[n] # r.req
      BY <2>1, <3>1 DEF Waits
    <3>3. QED
      BY <1>2, <1>3, <1>4, <3>1, <3>2 DEF Waits
  <2>2. QED
    BY <2>1 DEF ActiveInv
<1>10. CarelessInv'
  BY <1>1, <1>2, <1>3, <1>4 DEF CarelessInv
<1>11. BusyInv'
  <2>1. \A n \in DOMAIN frames : Busy(n)' => Busy(n)
    BY <1>4 DEF Busy, FromTopic
  <2>2. \A n \in DOMAIN frames : Busy(n)' => frames[n] # r.req
    <3>1. r.req \notin Pending /\ \A s \in Answers' : s.req # r.req
      BY <1>1 DEF Unique
    <3>2. QED
      BY <3>1 DEF Busy
  <2>3. \A id : Freed(id) => Freed(id)'
    BY <1>4 DEF Freed
  <2>4. CASE FromTopic(r)
    <3>1. r.req.n \in DOMAIN frames /\ frames[r.req.n] = r.req
      BY <1>1 DEF IsFrame
    <3>2. Busy(r.req.n)
      BY <2>4, <3>1 DEF Busy
    <3>3. \A n \in DOMAIN frames : Busy(n)' /\ ~Freed(frames[n].id) => frames[n].id # r.req.id
      BY <1>1, <2>1, <2>2, <3>1, <3>2 DEF BusyInv
    <3>4. \A n \in DOMAIN frames : Busy(n)' /\ ~Freed(frames[n].id) => frames[n].id \in activeIds'
      BY <1>1, <2>1, <3>3 DEF BusyInv
    <3>5. QED
      BY <1>1, <2>1, <2>3, <3>4 DEF BusyInv
  <2>5. CASE r.kind \in {"duplicate", "undelivered"}
    <3>1. Freed(r.req.id)'
      BY <1>1, <1>2, <1>4, <2>5 DEF Freed, Genuine
    <3>2. \A n \in DOMAIN frames : Busy(n)' /\ ~Freed(frames[n].id)' => frames[n].id \in activeIds'
      BY <1>1, <2>1, <2>3, <3>1 DEF BusyInv
    <3>3. QED
      BY <1>1, <2>1, <2>3, <3>2 DEF BusyInv
  <2>6. CASE r.kind = "nameless"
    BY <1>1, <2>1, <2>3, <2>6 DEF BusyInv
  <2>7. QED
    BY <1>1, <2>4, <2>5, <2>6 DEF Response, Kinds, FromTopic
<1>12. QED
  BY <1>5, <1>6, <1>7, <1>8, <1>9, <1>10, <1>11 DEF Ledger

(* The requests T get the answers R, and the handler has had those in H.    *)
Answering(T, R, H) ==
  /\ H \subseteq T
  /\ \A x \in T : \E r \in R : r.req = x
  /\ \A r \in R : r.req \in T /\ FromTopic(r) /\ (r.kind = "handled" => r.req \in H)
  /\ \A r, s \in R : r.req = s.req => r = s

Given(H) ==
  /\ handled' \in [Numbers -> Nat]
  /\ \A n \in Numbers : handled'[n] = handled[n] + Among(H, n)

(* The requests of the topic are answered.                                  *)
LEMMA AnswerTopic ==
  ASSUME IInv, NEW T \in SUBSET Pending, NEW R \in SUBSET Response, NEW H,
         UNCHANGED <<generation, activeIds, worker, frames, careless, written, dropped, stale>>,
         T \cap ToSet(Asked) = {},
         ToSet(Asked)' = ToSet(Asked), Pending' = Pending \ T, Answers' = Answers \cup R,
         Given(H), Answering(T, R, H)
  PROVE  Ledger'
<1>0. /\ handled' \in [Numbers -> Nat]
      /\ \A n \in Numbers : handled'[n] = handled[n] + Among(H, n)
      /\ H \subseteq T
      /\ \A x \in T : \E r \in R : r.req = x
      /\ \A r \in R : r.req \in T /\ FromTopic(r) /\ (r.kind = "handled" => r.req \in H)
      /\ \A r, s \in R : r.req = s.req => r = s
  BY DEF Given, Answering
<1>1. /\ TypeOK /\ Genuine /\ Unique /\ HandlerInv /\ NothingLost
      /\ ActiveInv /\ CarelessInv /\ BusyInv
      /\ handled \in [Numbers -> Nat]
  BY DEF IInv, Ledger, TypeOK
<1>2. \A x \in Pending : x.n \in Numbers /\ IsFrame(x)
  BY <1>1, Places DEF Request, Genuine
<1>3. Answers \subseteq Answers' /\ R \subseteq Answers'
  OBVIOUS
<1>4. \A r \in Answers' : r \in Answers \/ r \in R
  OBVIOUS
<1>5. Genuine'
  BY <1>0, <1>1, <1>2, <1>4 DEF Genuine, IsFrame
<1>6. Unique'
  <2>1. \A r \in R : r.req \in Pending /\ r.req \notin Pending'
    BY <1>0
  <2>2. \A r \in Answers \cup written : r.req \notin Pending /\ r.req \notin Pending'
    BY <1>1 DEF Unique
  <2>3. \A r \in Answers' \cup written' : r.req \notin Pending'
    BY <1>4, <2>1, <2>2
  <2>4. \A r, s \in Answers' : r.req = s.req => r = s
    BY <1>0, <1>1, <1>4, <2>1, <2>2 DEF Unique
  <2>5. \A r \in Answers', w \in written' : r.req # w.req
    BY <1>0, <1>1, <1>4, <2>1, <2>2 DEF Unique
  <2>6. \A v, w \in written' : v.req = w.req => v = w
    BY <1>1 DEF Unique
  <2>7. QED
    BY <2>3, <2>4, <2>5, <2>6 DEF Unique
<1>7. HandlerInv'
  <2>1. \A n \in Numbers : (\E x \in H : x.n = n) => handled[n] = 0 /\ handled'[n] = 1
    BY <1>0, <1>1, <1>2 DEF HandlerInv, Among
  <2>2. \A n \in Numbers : (~\E x \in H : x.n = n) => handled'[n] = handled[n]
    BY <1>0, <1>1 DEF Among
  <2>3. \A x \in Pending, y \in H : x.n = y.n => x = y
    BY <1>0, <1>2 DEF IsFrame
  <2>4. \A x \in Pending : x \notin H => handled'[x.n] = 0
    BY <1>1, <1>2, <2>2, <2>3 DEF HandlerInv
  <2>5. \A n \in Numbers : handled'[n] <= 1
    BY <1>1, <2>1, <2>2 DEF HandlerInv
  <2>6. \A n \in Numbers : n \notin DOMAIN frames => handled'[n] = 0
    BY <1>0, <1>1, <1>2, <2>2 DEF HandlerInv, IsFrame
  <2>7. ASSUME NEW r \in Answers \cup written PROVE Explained(r)'
    <3>1. IsFrame(r.req) /\ r.req \notin Pending /\ Explained(r)
      BY <1>1 DEF Genuine, Unique, HandlerInv
    <3>2. \A x \in H : x.n # r.req.n
      BY <1>0, <1>2, <3>1 DEF IsFrame
    <3>3. r.req.n \in Numbers
      BY <1>1, <3>1, Places DEF IsFrame
    <3>4. handled'[r.req.n] = handled[r.req.n]
      BY <2>2, <3>2, <3>3
    <3>5. QED
      BY <3>1, <3>4 DEF Explained, FromTopic
  <2>8. ASSUME NEW r \in R PROVE Explained(r)'
    <3>1. r.kind = "handled" => handled'[r.req.n] = 1
      BY <1>0, <1>2, <2>1
    <3>2. QED
      BY <1>0, <3>1 DEF Explained, FromTopic
  <2>9. \A r \in Answers' \cup written' : Explained(r)'
    BY <1>4, <2>7, <2>8
  <2>10. QED
    BY <1>0, <2>4, <2>5, <2>6, <2>9 DEF HandlerInv
<1>8. NothingLost'
  <2>1. \A n \in DOMAIN frames : Accounted(n) => Accounted(n)'
    BY <1>0, <1>3 DEF Accounted
  <2>2. QED
    BY <1>1, <2>1 DEF NothingLost, WorkerAt
<1>9. ActiveInv'
  <2>1. \A r \in R : r.kind # "nameless"
    BY <1>0 DEF FromTopic
  <2>2. \A n \in DOMAIN frames : Waits(n) => Waits(n)'
    BY <1>4, <2>1 DEF Waits
  <2>3. QED
    BY <1>1, <2>2 DEF ActiveInv
<1>10. CarelessInv'
  <2>1. \A r \in R : r.kind # "duplicate"
    BY <1>0 DEF FromTopic
  <2>2. QED
    BY <1>1, <1>4, <2>1 DEF CarelessInv
<1>11. BusyInv'
  <2>1. \A n \in DOMAIN frames : Busy(n)' => Busy(n)
    BY <1>0, <1>4 DEF Busy, FromTopic
  <2>2. \A id : Freed(id)' <=> Freed(id)
    BY DEF Freed
  <2>3. QED
    BY <1>1, <2>1, <2>2 DEF BusyInv
<1>12. QED
  BY <1>5, <1>6, <1>7, <1>8, <1>9, <1>10, <1>11 DEF Ledger

-----------------------------------------------------------------------------
(* The initial state, and the pieces the steps are made of.                 *)

(* The empty queue.                                                         *)
LEMMA Nothing ==
  ASSUME NEW S
  PROVE  <<>> \in Seq(S) /\ ToSet(<<>>) = {} /\ Once(<<>>)
<1>1. <<>> \in Seq(S) /\ DOMAIN <<>> = {}
  OBVIOUS
<1>2. QED
  BY <1>1 DEF ToSet, Once

(* A queue of one.                                                          *)
LEMMA JustOne ==
  ASSUME NEW S, NEW e \in S
  PROVE  <<e>> \in Seq(S) /\ ToSet(<<e>>) = {e} /\ Once(<<e>>) /\ Head(<<e>>) = e
<1>1. <<e>> \in Seq(S) /\ DOMAIN <<e>> = {1} /\ <<e>>[1] = e /\ Head(<<e>>) = e
  OBVIOUS
<1>2. QED
  BY <1>1 DEF ToSet, Once

(* The requests of one connection (drain_requests).                         *)
LEMMA OfRequests ==
  ASSUME NEW q \in Seq(Request), NEW g
  PROVE  /\ Of(q, g) \in Seq(Request)
         /\ ToSet(Of(q, g)) = {x \in ToSet(q) : x.gen = g}
         /\ Once(q) => Once(Of(q, g))
<1> DEFINE P == {i \in DOMAIN q : q[i].gen = g}
<1>1. {q[i] : i \in P} = {x \in ToSet(q) : x.gen = g}
  BY DEF ToSet
<1>2. P \in SUBSET DOMAIN q /\ Of(q, g) = Retain(q, P)
  BY DEF Of
<1> HIDE DEF P
<1>3. QED
  BY <1>1, <1>2, Retained

(* The answers to one connection.                                           *)
LEMMA OfAnswers ==
  ASSUME NEW q \in Seq(Response), NEW g
  PROVE  /\ OfResponses(q, g) \in Seq(Response)
         /\ ToSet(OfResponses(q, g)) = {r \in ToSet(q) : r.req.gen = g}
         /\ Once(q) => Once(OfResponses(q, g))
<1> DEFINE P == {i \in DOMAIN q : q[i].req.gen = g}
<1>1. {q[i] : i \in P} = {r \in ToSet(q) : r.req.gen = g}
  BY DEF ToSet
<1>2. P \in SUBSET DOMAIN q /\ OfResponses(q, g) = Retain(q, P)
  BY DEF OfResponses
<1> HIDE DEF P
<1>3. QED
  BY <1>1, <1>2, Retained

(* An answer is put in the outbox, or dropped.                              *)
LEMMA Pushed ==
  ASSUME TypeOK, NEW e \in Response, Push(e)
  PROVE  /\ outbox' \in Seq(Response) /\ dropped' \subseteq Numbers /\ dropped \subseteq dropped'
         /\ \/ ToSet(outbox') = ToSet(outbox) \cup {e} /\ dropped' = dropped
            \/ outbox' = outbox /\ dropped' = dropped \cup {e.req.n}
         /\ Once(outbox) /\ e \notin ToSet(outbox) => Once(outbox')
<1>1. outbox \in Seq(Response) /\ dropped \subseteq Numbers /\ e.req.n \in Numbers
  BY DEF TypeOK, Response, Request
<1>2. CASE Len(outbox) >= MaxOutbox
  BY <1>1, <1>2 DEF Push
<1>3. CASE ~(Len(outbox) >= MaxOutbox)
  <2>1. outbox' = Append(outbox, e) /\ dropped' = dropped
    BY <1>3 DEF Push
  <2>2. /\ Append(outbox, e) \in Seq(Response)
        /\ ToSet(Append(outbox, e)) = ToSet(outbox) \cup {e}
        /\ Once(outbox) /\ e \notin ToSet(outbox) => Once(Append(outbox, e))
    BY <1>1, OnceAppend
  <2>3. QED
    BY <1>1, <2>1, <2>2
<1>4. QED
  BY <1>2, <1>3

(* The invariant holds at first.                                            *)
LEMMA IInvInit == Init => IInv
<1> SUFFICES ASSUME Init PROVE IInv
  OBVIOUS
<1>1. /\ inbox = <<>> /\ outbox = <<>> /\ topic.in = <<>> /\ topic.out = <<>>
      /\ Asked = <<>> /\ Writing = <<>> /\ Serving = <<>> /\ Flushing = <<>>
  BY DEF Init, Asked, Writing, Serving, Flushing, WorkerAt, MainAt
<1>2. TypeOK
  <2>1. \A S : <<>> \in Seq(S)
    OBVIOUS
  <2>2. worker \in [pc : WorkerPc, gen : Nat, held : Seq(Request) \cup Seq(Response)]
    BY <2>1 DEF Init, WorkerPc
  <2>3. main \in [pc : MainPc, gen : Nat, held : Seq(Request) \cup Seq(Response)]
    BY <2>1 DEF Init, MainPc
  <2>4. topic \in [in : Seq(Request), out : Seq(Response)]
    BY <2>1 DEF Init
  <2>5. Len(frames) <= MaxFrames
    BY TransportAssumption DEF Init
  <2>6. handled \in [Numbers -> Nat]
    BY DEF Init
  <2>7. QED
    BY <1>1, <2>1, <2>2, <2>3, <2>4, <2>5, <2>6 DEF Init, TypeOK
<1>3. ToSet(<<>>) = {} /\ Once(<<>>) /\ DOMAIN frames = {}
  BY Nothing DEF Init
<1>4. Shape
  BY <1>3 DEF Init, Shape, WorkerAt, Fresh
<1>5. Apart
  BY <1>1, <1>3 DEF Apart
<1>6. Origin
  BY <1>1, <1>3 DEF Origin
<1>7. Pending = {} /\ Answers = {} /\ written = {} /\ ToSet(Asked) = {}
  BY <1>1, <1>3 DEF Pending, Answers, Init
<1>8. Genuine /\ Unique /\ NothingLost /\ ActiveInv /\ CarelessInv /\ BusyInv
  BY <1>3, <1>7 DEF Genuine, Unique, NothingLost, ActiveInv, CarelessInv, BusyInv, Init
<1>9. HandlerInv
  BY <1>7 DEF HandlerInv, Init
<1>10. QED
  BY <1>2, <1>4, <1>5, <1>6, <1>8, <1>9 DEF IInv, Ledger

-----------------------------------------------------------------------------
(* The steps of the I/O worker. They leave the main thread and the topic    *)
(* alone.                                                                   *)

(* What the main thread holds.                                              *)
LEMMA MainAlone ==
  ASSUME UNCHANGED <<main, topic>>
  PROVE  Serving' = Serving /\ Flushing' = Flushing /\ topic' = topic /\ main' = main
BY DEF Serving, Flushing, MainAt

(* A client connects; there is no frame of it yet.                          *)
LEMMA AcceptKeeps ==
  ASSUME IInv, Accept
  PROVE  IInv'
<1>1. TypeOK /\ Shape /\ Apart /\ Origin /\ Genuine
  BY DEF IInv, Ledger
<1>2. /\ UNCHANGED <<main, topic, gates, stale, handled>>
      /\ UNCHANGED <<inbox, outbox, activeIds, frames, careless, written, dropped>>
      /\ open' = TRUE /\ generation' = generation + 1
      /\ worker.pc = "Accept" /\ worker' = [pc |-> "Purge", gen |-> generation', held |-> <<>>]
  BY DEF Accept, notWorker, WorkerAt
<1>3. /\ Serving' = Serving /\ Flushing' = Flushing /\ topic' = topic /\ main' = main
      /\ Asked = <<>> /\ Writing = <<>> /\ Asked' = <<>> /\ Writing' = <<>>
  BY <1>1, <1>2, MainAlone DEF Asked, Writing, WorkerAt, Shape
<1>4. /\ generation \in Nat /\ generation' \in Nat /\ generation <= generation'
      /\ \A k \in Nat : k <= generation => k <= generation' /\ k # generation'
      /\ worker'.pc = "Purge" /\ worker'.held = <<>> /\ worker'.gen = generation'
  BY <1>1, <1>2 DEF TypeOK
<1>5. TypeOK'
  <2>1. worker' \in [pc : WorkerPc, gen : Nat, held : Seq(Request) \cup Seq(Response)]
    BY <1>2, <1>4 DEF WorkerPc
  <2>2. QED
    BY <1>1, <1>2, <1>3, <1>4, <2>1 DEF TypeOK, gates
<1>6. Fresh'
  <2>1. \A n \in DOMAIN frames : frames[n].gen \in Nat /\ frames[n].gen <= generation
    BY <1>1, Places DEF Genuine, Request
  <2>2. QED
    BY <1>2, <1>4, <2>1 DEF Fresh
<1>7. Shape'
  <2>1. main.gen \in Nat
    BY <1>1 DEF TypeOK
  <2>2. QED
    BY <1>1, <1>2, <1>3, <1>4, <1>6, <2>1 DEF Shape, WorkerAt, gates
<1>8. Apart'
  BY <1>1, <1>2, <1>3 DEF Apart
<1>9. ToSet(Asked)' = {} /\ Pending' = Pending /\ Answers' = Answers
  BY <1>2, <1>3, Nothing DEF Pending, Answers
<1>10. Origin'
  BY <1>1, <1>2, <1>3, <1>9 DEF Origin, FromTopic
<1>11. Ledger'
  BY <1>2, <1>4, <1>6, <1>9, LoseOld
<1>12. QED
  BY <1>5, <1>7, <1>8, <1>10, <1>11 DEF IInv

(* The answers to the connections before it go.                             *)
LEMMA PurgeKeeps ==
  ASSUME IInv, Purge
  PROVE  IInv'
<1>1. TypeOK /\ Shape /\ Apart /\ Origin
  BY DEF IInv
<1>2. /\ UNCHANGED <<main, topic, gates, stale, handled>>
      /\ UNCHANGED <<inbox, generation, open, frames, careless, written, dropped>>
      /\ activeIds' = {} /\ outbox' = OfResponses(outbox, worker.gen)
      /\ worker.pc = "Purge" /\ worker' = [worker EXCEPT !.pc = "Drain"]
  BY DEF Purge, notWorker, WorkerAt, WorkerGoto
<1>3. /\ worker'.pc = "Drain" /\ worker'.held = worker.held
      /\ worker'.gen = worker.gen /\ worker.held = <<>>
  BY <1>1, <1>2 DEF TypeOK, Shape
<1>4. /\ Serving' = Serving /\ Flushing' = Flushing /\ topic' = topic /\ main' = main
      /\ Asked = <<>> /\ Writing = <<>> /\ Asked' = <<>> /\ Writing' = <<>>
  BY <1>2, <1>3, MainAlone DEF Asked, Writing, WorkerAt
<1>5. /\ outbox' \in Seq(Response) /\ ToSet(outbox') \subseteq ToSet(outbox)
      /\ Once(outbox) => Once(outbox')
  <2>1. outbox \in Seq(Response)
    BY <1>1 DEF TypeOK
  <2>2. QED
    BY <1>2, <2>1, OfAnswers
<1>6. TypeOK'
  <2>1. worker' \in [pc : WorkerPc, gen : Nat, held : Seq(Request) \cup Seq(Response)]
    BY <1>1, <1>2 DEF TypeOK, WorkerPc
  <2>2. QED
    BY <1>1, <1>2, <1>4, <1>5, <2>1 DEF TypeOK, gates
<1>7. Fresh'
  BY <1>1, <1>2 DEF Shape, Fresh, WorkerAt
<1>8. Shape'
  BY <1>1, <1>2, <1>3, <1>4 DEF Shape, WorkerAt, gates
<1>9. Apart'
  BY <1>1, <1>2, <1>4, <1>5 DEF Apart
<1>10. ToSet(Asked)' = {} /\ Pending' = Pending /\ Answers' \subseteq Answers
  BY <1>2, <1>4, <1>5, Nothing DEF Pending, Answers
<1>11. Origin'
  BY <1>1, <1>2, <1>4, <1>10 DEF Origin, FromTopic
<1>12. Ledger'
  <2>1. generation' \in Nat /\ generation <= generation'
    BY <1>1, <1>2 DEF TypeOK
  <2>2. QED
    BY <1>2, <1>7, <1>10, <2>1, LoseOld
<1>13. QED
  BY <1>6, <1>8, <1>9, <1>11, <1>12 DEF IInv

(* The worker takes all answers there are.                                  *)
LEMMA DrainOutboxKeeps ==
  ASSUME IInv, DrainOutbox
  PROVE  IInv'
<1>1. TypeOK /\ Shape /\ Apart /\ Origin
  BY DEF IInv
<1>2. /\ UNCHANGED <<main, topic, gates, stale, handled>>
      /\ UNCHANGED <<inbox, activeIds, generation, open, frames, careless, written, dropped>>
      /\ outbox' = <<>> /\ worker' = [worker EXCEPT !.held = outbox, !.pc = "Write"]
      /\ worker.pc \in {"Drain", "Write"} /\ worker.held = <<>>
  BY <1>1 DEF DrainOutbox, notWorker, WorkerAt, Reading, Shape
<1>3. worker'.pc = "Write" /\ worker'.held = outbox /\ worker'.gen = worker.gen
  BY <1>1, <1>2 DEF TypeOK
<1>4. /\ Serving' = Serving /\ Flushing' = Flushing /\ topic' = topic /\ main' = main
      /\ Asked = <<>> /\ Writing = <<>> /\ Asked' = <<>> /\ Writing' = outbox
  BY <1>2, <1>3, MainAlone DEF Asked, Writing, WorkerAt
<1>5. ToSet(<<>>) = {} /\ Once(<<>>) /\ \A S : <<>> \in Seq(S)
  BY Nothing
<1>6. TypeOK'
  <2>1. worker' \in [pc : WorkerPc, gen : Nat, held : Seq(Request) \cup Seq(Response)]
    BY <1>1, <1>2 DEF TypeOK, WorkerPc
  <2>2. QED
    BY <1>1, <1>2, <1>4, <1>5, <2>1 DEF TypeOK, gates
<1>7. Shape'
  BY <1>1, <1>2, <1>3, <1>4 DEF Shape, WorkerAt, gates
<1>8. Apart'
  BY <1>1, <1>2, <1>4, <1>5 DEF Apart
<1>9. ToSet(Asked)' = ToSet(Asked) /\ Pending' = Pending /\ Answers' = Answers
  BY <1>2, <1>4, <1>5 DEF Pending, Answers
<1>10. Origin'
  BY <1>1, <1>2, <1>4, <1>9 DEF Origin, FromTopic
<1>11. Ledger'
  BY <1>2, <1>3, <1>9, LoseSome
<1>12. QED
  BY <1>6, <1>7, <1>8, <1>10, <1>11 DEF IInv

(* An answer is written, or is another connection's.                        *)
LEMMA WriteKeeps ==
  ASSUME IInv, Write
  PROVE  IInv'
<1> DEFINE r == Head(worker.held)
<1>1. TypeOK /\ Shape /\ Apart /\ Origin
  BY DEF IInv
<1>2. /\ UNCHANGED <<main, topic, gates, stale, handled>>
      /\ UNCHANGED <<inbox, outbox, generation, open, frames, careless, dropped>>
      /\ worker.pc = "Write" /\ worker.held # <<>>
      /\ worker' = [worker EXCEPT !.held = Tail(@)]
  BY DEF Write, notWorker, WorkerAt
<1>3. IF r.req.gen = worker.gen
      THEN /\ activeIds' = IF r.kind = "nameless" THEN activeIds ELSE activeIds \ {r.req.id}
           /\ written' = written \cup {[req |-> r.req, kind |-> r.kind, to |-> worker.gen]}
      ELSE UNCHANGED <<activeIds, written>>
  BY DEF Write
<1>4. worker'.pc = "Write" /\ worker'.held = Tail(worker.held) /\ worker'.gen = worker.gen
  BY <1>1, <1>2 DEF TypeOK
<1>5. /\ Serving' = Serving /\ Flushing' = Flushing /\ topic' = topic /\ main' = main
      /\ Asked = <<>> /\ Writing = worker.held /\ Asked' = <<>> /\ Writing' = Tail(Writing)
      /\ Writing \in Seq(Response) /\ Once(Writing)
  BY <1>1, <1>2, <1>4, MainAlone DEF Asked, Writing, WorkerAt, TypeOK, Apart
<1>6. /\ r \in ToSet(Writing) /\ r \in Response /\ Writing' \in Seq(Response)
      /\ ToSet(Writing') = ToSet(Writing) \ {r} /\ Once(Writing')
  BY <1>2, <1>5, OnceTail
<1> HIDE DEF r
<1>7. TypeOK'
  <2>1. worker' \in [pc : WorkerPc, gen : Nat, held : Seq(Request) \cup Seq(Response)]
    BY <1>1, <1>2, <1>4, <1>5, <1>6 DEF TypeOK, WorkerPc
  <2>2. activeIds' \subseteq Ids
    BY <1>1, <1>3 DEF TypeOK
  <2>3. written' \subseteq [req : Request, kind : Kinds, to : Nat]
    BY <1>1, <1>3, <1>6 DEF TypeOK, Response
  <2>4. QED
    BY <1>1, <1>2, <1>5, <1>6, <2>1, <2>2, <2>3 DEF TypeOK, gates
<1>8. Shape'
  BY <1>1, <1>2, <1>4, <1>5 DEF Shape, WorkerAt, gates
<1>9. Apart'
  BY <1>1, <1>2, <1>5, <1>6 DEF Apart
<1>10. ToSet(Asked) = {} /\ ToSet(Asked)' = {} /\ Pending' = Pending
  BY <1>2, <1>5, Nothing DEF Pending
<1>11. r \in Answers /\ Answers' = Answers \ {r}
  BY <1>1, <1>2, <1>5, <1>6 DEF Answers, Apart
<1>12. Origin'
  BY <1>1, <1>2, <1>5, <1>10 DEF Origin, FromTopic
<1>13. Ledger'
  <2>1. worker.gen = generation
    BY <1>1 DEF Shape
  <2>2. CASE r.req.gen = generation
    BY <1>2, <1>3, <1>4, <1>10, <1>11, <2>1, <2>2, WriteOne
  <2>3. CASE r.req.gen # generation
    BY <1>2, <1>3, <1>4, <1>10, <1>11, <2>1, <2>3, LoseSome
  <2>4. QED
    BY <2>2, <2>3
<1>14. QED
  BY <1>7, <1>8, <1>9, <1>12, <1>13 DEF IInv

(* A frame is read: it is a new one.                                        *)
LEMMA ReadFrameKeeps ==
  ASSUME IInv, ReadFrame
  PROVE  IInv'
<1>1. TypeOK /\ Shape /\ Apart /\ Origin /\ Genuine
  BY DEF IInv, Ledger
<1>2. /\ UNCHANGED <<main, topic, gates, stale, handled>>
      /\ UNCHANGED <<inbox, outbox, activeIds, generation, open, written, dropped>>
      /\ worker.pc = "Write" /\ worker.held = <<>> /\ Len(frames) < MaxFrames
  BY DEF ReadFrame, notWorker, WorkerAt, Reading, shared
<1>3. PICK id \in Ids :
        LET q == [n |-> Len(frames) + 1, id |-> id, gen |-> worker.gen]
        IN  /\ frames' = Append(frames, q)
            /\ careless' = IF id \in Unanswered THEN careless \cup {q.n} ELSE careless
            /\ worker' = [worker EXCEPT !.pc = "Frame", !.held = <<q>>]
  BY DEF ReadFrame
<1> DEFINE q == [n |-> Len(frames) + 1, id |-> id, gen |-> worker.gen]
<1>4. /\ q.n = Len(frames) + 1 /\ q.id = id /\ q.gen = generation
      /\ frames' = Append(frames, q)
      /\ careless' = IF q.id \in Unanswered THEN careless \cup {q.n} ELSE careless
      /\ worker' = [worker EXCEPT !.pc = "Frame", !.held = <<q>>]
  BY <1>1, <1>3 DEF Shape
<1>5. Len(frames) \in Nat /\ Len(frames) + 1 \in Numbers /\ DOMAIN frames = 1..Len(frames)
  <2>1. frames \in Seq(Request)
    BY <1>1 DEF TypeOK
  <2>2. Len(frames) \in Nat /\ DOMAIN frames = 1..Len(frames)
    BY <2>1, LenProperties
  <2>3. QED
    BY <1>2, <2>2, TransportAssumption DEF Numbers
<1>6. q \in Request /\ worker.gen = generation
  BY <1>1, <1>5 DEF Request, TypeOK, Shape
<1> HIDE DEF q
<1>7. worker'.pc = "Frame" /\ worker'.held = <<q>> /\ worker'.gen = worker.gen
  BY <1>1, <1>4 DEF TypeOK
<1>8. /\ Serving' = Serving /\ Flushing' = Flushing /\ topic' = topic /\ main' = main
      /\ Asked = <<>> /\ Writing = <<>> /\ Asked' = <<q>> /\ Writing' = <<>>
  BY <1>2, <1>7, MainAlone DEF Asked, Writing, WorkerAt
<1>9. /\ <<q>> \in Seq(Request) /\ ToSet(<<q>>) = {q} /\ Once(<<q>>) /\ Head(<<q>>) = q
      /\ <<q>> # <<>> /\ ToSet(<<>>) = {} /\ Once(<<>>) /\ <<>> \in Seq(Response)
  BY <1>6, JustOne, Nothing
<1>10. TypeOK'
  <2>1. worker' \in [pc : WorkerPc, gen : Nat, held : Seq(Request) \cup Seq(Response)]
    BY <1>1, <1>4, <1>9 DEF TypeOK, WorkerPc
  <2>2. careless' \subseteq Numbers
    BY <1>1, <1>4, <1>5 DEF TypeOK
  <2>3. frames' \in Seq(Request) /\ Len(frames') <= MaxFrames
    <3>1. frames \in Seq(Request)
      BY <1>1 DEF TypeOK
    <3>2. frames' \in Seq(Request) /\ Len(frames') = Len(frames) + 1
      BY <1>4, <1>6, <3>1, AppendProperties
    <3>3. QED
      BY <1>2, <1>5, <3>2, TransportAssumption
  <2>4. QED
    BY <1>1, <1>2, <1>8, <1>9, <2>1, <2>2, <2>3 DEF TypeOK, gates
<1>11. Shape'
  <2>1. retired' = retired
    BY <1>2 DEF gates
  <2>2. QED
    BY <1>1, <1>2, <1>7, <1>8, <1>9, <2>1 DEF Shape, WorkerAt
<1>12. q \notin Pending
  <2>1. q.n \notin DOMAIN frames
    BY <1>4, <1>5
  <2>2. QED
    BY <1>1, <2>1 DEF Genuine, IsFrame
<1>13. Apart'
  <2>1. q \notin ToSet(inbox) \cup ToSet(Serving) \cup ToSet(topic.in)
    BY <1>12 DEF Pending
  <2>2. QED
    BY <1>1, <1>2, <1>8, <1>9, <2>1 DEF Apart
<1>14. /\ ToSet(Asked) = {} /\ ToSet(Asked)' = {q}
       /\ Pending' = Pending \cup {q} /\ Answers' = Answers
  BY <1>2, <1>8, <1>9 DEF Pending, Answers
<1>15. Origin'
  BY <1>1, <1>2, <1>4, <1>8, <1>14 DEF Origin, FromTopic
<1>16. Ledger'
  <2>1. worker.pc \notin {"Accept", "Purge"} /\ worker'.pc \notin {"Accept", "Purge"}
    BY <1>2, <1>7
  <2>2. UNCHANGED <<generation, activeIds, written, dropped, stale, handled>>
    BY <1>2
  <2>3. QED
    BY <1>4, <1>6, <1>14, <2>1, <2>2, ReadOne
<1>17. QED
  BY <1>10, <1>11, <1>13, <1>15, <1>16 DEF IInv

(* What holds in front of a frame that is looked at.                        *)
LEMMA FrameHeld ==
  ASSUME IInv, WorkerAt("Frame"), UNCHANGED <<main, topic, gates>>,
         worker' = [worker EXCEPT !.pc = "Drain", !.held = <<>>]
  PROVE  LET q == Head(worker.held)
         IN  /\ q \in Request /\ q \in Pending /\ q.gen = generation
             /\ Asked = <<q>> /\ ToSet(Asked) = {q} /\ Writing = <<>>
             /\ Asked' = <<>> /\ ToSet(Asked)' = {} /\ Writing' = <<>>
             /\ Serving' = Serving /\ Flushing' = Flushing
             /\ worker'.pc = "Drain" /\ worker'.held = <<>> /\ worker'.gen = worker.gen
             /\ worker' \in [pc : WorkerPc, gen : Nat, held : Seq(Request) \cup Seq(Response)]
             /\ q \notin ToSet(inbox) \cup ToSet(Serving) \cup ToSet(topic.in)
             /\ ToSet(<<>>) = {} /\ Once(<<>>) /\ \A S : <<>> \in Seq(S)
<1> DEFINE q == Head(worker.held)
<1>1. TypeOK /\ Shape /\ Apart /\ Origin
  BY DEF IInv
<1>2. worker.pc = "Frame" /\ worker'.pc = "Drain" /\ worker'.held = <<>> /\ worker'.gen = worker.gen
  BY <1>1 DEF WorkerAt, TypeOK
<1>3. /\ worker.held # <<>> /\ Asked = worker.held /\ Asked = <<q>> /\ Writing = <<>>
      /\ Asked' = <<>> /\ Writing' = <<>> /\ Asked \in Seq(Request)
  BY <1>1, <1>2 DEF Asked, Writing, WorkerAt, Shape, TypeOK
<1>4. q \in Request
  BY <1>3, HeadTailProperties
<1>5. ToSet(Asked) = {q} /\ ToSet(<<>>) = {} /\ Once(<<>>) /\ \A S : <<>> \in Seq(S)
  BY <1>3, <1>4, JustOne, Nothing
<1>6. Serving' = Serving /\ Flushing' = Flushing
  BY MainAlone
<1>7. worker' \in [pc : WorkerPc, gen : Nat, held : Seq(Request) \cup Seq(Response)]
  BY <1>1, <1>5 DEF TypeOK, WorkerPc
<1>8. q \in Pending /\ q.gen = generation
  BY <1>1, <1>5 DEF Pending, Origin
<1>9. q \notin ToSet(inbox) \cup ToSet(Serving) \cup ToSet(topic.in)
  BY <1>1, <1>5 DEF Apart
<1>10. QED
  BY <1>2, <1>3, <1>4, <1>5, <1>6, <1>7, <1>8, <1>9

(* The frame is answered at once.                                           *)
LEMMA FrameAnswered ==
  ASSUME IInv, WorkerAt("Frame"), UNCHANGED <<main, topic, gates, inbox, generation, open>>,
         UNCHANGED <<frames, careless, written, stale, handled>>,
         worker' = [worker EXCEPT !.pc = "Drain", !.held = <<>>],
         NEW kind \in {"nameless", "duplicate", "undelivered"},
         Push(Reply(Head(worker.held), kind)),
         kind = "duplicate" => Head(worker.held).id \in activeIds,
         \/ activeIds' = activeIds
         \/ activeIds' = activeIds \cup {Head(worker.held).id} /\ kind = "undelivered"
  PROVE  IInv'
<1> DEFINE q == Head(worker.held)
           e == Reply(q, kind)
<1>1. TypeOK /\ Shape /\ Apart /\ Origin /\ Unique
  BY DEF IInv, Ledger
<1>2. /\ q \in Request /\ q \in Pending /\ q.gen = generation
      /\ Asked = <<q>> /\ ToSet(Asked) = {q} /\ Writing = <<>>
      /\ Asked' = <<>> /\ ToSet(Asked)' = {} /\ Writing' = <<>>
      /\ Serving' = Serving /\ Flushing' = Flushing
      /\ worker'.pc = "Drain" /\ worker'.held = <<>> /\ worker'.gen = worker.gen
      /\ worker' \in [pc : WorkerPc, gen : Nat, held : Seq(Request) \cup Seq(Response)]
      /\ q \notin ToSet(inbox) \cup ToSet(Serving) \cup ToSet(topic.in)
      /\ ToSet(<<>>) = {} /\ Once(<<>>) /\ \A S : <<>> \in Seq(S)
  BY FrameHeld
<1>3. e \in Response /\ e.req = q /\ e.kind = kind
  BY <1>2 DEF Reply, Response, Kinds
<1>4. e \notin Answers
  BY <1>1, <1>2, <1>3 DEF Unique
<1>5. activeIds' \subseteq Ids
  BY <1>1, <1>2 DEF TypeOK, Request
<1> HIDE DEF q
<1>6. Push(e) /\ kind \in Kinds \ {"handled"}
  BY DEF q, Kinds
<1> HIDE DEF e
<1>7. /\ outbox' \in Seq(Response) /\ dropped' \subseteq Numbers
      /\ \/ ToSet(outbox') = ToSet(outbox) \cup {e} /\ dropped' = dropped
         \/ outbox' = outbox /\ dropped' = dropped \cup {q.n}
      /\ Once(outbox) /\ e \notin ToSet(outbox) => Once(outbox')
  BY <1>1, <1>3, <1>6, Pushed
<1>8. TypeOK'
  BY <1>1, <1>2, <1>5, <1>7 DEF TypeOK, gates
<1>9. Shape'
  <2>1. retired' = retired /\ worker.gen = generation
    BY <1>1 DEF gates, Shape
  <2>2. QED
    BY <1>1, <1>2, <2>1 DEF Shape, WorkerAt
<1>10. Apart'
  <2>1. e \notin ToSet(topic.out) \cup ToSet(Flushing) \cup ToSet(outbox) \cup ToSet(Writing)
    BY <1>4 DEF Answers
  <2>2. QED
    BY <1>1, <1>2, <1>7, <2>1 DEF Apart
<1>11. /\ Pending' = Pending \ {q}
       /\ \/ Answers' = Answers \cup {e} /\ dropped' = dropped
          \/ Answers' = Answers /\ dropped' = dropped \cup {q.n}
  BY <1>2, <1>7 DEF Pending, Answers
<1>12. Origin'
  BY <1>1, <1>2 DEF Origin, FromTopic
<1>13. Ledger'
  <2>1. worker.pc = "Frame" /\ ToSet(Asked)' = ToSet(Asked) \ {q} /\ q \in ToSet(Asked)
    BY <1>2 DEF WorkerAt
  <2>2. /\ kind = "duplicate" => q.id \in activeIds
        /\ \/ activeIds' = activeIds
           \/ activeIds' = activeIds \cup {q.id} /\ kind = "undelivered"
    BY DEF q
  <2>3. /\ kind = "duplicate" => q \in ToSet(Asked) /\ q.id \in activeIds
        /\ kind = "nameless" => q \in ToSet(Asked)
        /\ kind = "unavailable" => q \notin ToSet(Asked)
        /\ \/ activeIds' = activeIds
           \/ /\ activeIds' = activeIds \cup {q.id} /\ kind = "undelivered"
              /\ q \in ToSet(Asked) /\ ToSet(Asked)' = {}
        /\ worker.pc = "Accept" => worker'.pc = "Accept"
        /\ worker.pc \in {"Accept", "Purge"} => worker'.pc \in {"Accept", "Purge"}
    BY <1>2, <2>1, <2>2
  <2>4. UNCHANGED <<generation, frames, careless, written, stale, handled>>
    OBVIOUS
  <2>5. QED
    BY <1>2, <1>6, <1>11, <2>1, <2>3, <2>4, AnswerOne DEF e
<1>14. QED
  BY <1>8, <1>9, <1>10, <1>12, <1>13 DEF IInv

(* An invalid frame is answered at once.                                    *)
LEMMA RefuseKeeps ==
  ASSUME IInv, Refuse
  PROVE  IInv'
<1>1. /\ WorkerAt("Frame") /\ UNCHANGED <<main, topic, gates, inbox, generation, open>>
      /\ UNCHANGED <<frames, careless, written, stale, handled>> /\ activeIds' = activeIds
      /\ worker' = [worker EXCEPT !.pc = "Drain", !.held = <<>>]
  BY DEF Refuse, notWorker
<1>2. PICK kind \in {"undelivered", "nameless"} : Push(Reply(Head(worker.held), kind))
  BY DEF Refuse
<1>3. kind \in {"nameless", "duplicate", "undelivered"} /\ kind # "duplicate"
  BY <1>2
<1>4. QED
  BY <1>1, <1>2, <1>3, FrameAnswered

(* A duplicate, a full inbox, and a frame that is delivered.                *)
LEMMA EnqueueKeeps ==
  ASSUME IInv, Enqueue
  PROVE  IInv'
<1> DEFINE q == Head(worker.held)
<1>1. /\ WorkerAt("Frame") /\ UNCHANGED <<main, topic, gates, generation, open>>
      /\ UNCHANGED <<frames, careless, written, stale, handled>>
      /\ worker' = [worker EXCEPT !.pc = "Drain", !.held = <<>>]
  BY DEF Enqueue, FrameDone, notWorker
<1>2. IF q.id \in activeIds
      THEN Push(Reply(q, "duplicate")) /\ UNCHANGED <<inbox, activeIds>>
      ELSE Deliver(q)
  BY DEF Enqueue
<1>3. CASE q.id \in activeIds
  BY <1>1, <1>2, <1>3, FrameAnswered
<1>4. CASE q.id \notin activeIds /\ Len(inbox) >= MaxInbox
  <2>1. /\ Push(Reply(q, "undelivered")) /\ UNCHANGED inbox
        /\ activeIds' = activeIds \cup {q.id}
    BY <1>2, <1>4 DEF Deliver
  <2>2. QED
    BY <1>1, <2>1, FrameAnswered
<1>5. CASE q.id \notin activeIds /\ ~(Len(inbox) >= MaxInbox)
  <2>1. /\ inbox' = Append(inbox, q) /\ UNCHANGED <<outbox, dropped>>
        /\ activeIds' = activeIds \cup {q.id}
    BY <1>2, <1>5 DEF Deliver
  <2>2. /\ q \in Request /\ q \in Pending /\ q.gen = generation
        /\ Asked = <<q>> /\ ToSet(Asked) = {q} /\ Writing = <<>>
        /\ Asked' = <<>> /\ ToSet(Asked)' = {} /\ Writing' = <<>>
        /\ Serving' = Serving /\ Flushing' = Flushing
        /\ worker'.pc = "Drain" /\ worker'.held = <<>> /\ worker'.gen = worker.gen
        /\ worker' \in [pc : WorkerPc, gen : Nat, held : Seq(Request) \cup Seq(Response)]
        /\ q \notin ToSet(inbox) \cup ToSet(Serving) \cup ToSet(topic.in)
        /\ ToSet(<<>>) = {} /\ Once(<<>>) /\ \A S : <<>> \in Seq(S)
    BY <1>1, FrameHeld
  <2> HIDE DEF q
  <2>3. TypeOK /\ Shape /\ Apart /\ Origin /\ inbox \in Seq(Request)
    BY DEF IInv, TypeOK
  <2>4. /\ inbox' \in Seq(Request) /\ ToSet(inbox') = ToSet(inbox) \cup {q}
        /\ Once(inbox) /\ q \notin ToSet(inbox) => Once(inbox')
    BY <2>1, <2>2, <2>3, OnceAppend
  <2>5. TypeOK'
    <3>1. activeIds' \subseteq Ids
      BY <2>1, <2>2, <2>3 DEF TypeOK, Request
    <3>2. QED
      BY <1>1, <2>1, <2>2, <2>3, <2>4, <3>1 DEF TypeOK, gates
  <2>6. Shape'
    <3>1. retired' = retired /\ worker.gen = generation
      BY <1>1, <2>3 DEF gates, Shape
    <3>2. QED
      BY <1>1, <2>2, <2>3, <3>1 DEF Shape, WorkerAt
  <2>7. Apart'
    BY <1>1, <2>1, <2>2, <2>3, <2>4 DEF Apart
  <2>8. Origin'
    BY <1>1, <2>2, <2>3 DEF Origin, FromTopic
  <2>9. Pending' = Pending /\ Answers' = Answers
    BY <1>1, <2>1, <2>2, <2>4 DEF Pending, Answers
  <2>10. Ledger'
    <3>1. worker.pc \notin {"Accept", "Purge"} /\ q.id \notin activeIds /\ q \in ToSet(Asked)
      BY <1>1, <1>5, <2>2 DEF WorkerAt, q
    <3>2. QED
      BY <1>1, <2>1, <2>2, <2>9, <3>1, DeliverOne
  <2>11. QED
    BY <2>5, <2>6, <2>7, <2>8, <2>10 DEF IInv
<1>6. QED
  BY <1>3, <1>4, <1>5

(* Steps that leave every queue and every held entry where it is.           *)
LEMMA NothingMoves ==
  ASSUME IInv, UNCHANGED <<inbox, outbox, topic, activeIds, generation, worker, frames>>,
         UNCHANGED <<careless, written, dropped, stale, handled, retired>>,
         Serving' = Serving, Flushing' = Flushing,
         main' \in [pc : MainPc, gen : Nat, held : Seq(Request) \cup Seq(Response)],
         open' \in BOOLEAN, runtimeGate' \in BOOLEAN,
         main.gen <= main'.gen, main'.gen <= generation,
         \A x \in ToSet(Serving) : x.gen = main'.gen,
         main'.pc \in {"Idle", "Drain"} => main'.held = <<>>
  PROVE  IInv'
<1>1. TypeOK /\ Shape /\ Apart /\ Origin
  BY DEF IInv
<1>2. Asked' = Asked /\ Writing' = Writing /\ Pending' = Pending /\ Answers' = Answers
  BY DEF Asked, Writing, WorkerAt, Pending, Answers
<1>3. TypeOK'
  BY <1>1, <1>2 DEF TypeOK
<1>4. Shape'
  BY <1>1 DEF Shape, WorkerAt, Fresh
<1>5. Apart'
  BY <1>1, <1>2 DEF Apart
<1>6. Origin'
  <2>1. main.gen \in Nat /\ main'.gen \in Nat
    BY <1>1 DEF TypeOK
  <2>2. \A k \in Nat : k <= main.gen => k <= main'.gen
    BY <2>1
  <2>3. /\ \A x \in ToSet(topic.in) : x.gen \in Nat
        /\ \A r \in ToSet(topic.out) : r.req.gen \in Nat
    <3>1. ToSet(topic.in) \subseteq Pending /\ ToSet(topic.out) \subseteq Answers
      BY DEF Pending, Answers
    <3>2. QED
      BY <1>1, <3>1, Places DEF Request, Response
  <2>4. QED
    BY <1>1, <1>2, <2>2, <2>3 DEF Origin, FromTopic
<1>7. Ledger'
  BY <1>2, LoseSome
<1>8. QED
  BY <1>3, <1>4, <1>5, <1>6, <1>7 DEF IInv

(* The client leaves, or the runtime fails.                                 *)
LEMMA GatesKeep ==
  ASSUME IInv, Hangup \/ RuntimeFails \/ UNCHANGED vars
  PROVE  IInv'
<1>1. /\ UNCHANGED <<inbox, outbox, topic, activeIds, generation, worker, main, frames>>
      /\ UNCHANGED <<careless, written, dropped, stale, handled, retired>>
      /\ open' \in BOOLEAN /\ runtimeGate' \in BOOLEAN
  <2>1. open \in BOOLEAN /\ runtimeGate \in BOOLEAN
    BY DEF IInv, TypeOK
  <2>2. CASE Hangup
    BY <2>1, <2>2 DEF Hangup, shared, notWorker, gates
  <2>3. CASE RuntimeFails
    BY <2>1, <2>3 DEF RuntimeFails, shared, history
  <2>4. CASE UNCHANGED vars
    BY <2>1, <2>4 DEF vars, shared, history, gates
  <2>5. QED
    BY <2>2, <2>3, <2>4
<1>2. Serving' = Serving /\ Flushing' = Flushing
  BY <1>1, MainAlone
<1>3. /\ main' \in [pc : MainPc, gen : Nat, held : Seq(Request) \cup Seq(Response)]
      /\ main.gen <= main'.gen /\ main'.gen <= generation
      /\ \A x \in ToSet(Serving) : x.gen = main'.gen
      /\ main'.pc \in {"Idle", "Drain"} => main'.held = <<>>
  BY <1>1 DEF IInv, TypeOK, Shape, Origin
<1>4. QED
  BY <1>1, <1>2, <1>3, NothingMoves

(* The answers in hand go with the connection.                              *)
LEMMA DisconnectKeeps ==
  ASSUME IInv, Disconnect
  PROVE  IInv'
<1>1. TypeOK /\ Shape /\ Apart /\ Origin
  BY DEF IInv
<1>2. /\ UNCHANGED <<main, topic, gates, stale, handled>>
      /\ UNCHANGED <<inbox, outbox, activeIds, generation, open, frames, careless, written, dropped>>
      /\ worker.pc = "Write" /\ worker' = [worker EXCEPT !.pc = "Accept", !.held = <<>>]
  BY DEF Disconnect, notWorker, WorkerAt, shared
<1>3. worker'.pc = "Accept" /\ worker'.held = <<>> /\ worker'.gen = worker.gen
  BY <1>1, <1>2 DEF TypeOK
<1>4. /\ Serving' = Serving /\ Flushing' = Flushing /\ topic' = topic /\ main' = main
      /\ Asked = <<>> /\ Asked' = <<>> /\ Writing' = <<>>
  BY <1>2, <1>3, MainAlone DEF Asked, Writing, WorkerAt
<1>5. ToSet(<<>>) = {} /\ Once(<<>>) /\ \A S : <<>> \in Seq(S)
  BY Nothing
<1>6. TypeOK'
  <2>1. worker' \in [pc : WorkerPc, gen : Nat, held : Seq(Request) \cup Seq(Response)]
    BY <1>1, <1>2, <1>5 DEF TypeOK, WorkerPc
  <2>2. QED
    BY <1>1, <1>2, <1>4, <1>5, <2>1 DEF TypeOK, gates
<1>7. Shape'
  BY <1>1, <1>2, <1>3, <1>4 DEF Shape, WorkerAt, gates
<1>8. Apart'
  BY <1>1, <1>2, <1>4, <1>5 DEF Apart
<1>9. ToSet(Asked)' = ToSet(Asked) /\ Pending' = Pending /\ Answers' \subseteq Answers
  BY <1>2, <1>4, <1>5 DEF Pending, Answers
<1>10. Origin'
  BY <1>1, <1>2, <1>4 DEF Origin, FromTopic
<1>11. Ledger'
  BY <1>2, <1>3, <1>9, LoseSome
<1>12. QED
  BY <1>6, <1>7, <1>8, <1>10, <1>11 DEF IInv

-----------------------------------------------------------------------------
(* The steps of the main thread, which leave the worker alone.              *)

(* What the worker holds.                                                   *)
LEMMA WorkerAlone ==
  ASSUME UNCHANGED notMain
  PROVE  /\ Asked' = Asked /\ Writing' = Writing /\ worker' = worker
         /\ UNCHANGED <<activeIds, generation, open, runtimeGate, retired, frames, careless, written>>
         /\ worker.pc = "Accept" => worker'.pc = "Accept"
         /\ worker.pc \in {"Accept", "Purge"} => worker'.pc \in {"Accept", "Purge"}
BY DEF Asked, Writing, WorkerAt, notMain, gates

(* A run begins under the connection of now.                                *)
LEMMA DispatchKeeps ==
  ASSUME IInv, DispatchRuns
  PROVE  IInv'
<1>1. TypeOK /\ Shape
  BY DEF IInv
<1>2. /\ UNCHANGED <<inbox, outbox, topic, dropped, stale, handled, notMain>>
      /\ main.pc = "Idle" /\ main' = [pc |-> "Drain", gen |-> generation, held |-> <<>>]
  BY DEF DispatchRuns, MainAt
<1>3. /\ UNCHANGED <<activeIds, generation, worker, open, runtimeGate, retired>>
      /\ UNCHANGED <<frames, careless, written>>
  BY <1>2, WorkerAlone
<1>4. main.held = <<>> /\ main'.held = <<>> /\ main'.pc = "Drain" /\ main'.gen = generation
  BY <1>1, <1>2 DEF Shape
<1>5. Serving = <<>> /\ Flushing = <<>> /\ Serving' = <<>> /\ Flushing' = <<>>
  BY <1>2, <1>4 DEF Serving, Flushing, MainAt
<1>6. ToSet(<<>>) = {} /\ \A S : <<>> \in Seq(S)
  BY Nothing
<1>7. main' \in [pc : MainPc, gen : Nat, held : Seq(Request) \cup Seq(Response)]
  BY <1>1, <1>2, <1>6 DEF TypeOK, MainPc
<1>8. main.gen <= main'.gen /\ main'.gen <= generation
  <2>1. generation \in Nat
    BY <1>1 DEF TypeOK
  <2>2. QED
    BY <1>1, <1>4, <2>1 DEF Shape
<1>9. open' \in BOOLEAN /\ runtimeGate' \in BOOLEAN /\ \A x \in ToSet(Serving) : x.gen = main'.gen
  BY <1>1, <1>3, <1>5, <1>6 DEF TypeOK
<1>10. QED
  BY <1>2, <1>3, <1>4, <1>5, <1>7, <1>8, <1>9, NothingMoves

(* Requests of older connections go; those of a newer one are stale.        *)
LEMMA DrainInboxKeeps ==
  ASSUME IInv, DrainInbox
  PROVE  IInv'
<1>1. TypeOK /\ Shape /\ Apart /\ Origin /\ Genuine
  BY DEF IInv, Ledger
<1>2. /\ UNCHANGED <<outbox, topic, dropped, handled, notMain>>
      /\ stale' = stale \cup {q.n : q \in {r \in ToSet(inbox) : r.gen > main.gen}}
      /\ main' = [main EXCEPT !.pc = "Serve", !.held = Of(inbox, main.gen)]
      /\ inbox' = <<>> /\ main.pc = "Drain"
  BY DEF DrainInbox, MainAt
<1>3. /\ Asked' = Asked /\ Writing' = Writing /\ worker' = worker
      /\ UNCHANGED <<activeIds, generation, open, runtimeGate, retired, frames, careless, written>>
  BY <1>2, WorkerAlone
<1>4. /\ main.held = <<>> /\ main'.held = Of(inbox, main.gen)
      /\ main'.pc = "Serve" /\ main'.gen = main.gen
  BY <1>1, <1>2 DEF Shape, TypeOK
<1>5. Serving = <<>> /\ Flushing = <<>> /\ Serving' = Of(inbox, main.gen) /\ Flushing' = <<>>
  BY <1>2, <1>4 DEF Serving, Flushing, MainAt
<1>6. ToSet(<<>>) = {} /\ Once(<<>>) /\ \A S : <<>> \in Seq(S)
  BY Nothing
<1>7. /\ Serving' \in Seq(Request) /\ ToSet(Serving') = {x \in ToSet(inbox) : x.gen = main.gen}
      /\ Once(inbox) => Once(Serving')
  <2>1. inbox \in Seq(Request)
    BY <1>1 DEF TypeOK
  <2>2. QED
    BY <1>5, <2>1, OfRequests
<1>8. TypeOK'
  <2>1. main' \in [pc : MainPc, gen : Nat, held : Seq(Request) \cup Seq(Response)]
    BY <1>1, <1>2, <1>5, <1>7 DEF TypeOK, MainPc
  <2>2. stale' \subseteq Numbers
    <3>1. \A x \in ToSet(inbox) : x.n \in Numbers
      BY <1>1, Places DEF Pending, Request
    <3>2. QED
      BY <1>1, <1>2, <3>1 DEF TypeOK
  <2>3. QED
    BY <1>1, <1>2, <1>3, <1>5, <1>6, <1>7, <2>1, <2>2 DEF TypeOK
<1>9. Shape'
  BY <1>1, <1>2, <1>3, <1>4 DEF Shape, WorkerAt, Fresh
<1>10. Apart'
  BY <1>1, <1>2, <1>3, <1>5, <1>6, <1>7 DEF Apart
<1>11. Origin'
  BY <1>1, <1>2, <1>3, <1>4, <1>5, <1>6, <1>7 DEF Origin, FromTopic
<1>12. /\ ToSet(Asked)' = ToSet(Asked) /\ Pending' \subseteq Pending /\ Answers' = Answers
       /\ \A x \in Pending \ Pending' : x \in ToSet(inbox) /\ x.gen # main.gen
  BY <1>2, <1>3, <1>5, <1>6, <1>7 DEF Pending, Answers
<1>13. Ledger'
  <2>1. \A x \in Pending \ Pending' : x.gen = generation => x.n \in stale'
    <3>1. main.gen \in Nat /\ generation \in Nat /\ main.gen <= generation
      BY <1>1 DEF TypeOK, Shape
    <3>2. generation # main.gen => generation > main.gen
      BY <3>1
    <3>3. QED
      BY <1>2, <1>12, <3>2
  <2>2. stale \subseteq stale'
    BY <1>2
  <2>3. QED
    BY <1>2, <1>3, <1>12, <2>1, <2>2, LoseSome
<1>14. QED
  BY <1>8, <1>9, <1>10, <1>11, <1>13 DEF IInv

(* A request is answered, or enters the topic's channel.                    *)
LEMMA ServeKeeps ==
  ASSUME IInv, Serve
  PROVE  IInv'
<1> DEFINE q == Head(main.held)
<1>1. TypeOK /\ Shape /\ Apart /\ Origin /\ Unique
  BY DEF IInv, Ledger
<1>2. /\ UNCHANGED <<inbox, stale, handled, notMain>>
      /\ main.pc = "Serve" /\ main.held # <<>>
      /\ main' = [main EXCEPT !.held = Tail(@)]
  BY DEF Serve, MainAt
<1>3. \/ Push(Reply(q, "undelivered")) /\ UNCHANGED topic
      \/ Push(Reply(q, "unavailable")) /\ UNCHANGED topic
      \/ /\ ~retired /\ topic' = [topic EXCEPT !.in = Append(@, q)] /\ UNCHANGED <<outbox, dropped>>
  BY DEF Serve
<1>4. /\ Asked' = Asked /\ Writing' = Writing /\ worker' = worker
      /\ UNCHANGED <<activeIds, generation, open, runtimeGate, retired, frames, careless, written>>
      /\ worker.pc = "Accept" => worker'.pc = "Accept"
      /\ worker.pc \in {"Accept", "Purge"} => worker'.pc \in {"Accept", "Purge"}
  BY <1>2, WorkerAlone
<1>5. main'.pc = "Serve" /\ main'.held = Tail(main.held) /\ main'.gen = main.gen
  BY <1>1, <1>2 DEF TypeOK
<1>6. /\ Serving = main.held /\ Flushing = <<>> /\ Serving' = Tail(Serving) /\ Flushing' = <<>>
      /\ Serving \in Seq(Request) /\ Once(Serving)
  BY <1>1, <1>2, <1>5 DEF Serving, Flushing, MainAt, TypeOK, Apart
<1>7. /\ q \in ToSet(Serving) /\ q \in Request /\ Serving' \in Seq(Request)
      /\ ToSet(Serving') = ToSet(Serving) \ {q} /\ Once(Serving')
  BY <1>2, <1>6, OnceTail
<1>8. /\ q \in Pending /\ q \notin ToSet(inbox) \cup ToSet(topic.in) \cup ToSet(Asked)
      /\ q.gen = main.gen
  BY <1>1, <1>7 DEF Pending, Apart, Origin
<1> HIDE DEF q
<1>9. main' \in [pc : MainPc, gen : Nat, held : Seq(Request) \cup Seq(Response)]
  BY <1>1, <1>2, <1>5, <1>6, <1>7 DEF TypeOK
<1>10. ASSUME NEW kind \in {"undelivered", "unavailable"}, Push(Reply(q, kind)), UNCHANGED topic
       PROVE  IInv'
  <2> DEFINE e == Reply(q, kind)
  <2>1. e \in Response /\ e.req = q
    BY <1>7 DEF Reply, Response, Kinds
  <2>2. e \notin Answers
    BY <1>1, <1>8, <2>1 DEF Unique
  <2>3. Push(e)
    BY <1>10
  <2> HIDE DEF e
  <2>4. /\ outbox' \in Seq(Response) /\ dropped' \subseteq Numbers
        /\ \/ ToSet(outbox') = ToSet(outbox) \cup {e} /\ dropped' = dropped
           \/ outbox' = outbox /\ dropped' = dropped \cup {q.n}
        /\ Once(outbox) /\ e \notin ToSet(outbox) => Once(outbox')
    BY <1>1, <2>1, <2>3, Pushed
  <2>5. TypeOK'
    BY <1>1, <1>2, <1>4, <1>6, <1>7, <1>9, <1>10, <2>4 DEF TypeOK
  <2>6. Shape'
    BY <1>1, <1>2, <1>4, <1>5, <1>10 DEF Shape, WorkerAt, Fresh
  <2>7. Apart'
    <3>1. e \notin ToSet(topic.out) \cup ToSet(Flushing) \cup ToSet(outbox) \cup ToSet(Writing)
      BY <2>2 DEF Answers
    <3>2. QED
      BY <1>1, <1>2, <1>4, <1>6, <1>7, <1>10, <2>4, <3>1 DEF Apart
  <2>8. Origin'
    BY <1>1, <1>4, <1>5, <1>6, <1>7, <1>10 DEF Origin, FromTopic
  <2>9. /\ Pending' = Pending \ {q} /\ ToSet(Asked)' = ToSet(Asked) \ {q}
        /\ \/ Answers' = Answers \cup {e} /\ dropped' = dropped
           \/ Answers' = Answers /\ dropped' = dropped \cup {q.n}
    BY <1>2, <1>4, <1>6, <1>7, <1>8, <1>10, <2>4 DEF Pending, Answers
  <2>10. Ledger'
    <3>1. /\ kind \in Kinds \ {"handled"} /\ kind # "duplicate" /\ kind # "nameless"
          /\ q \notin ToSet(Asked)
      BY <1>8 DEF Kinds
    <3>2. QED
      BY <1>2, <1>4, <1>8, <2>9, <3>1, AnswerOne DEF e
  <2>11. QED
    BY <2>5, <2>6, <2>7, <2>8, <2>10 DEF IInv
<1>11. ASSUME ~retired, topic' = [topic EXCEPT !.in = Append(@, q)], UNCHANGED <<outbox, dropped>>
       PROVE  IInv'
  <2>1. topic'.in = Append(topic.in, q) /\ topic'.out = topic.out /\ topic.in \in Seq(Request)
    BY <1>1, <1>11 DEF TypeOK
  <2>2. /\ topic'.in \in Seq(Request) /\ ToSet(topic'.in) = ToSet(topic.in) \cup {q}
        /\ Once(topic.in) /\ q \notin ToSet(topic.in) => Once(topic'.in)
    BY <1>7, <2>1, OnceAppend
  <2>3. TypeOK'
    <3>1. topic' \in [in : Seq(Request), out : Seq(Response)]
      BY <1>1, <1>11, <2>1, <2>2 DEF TypeOK
    <3>2. QED
      BY <1>1, <1>2, <1>4, <1>6, <1>7, <1>9, <1>11, <3>1 DEF TypeOK
  <2>4. Shape'
    BY <1>1, <1>2, <1>4, <1>5, <1>11 DEF Shape, WorkerAt, Fresh
  <2>5. Apart'
    BY <1>1, <1>2, <1>4, <1>6, <1>7, <1>8, <1>11, <2>1, <2>2 DEF Apart
  <2>6. Origin'
    <3>1. main.gen <= main.gen
      BY <1>1 DEF TypeOK
    <3>2. QED
      BY <1>1, <1>4, <1>5, <1>6, <1>7, <1>8, <2>1, <2>2, <3>1 DEF Origin, FromTopic
  <2>7. Pending' = Pending /\ Answers' = Answers /\ ToSet(Asked)' = ToSet(Asked)
    BY <1>2, <1>4, <1>6, <1>7, <1>11, <2>1, <2>2 DEF Pending, Answers
  <2>8. Ledger'
    BY <1>2, <1>4, <1>11, <2>7, LoseSome
  <2>9. QED
    BY <2>3, <2>4, <2>5, <2>6, <2>8 DEF IInv
<1>12. QED
  BY <1>3, <1>10, <1>11

(* Answers to dead connections go.                                          *)
LEMMA CollectKeeps ==
  ASSUME IInv, Collect
  PROVE  IInv'
<1>1. TypeOK /\ Shape /\ Apart /\ Origin
  BY DEF IInv
<1>2. /\ UNCHANGED <<inbox, outbox, dropped, stale, handled, notMain>>
      /\ main' = [main EXCEPT !.pc = "Flush", !.held = OfResponses(topic.out, main.gen)]
      /\ topic' = [topic EXCEPT !.out = <<>>] /\ main.pc = "Serve" /\ main.held = <<>>
  BY DEF Collect, MainAt
<1>3. /\ Asked' = Asked /\ Writing' = Writing /\ worker' = worker
      /\ UNCHANGED <<activeIds, generation, open, runtimeGate, retired, frames, careless, written>>
  BY <1>2, WorkerAlone
<1>4. /\ main'.held = OfResponses(topic.out, main.gen)
      /\ main'.pc = "Flush" /\ main'.gen = main.gen
      /\ topic'.in = topic.in /\ topic'.out = <<>> /\ topic.out \in Seq(Response)
  BY <1>1, <1>2 DEF TypeOK
<1>5. /\ Serving = <<>> /\ Flushing = <<>>
      /\ Serving' = <<>> /\ Flushing' = OfResponses(topic.out, main.gen)
  BY <1>2, <1>4 DEF Serving, Flushing, MainAt
<1>6. ToSet(<<>>) = {} /\ Once(<<>>) /\ \A S : <<>> \in Seq(S)
  BY Nothing
<1>7. /\ Flushing' \in Seq(Response)
      /\ ToSet(Flushing') = {r \in ToSet(topic.out) : r.req.gen = main.gen}
      /\ Once(topic.out) => Once(Flushing')
  BY <1>4, <1>5, OfAnswers
<1>8. TypeOK'
  <2>1. main' \in [pc : MainPc, gen : Nat, held : Seq(Request) \cup Seq(Response)]
    BY <1>1, <1>2, <1>5, <1>7 DEF TypeOK, MainPc
  <2>2. topic' \in [in : Seq(Request), out : Seq(Response)]
    BY <1>1, <1>2, <1>6 DEF TypeOK
  <2>3. QED
    BY <1>1, <1>2, <1>3, <1>5, <1>6, <1>7, <2>1, <2>2 DEF TypeOK
<1>9. Shape'
  BY <1>1, <1>2, <1>3, <1>4 DEF Shape, WorkerAt, Fresh
<1>10. Apart'
  BY <1>1, <1>2, <1>3, <1>4, <1>5, <1>6, <1>7 DEF Apart
<1>11. Origin'
  BY <1>1, <1>2, <1>3, <1>4, <1>5, <1>6, <1>7 DEF Origin, FromTopic
<1>12. /\ ToSet(Asked)' = ToSet(Asked) /\ Pending' = Pending /\ Answers' \subseteq Answers
       /\ \A r \in Answers \ Answers' : r \in ToSet(topic.out) /\ r.req.gen # main.gen
  BY <1>2, <1>3, <1>4, <1>5, <1>6, <1>7 DEF Pending, Answers
<1>13. Ledger'
  <2>1. \A r \in Answers \ Answers' : r.req.gen # generation
    <3>1. main.gen \in Nat /\ generation \in Nat /\ main.gen <= generation
      BY <1>1 DEF TypeOK, Shape
    <3>2. \A r \in ToSet(topic.out) : r.req.gen \in Nat /\ r.req.gen <= main.gen
      BY <1>1, Places DEF Answers, Response, Request, Origin
    <3>3. \A k \in Nat : k <= main.gen /\ k # main.gen => k # generation
      BY <3>1
    <3>4. QED
      BY <1>12, <3>2, <3>3
  <2>2. QED
    BY <1>2, <1>3, <1>12, <2>1, LoseSome
<1>14. QED
  BY <1>8, <1>9, <1>10, <1>11, <1>13 DEF IInv

(* An answer enters the outbox.                                             *)
LEMMA FlushKeeps ==
  ASSUME IInv, Flush
  PROVE  IInv'
<1> DEFINE e == Head(main.held)
<1>1. TypeOK /\ Shape /\ Apart /\ Origin
  BY DEF IInv
<1>2. /\ UNCHANGED <<inbox, topic, stale, handled, notMain>> /\ Push(e)
      /\ main' = [main EXCEPT !.held = Tail(@)] /\ main.pc = "Flush" /\ main.held # <<>>
  BY DEF Flush, MainAt
<1>3. /\ Asked' = Asked /\ Writing' = Writing /\ worker' = worker
      /\ UNCHANGED <<activeIds, generation, open, runtimeGate, retired, frames, careless, written>>
  BY <1>2, WorkerAlone
<1>4. main'.pc = "Flush" /\ main'.held = Tail(main.held) /\ main'.gen = main.gen
  BY <1>1, <1>2 DEF TypeOK
<1>5. /\ Serving = <<>> /\ Flushing = main.held /\ Serving' = <<>> /\ Flushing' = Tail(Flushing)
      /\ Flushing \in Seq(Response) /\ Once(Flushing)
  BY <1>1, <1>2, <1>4 DEF Serving, Flushing, MainAt, TypeOK, Apart
<1>6. /\ e \in ToSet(Flushing) /\ e \in Response /\ Flushing' \in Seq(Response)
      /\ ToSet(Flushing') = ToSet(Flushing) \ {e} /\ Once(Flushing')
  BY <1>2, <1>5, OnceTail
<1> HIDE DEF e
<1>7. /\ outbox' \in Seq(Response) /\ dropped' \subseteq Numbers /\ dropped \subseteq dropped'
      /\ \/ ToSet(outbox') = ToSet(outbox) \cup {e} /\ dropped' = dropped
         \/ outbox' = outbox /\ dropped' = dropped \cup {e.req.n}
      /\ Once(outbox) /\ e \notin ToSet(outbox) => Once(outbox')
  BY <1>1, <1>2, <1>6, Pushed
<1>8. TypeOK'
  <2>1. main' \in [pc : MainPc, gen : Nat, held : Seq(Request) \cup Seq(Response)]
    BY <1>1, <1>2, <1>5, <1>6 DEF TypeOK
  <2>2. QED
    BY <1>1, <1>2, <1>3, <1>5, <1>6, <1>7, <2>1 DEF TypeOK
<1>9. Shape'
  BY <1>1, <1>2, <1>3, <1>4 DEF Shape, WorkerAt, Fresh
<1>10. Apart'
  BY <1>1, <1>2, <1>3, <1>5, <1>6, <1>7 DEF Apart
<1>11. Origin'
  BY <1>1, <1>2, <1>3, <1>4, <1>5, <1>6 DEF Origin, FromTopic
<1>12. /\ ToSet(Asked)' = ToSet(Asked) /\ Pending' = Pending /\ Answers' \subseteq Answers
       /\ \A r \in Answers \ Answers' : r.req.n \in dropped'
  BY <1>2, <1>3, <1>5, <1>6, <1>7 DEF Pending, Answers
<1>13. Ledger'
  BY <1>2, <1>3, <1>7, <1>12, LoseSome
<1>14. QED
  BY <1>8, <1>9, <1>10, <1>11, <1>13 DEF IInv

(* The handler's turn leaves the topic without requests and with an answer  *)
(* for each of those it had.                                                *)
LEMMA TopicAnswered ==
  ASSUME IInv, HandlerTurn, MainGoto("Idle"),
         UNCHANGED <<inbox, outbox, activeIds, generation, worker, open, runtimeGate>>,
         UNCHANGED <<frames, careless, written, dropped, stale>>,
         retired' \in BOOLEAN,
         NEW s \in Seq(Response), NEW H,
         topic' = [in |-> <<>>, out |-> topic.out \o s], Once(s),
         Given(H), Answering(ToSet(topic.in), ToSet(s), H)
  PROVE  IInv'
<1> DEFINE T == ToSet(topic.in)
           R == ToSet(s)
<1>1. TypeOK /\ Shape /\ Apart /\ Origin /\ Unique
  BY DEF IInv, Ledger
<1>2. main.pc = "Flush" /\ main.held = <<>> /\ main' = [main EXCEPT !.pc = "Idle"]
  BY DEF HandlerTurn, MainAt, MainGoto
<1>3. main'.pc = "Idle" /\ main'.held = <<>> /\ main'.gen = main.gen
  BY <1>1, <1>2 DEF TypeOK
<1>4. /\ Serving = <<>> /\ Flushing = <<>> /\ Serving' = <<>> /\ Flushing' = <<>>
      /\ Asked' = Asked /\ Writing' = Writing
  BY <1>2, <1>3 DEF Serving, Flushing, MainAt, Asked, Writing, WorkerAt
<1>5. topic'.in = <<>> /\ topic'.out = topic.out \o s /\ topic.out \in Seq(Response)
  BY <1>1 DEF TypeOK
<1>6. ToSet(<<>>) = {} /\ Once(<<>>) /\ \A S : <<>> \in Seq(S)
  BY Nothing
<1>7. /\ topic'.out \in Seq(Response) /\ ToSet(topic'.out) = ToSet(topic.out) \cup R
      /\ Once(topic.out) /\ Once(s) /\ ToSet(topic.out) \cap R = {} => Once(topic'.out)
  BY <1>5, OnceConcat
<1>8. R \subseteq Response
  <2>1. DOMAIN s = 1..Len(s) /\ \A i \in 1..Len(s) : s[i] \in Response
    BY LenProperties
  <2>2. QED
    BY <2>1 DEF ToSet
<1>9. T \subseteq Pending /\ T \cap ToSet(Asked) = {} /\ T \cap ToSet(inbox) = {}
  BY <1>1 DEF Pending, Apart
<1>10. /\ handled' \in [Numbers -> Nat]
       /\ \A r \in R : r.req \in T /\ FromTopic(r)
       /\ Answering(T, R, H)
  BY DEF Given, Answering
<1> HIDE DEF T, R
<1>11. R \cap Answers = {}
  <2>1. \A r \in R : r.req \in Pending
    BY <1>9, <1>10
  <2>2. QED
    BY <1>1, <2>1 DEF Unique
<1>12. TypeOK'
  <2>1. main' \in [pc : MainPc, gen : Nat, held : Seq(Request) \cup Seq(Response)]
    BY <1>1, <1>2 DEF TypeOK, MainPc
  <2>2. topic' \in [in : Seq(Request), out : Seq(Response)]
    BY <1>5, <1>6, <1>7
  <2>3. QED
    BY <1>1, <1>4, <1>6, <1>10, <2>1, <2>2 DEF TypeOK
<1>13. Shape'
  BY <1>1, <1>3, <1>5 DEF Shape, WorkerAt, Fresh
<1>14. Apart'
  <2>1. R \cap (ToSet(topic.out) \cup ToSet(outbox) \cup ToSet(Writing)) = {}
    BY <1>11 DEF Answers
  <2>2. QED
    BY <1>1, <1>4, <1>5, <1>6, <1>7, <2>1 DEF Apart
<1>15. Origin'
  <2>1. \A r \in R : r.req.gen <= main.gen /\ FromTopic(r)
    BY <1>1, <1>10 DEF Origin, T
  <2>2. QED
    BY <1>1, <1>3, <1>4, <1>5, <1>6, <1>7, <2>1 DEF Origin, FromTopic
<1>16. Pending' = Pending \ T /\ Answers' = Answers \cup R /\ ToSet(Asked)' = ToSet(Asked)
  <2>1. Pending = ToSet(Asked) \cup ToSet(inbox) \cup T
    BY <1>4, <1>6 DEF Pending, T
  <2>2. Pending' = ToSet(Asked) \cup ToSet(inbox)
    BY <1>4, <1>5, <1>6 DEF Pending
  <2>3. Answers' = Answers \cup R
    BY <1>4, <1>6, <1>7 DEF Answers
  <2>4. QED
    BY <1>4, <1>9, <2>1, <2>2, <2>3
<1>17. Ledger'
  <2>1. T \in SUBSET Pending /\ R \in SUBSET Response
    BY <1>8, <1>9
  <2>2. UNCHANGED <<generation, activeIds, worker, frames, careless, written, dropped, stale>>
    OBVIOUS
  <2>3. T \cap ToSet(Asked) = {}
    BY <1>9
  <2>4. QED
    BY <1>10, <1>16, <2>1, <2>2, <2>3, AnswerTopic
<1>18. QED
  BY <1>12, <1>13, <1>14, <1>15, <1>17 DEF IInv

(* What the handler's turn counts.                                          *)
LEMMA HandleCounts ==
  ASSUME IInv, NEW q \in Seq(Request), Once(q), ToSet(q) \subseteq Pending, Handle(q)
  PROVE  Given(ToSet(q))
<1>1. handled \in [Numbers -> Nat] /\ Genuine
  BY DEF IInv, TypeOK, Ledger
<1>2. \A x, y \in ToSet(q) : x.n = y.n => x = y
  BY <1>1 DEF Genuine, IsFrame
<1>3. \A n \in Numbers : Cardinality({i \in DOMAIN q : q[i].n = n})
                           = Among(ToSet(q), n)
  BY <1>2, Counted
<1>4. handled' = [n \in Numbers |-> handled[n] + Cardinality({i \in DOMAIN q : q[i].n = n})]
  BY DEF Handle
<1>5. handled' = [n \in Numbers |-> handled[n] + Among(ToSet(q), n)]
  BY <1>3, <1>4
<1>6. \A n \in Numbers : Among(ToSet(q), n) \in Nat
  BY DEF Among
<1>7. QED
  BY <1>1, <1>5, <1>6 DEF Given

(* The handler has all requests of the topic.                               *)
LEMMA HandlerRunsKeeps ==
  ASSUME IInv, HandlerRuns
  PROVE  IInv'
<1>1. TypeOK /\ Shape /\ Apart
  BY DEF IInv
<1>2. /\ HandlerTurn /\ MainGoto("Idle")
      /\ UNCHANGED <<inbox, outbox, dropped, stale, notMain>>
  BY DEF HandlerRuns
<1>3. /\ UNCHANGED <<activeIds, generation, worker, open, runtimeGate, retired>>
      /\ UNCHANGED <<frames, careless, written>>
      /\ retired \in BOOLEAN
  BY <1>1, <1>2, WorkerAlone DEF TypeOK
<1>4. CASE retired
  <2>1. UNCHANGED <<topic, handled>>
    BY <1>4 DEF HandlerRuns
  <2>2. main.pc = "Flush" /\ main.held = <<>> /\ main' = [main EXCEPT !.pc = "Idle"]
    BY <1>2 DEF HandlerTurn, MainAt, MainGoto
  <2>3. main'.pc = "Idle" /\ main'.held = <<>> /\ main'.gen = main.gen
    BY <1>1, <2>2 DEF TypeOK
  <2>4. Serving = <<>> /\ Flushing = <<>> /\ Serving' = <<>> /\ Flushing' = <<>>
    BY <2>2, <2>3 DEF Serving, Flushing, MainAt
  <2>5. main' \in [pc : MainPc, gen : Nat, held : Seq(Request) \cup Seq(Response)]
    BY <1>1, <2>2 DEF TypeOK, MainPc
  <2>6. main.gen <= main'.gen /\ main'.gen <= generation
    BY <1>1, <2>3 DEF TypeOK, Shape
  <2>7. open' \in BOOLEAN /\ runtimeGate' \in BOOLEAN /\ \A x \in ToSet(Serving) : x.gen = main'.gen
    BY <1>1, <1>3, <2>4, Nothing DEF TypeOK
  <2>8. QED
    BY <1>2, <1>3, <2>1, <2>3, <2>4, <2>5, <2>6, <2>7, NothingMoves
<1>5. CASE ~retired
  <2> DEFINE s == Replies(topic.in, "handled")
  <2>1. topic' = [in |-> <<>>, out |-> topic.out \o s] /\ Handle(topic.in)
    BY <1>5 DEF HandlerRuns
  <2>2. topic.in \in Seq(Request) /\ Once(topic.in) /\ ToSet(topic.in) \subseteq Pending
    BY <1>1 DEF TypeOK, Apart, Pending
  <2>3. /\ s \in Seq(Response) /\ ToSet(s) = {Reply(x, "handled") : x \in ToSet(topic.in)}
        /\ Once(s)
    <3>1. "handled" \in Kinds
      BY DEF Kinds
    <3>2. QED
      BY <2>2, <3>1, Replied
  <2> HIDE DEF s
  <2>4. Answering(ToSet(topic.in), ToSet(s), ToSet(topic.in))
    <3>1. \A x \in ToSet(topic.in) : Reply(x, "handled") \in ToSet(s) /\ Reply(x, "handled").req = x
      BY <2>3 DEF Reply
    <3>2. \A r \in ToSet(s) : /\ r.req \in ToSet(topic.in) /\ r.kind = "handled"
                           /\ r = Reply(r.req, "handled")
      BY <2>3 DEF Reply
    <3>3. \A r \in ToSet(s) : FromTopic(r)
      BY <3>2 DEF FromTopic
    <3>4. \A r, t \in ToSet(s) : r.req = t.req => r = t
      BY <3>2
    <3>5. QED
      BY <3>1, <3>2, <3>3, <3>4 DEF Answering
  <2>5. Given(ToSet(topic.in))
    BY <2>1, <2>2, HandleCounts
  <2>6. QED
    BY <1>2, <1>3, <2>1, <2>3, <2>4, <2>5, TopicAnswered
<1>6. QED
  BY <1>4, <1>5

(* The retirement answers them.                                             *)
LEMMA RetireKeeps ==
  ASSUME IInv, Retire
  PROVE  IInv'
<1> DEFINE s == Replies(topic.in, "unavailable")
<1>1. TypeOK /\ Apart
  BY DEF IInv
<1>2. /\ HandlerTurn /\ MainGoto("Idle") /\ retired' \in BOOLEAN
      /\ UNCHANGED <<inbox, outbox, activeIds, generation, worker, open, runtimeGate>>
      /\ UNCHANGED <<frames, careless, written, dropped, stale, handled>>
      /\ topic' = [in |-> <<>>, out |-> topic.out \o s]
  BY DEF Retire
<1>3. topic.in \in Seq(Request) /\ Once(topic.in)
  BY <1>1 DEF TypeOK, Apart
<1>4. /\ s \in Seq(Response) /\ ToSet(s) = {Reply(x, "unavailable") : x \in ToSet(topic.in)}
      /\ Once(s)
  <2>1. "unavailable" \in Kinds
    BY DEF Kinds
  <2>2. QED
    BY <1>3, <2>1, Replied
<1> HIDE DEF s
<1>5. Answering(ToSet(topic.in), ToSet(s), {})
  <2>1. \A x \in ToSet(topic.in) : /\ Reply(x, "unavailable") \in ToSet(s)
                                  /\ Reply(x, "unavailable").req = x
    BY <1>4 DEF Reply
  <2>2. \A r \in ToSet(s) : /\ r.req \in ToSet(topic.in) /\ r.kind = "unavailable"
                         /\ r = Reply(r.req, "unavailable")
    BY <1>4 DEF Reply
  <2>3. \A r \in ToSet(s) : FromTopic(r)
    BY <2>2 DEF FromTopic
  <2>4. \A r, t \in ToSet(s) : r.req = t.req => r = t
    BY <2>2
  <2>5. QED
    BY <2>1, <2>2, <2>3, <2>4 DEF Answering
<1>6. Given({})
  BY <1>1, <1>2 DEF TypeOK, Among, Given
<1>7. QED
  BY <1>2, <1>4, <1>5, <1>6, TopicAnswered

(* Those before the panic are handled, the others answered as unavailable.  *)
LEMMA HandlerPanicsKeeps ==
  ASSUME IInv, HandlerPanics
  PROVE  IInv'
<1> DEFINE p == topic.in
<1>1. TypeOK /\ Apart
  BY DEF IInv
<1>2. /\ HandlerTurn /\ MainGoto("Idle") /\ retired' \in BOOLEAN
      /\ UNCHANGED <<inbox, outbox, activeIds, generation, worker, open, runtimeGate>>
      /\ UNCHANGED <<frames, careless, written, dropped, stale>>
  BY DEF HandlerPanics
<1>3. PICK k \in DOMAIN p :
        /\ topic' = [in  |-> <<>>,
                     out |-> topic.out \o Replies(SubSeq(p, 1, k - 1), "handled")
                               \o Replies(SubSeq(p, k, Len(p)), "unavailable")]
        /\ Handle(SubSeq(p, 1, k))
  BY DEF HandlerPanics
<1>4. p \in Seq(Request) /\ Once(p) /\ topic.out \in Seq(Response) /\ ToSet(p) \subseteq Pending
  BY <1>1 DEF TypeOK, Apart, Pending
<1> HIDE DEF p
<1> DEFINE before == SubSeq(p, 1, k - 1)
           rest   == SubSeq(p, k, Len(p))
           given  == SubSeq(p, 1, k)
           a      == Replies(before, "handled")
           b      == Replies(rest, "unavailable")
           s      == a \o b
<1>5. /\ Len(p) \in Nat /\ DOMAIN p = 1..Len(p) /\ k \in Nat \ {0} /\ 1 \in Nat \ {0}
      /\ k - 1 \in 0..Len(p) /\ k \in 0..Len(p) /\ Len(p) \in 0..Len(p)
  <2>1. Len(p) \in Nat /\ DOMAIN p = 1..Len(p)
    BY <1>4, LenProperties
  <2>2. QED
    BY <2>1
<1>6. /\ before \in Seq(Request) /\ ToSet(before) = {p[i] : i \in 1..(k - 1)} /\ Once(before)
      /\ rest \in Seq(Request) /\ ToSet(rest) = {p[i] : i \in k..Len(p)} /\ Once(rest)
      /\ given \in Seq(Request) /\ ToSet(given) = {p[i] : i \in 1..k} /\ Once(given)
  <2>1. before \in Seq(Request) /\ ToSet(before) = {p[i] : i \in 1..(k - 1)} /\ Once(before)
    BY <1>4, <1>5, OncePart
  <2>2. rest \in Seq(Request) /\ ToSet(rest) = {p[i] : i \in k..Len(p)} /\ Once(rest)
    BY <1>4, <1>5, OncePart
  <2>3. given \in Seq(Request) /\ ToSet(given) = {p[i] : i \in 1..k} /\ Once(given)
    BY <1>4, <1>5, OncePart
  <2>4. QED
    BY <2>1, <2>2, <2>3
<1>7. /\ "handled" \in Kinds /\ "unavailable" \in Kinds
  BY DEF Kinds
<1> HIDE DEF before, rest, given
<1>8. /\ a \in Seq(Response) /\ ToSet(a) = {Reply(x, "handled") : x \in ToSet(before)} /\ Once(a)
      /\ b \in Seq(Response) /\ ToSet(b) = {Reply(x, "unavailable") : x \in ToSet(rest)} /\ Once(b)
  BY <1>6, <1>7, Replied
<1>9. topic' = [in |-> <<>>, out |-> topic.out \o s] /\ Handle(given)
  <2>1. ASSUME NEW o \in Seq(Response), NEW c \in Seq(Response), NEW d \in Seq(Response)
        PROVE  (o \o c) \o d = o \o (c \o d)
    BY ConcatAssociative
  <2>2. (topic.out \o a) \o b = topic.out \o (a \o b)
    BY <1>4, <1>8, <2>1
  <2>3. QED
    BY <1>3, <2>2 DEF before, rest, given
<1>10. /\ ToSet(before) \cap ToSet(rest) = {} /\ ToSet(before) \subseteq ToSet(given)
       /\ ToSet(p) = ToSet(before) \cup ToSet(rest) /\ ToSet(given) \subseteq ToSet(p)
  <2>1. /\ \A i \in 1..(k - 1) : i \in 1..k /\ i \in 1..Len(p)
        /\ \A i \in k..Len(p) : i \in 1..Len(p)
        /\ \A i \in 1..k : i \in 1..Len(p)
        /\ \A i \in 1..Len(p) : i \in 1..(k - 1) \/ i \in k..Len(p)
        /\ \A i \in 1..(k - 1), j \in k..Len(p) : i # j
    BY <1>5
  <2>2. \A i, j \in 1..Len(p) : p[i] = p[j] => i = j
    BY <1>4, <1>5 DEF Once
  <2>3. ToSet(before) \cap ToSet(rest) = {}
    <3>1. ASSUME NEW i \in 1..(k - 1), NEW j \in k..Len(p), p[i] = p[j] PROVE FALSE
      <4>1. i \in 1..Len(p) /\ j \in 1..Len(p) /\ i # j
        BY <2>1
      <4>2. QED
        BY <2>2, <3>1, <4>1
    <3>2. QED
      BY <1>6, <3>1
  <2>4. ToSet(p) = {p[i] : i \in 1..Len(p)}
    BY <1>5 DEF ToSet
  <2>5. QED
    BY <1>6, <2>1, <2>3, <2>4
<1> HIDE DEF a, b
<1>11. s \in Seq(Response) /\ ToSet(s) = ToSet(a) \cup ToSet(b) /\ Once(s)
  <2>1. ToSet(a) \cap ToSet(b) = {}
    BY <1>8, <1>10 DEF Reply
  <2>2. QED
    BY <1>8, <2>1, OnceConcat
<1> HIDE DEF s
<1>12. \A r \in ToSet(s) : \/ /\ r.req \in ToSet(before) /\ r.kind = "handled"
                              /\ r = Reply(r.req, "handled")
                           \/ /\ r.req \in ToSet(rest) /\ r.kind = "unavailable"
                              /\ r = Reply(r.req, "unavailable")
  BY <1>8, <1>11 DEF Reply
<1>13. Answering(ToSet(p), ToSet(s), ToSet(given))
  <2>1. \A x \in ToSet(before) : \E r \in ToSet(s) : r.req = x
    <3>1. \A x \in ToSet(before) : Reply(x, "handled") \in ToSet(s) /\ Reply(x, "handled").req = x
      BY <1>8, <1>11 DEF Reply
    <3>2. QED
      BY <3>1
  <2>2. \A x \in ToSet(rest) : \E r \in ToSet(s) : r.req = x
    <3>1. \A x \in ToSet(rest) : /\ Reply(x, "unavailable") \in ToSet(s)
                                /\ Reply(x, "unavailable").req = x
      BY <1>8, <1>11 DEF Reply
    <3>2. QED
      BY <3>1
  <2>3. \A x \in ToSet(p) : \E r \in ToSet(s) : r.req = x
    BY <1>10, <2>1, <2>2
  <2>4. \A r \in ToSet(s) : /\ r.req \in ToSet(p) /\ FromTopic(r)
                            /\ r.kind = "handled" => r.req \in ToSet(given)
    BY <1>10, <1>12 DEF FromTopic
  <2>5. \A r, t \in ToSet(s) : r.req = t.req => r = t
    BY <1>10, <1>12
  <2>6. QED
    BY <1>10, <2>3, <2>4, <2>5 DEF Answering
<1>14. Given(ToSet(given))
  <2>1. ToSet(given) \subseteq Pending
    BY <1>4, <1>10
  <2>2. QED
    BY <1>6, <1>9, <2>1, HandleCounts
<1>15. Answering(ToSet(topic.in), ToSet(s), ToSet(given))
  BY <1>13 DEF p
<1>16. QED
  BY <1>2, <1>9, <1>11, <1>14, <1>15, TopicAnswered

-----------------------------------------------------------------------------
(* The invariant is inductive.                                              *)

(* Every step preserves it.                                                 *)
LEMMA IInvNext == IInv /\ [Next]_vars => IInv'
<1> SUFFICES ASSUME IInv, [Next]_vars PROVE IInv'
  OBVIOUS
<1>1. CASE Accept
  BY <1>1, AcceptKeeps
<1>2. CASE ReadFrame
  BY <1>2, ReadFrameKeeps
<1>3. CASE Hangup \/ RuntimeFails \/ UNCHANGED vars
  BY <1>3, GatesKeep
<1>4. CASE WorkerStep
  BY <1>4, PurgeKeeps, DrainOutboxKeeps, WriteKeeps, RefuseKeeps, EnqueueKeeps, DisconnectKeeps
  DEF WorkerStep
<1>5. CASE MainStep
  BY <1>5, DispatchKeeps, DrainInboxKeeps, ServeKeeps, CollectKeeps, FlushKeeps, HandlerRunsKeeps,
     HandlerPanicsKeeps, RetireKeeps DEF MainStep
<1>6. QED
  BY <1>1, <1>2, <1>3, <1>4, <1>5 DEF Next

(* So it always holds.                                                      *)
LEMMA Inductive == Spec => []IInv
BY IInvInit, IInvNext, PTL DEF Spec

-----------------------------------------------------------------------------
(* What it says of the service.                                             *)

(* Every queue, every thread and every history holds what belongs there.    *)
THEOREM TypeCorrect == Spec => []TypeOK
<1>1. IInv => TypeOK
  BY DEF IInv
<1>2. QED
  BY <1>1, Inductive, PTL

(* A response goes to the connection its request came from, a request gets  *)
(* one at most, and the handler has a request once at most, and not one     *)
(* that is refused (write_responses, DebugHandlerSystem::run).              *)
THEOREM AnswersAreOnceAndHere == Spec => []AnsweredOnceAndHere
<1>1. ASSUME IInv PROVE AnsweredOnceAndHere
  <2>1. Genuine /\ Unique /\ HandlerInv
    BY <1>1 DEF IInv, Ledger
  <2>2. \A v, w \in written : v.req.n = w.req.n => v = w
    BY <2>1 DEF Genuine, IsFrame, Unique
  <2>3. \A w \in written : Explained(w)
    BY <2>1 DEF HandlerInv
  <2>4. QED
    BY <2>1, <2>2, <2>3 DEF AnsweredOnceAndHere, Genuine, HandlerInv, Explained, FromTopic
<1>2. QED
  BY <1>1, Inductive, PTL

(* Queues of requests and of answers, by the numbers in them.               *)
LEMMA Queued ==
  ASSUME NEW q, NEW n
  PROVE  /\ InQueue(q, n) <=> \E x \in ToSet(q) : x.n = n
         /\ InResponses(q, n) <=> \E r \in ToSet(q) : r.req.n = n
BY DEF InQueue, InResponses, ToSet

(* A frame of the live connection is somewhere on its way, answered, or     *)
(* given up at a limit: an answer that met a full outbox, or a run of the   *)
(* dispatch system that began under an older connection (drain_requests).   *)
THEOREM FramesAreNotLost == Spec => []NothingIsLost
<1>1. ASSUME IInv PROVE NothingIsLost
  <2>1. NothingLost /\ Genuine
    BY <1>1 DEF IInv, Ledger
  <2>2. ASSUME NEW n \in DOMAIN frames, frames[n].gen = generation, ~WorkerAt("Accept")
        PROVE  \/ InQueue(inbox, n) \/ InResponses(outbox, n)
               \/ InQueue(topic.in, n) \/ InResponses(topic.out, n)
               \/ IF WorkerAt("Write") THEN InResponses(worker.held, n) ELSE InQueue(worker.held, n)
               \/ IF MainAt("Flush") THEN InResponses(main.held, n) ELSE InQueue(main.held, n)
               \/ n \in dropped \cup stale \/ \E w \in written : w.req.n = n
    <3>1. frames[n].n = n /\ Accounted(n)
      BY <2>1, <2>2 DEF Genuine, NothingLost
    <3>2. CASE frames[n] \in Pending
      <4>1. \/ InQueue(Asked, n) \/ InQueue(inbox, n) \/ InQueue(Serving, n) \/ InQueue(topic.in, n)
        BY <3>1, <3>2, Queued DEF Pending
      <4>2. ~InQueue(<<>>, n)
        BY DEF InQueue
      <4>3. QED
        BY <4>1, <4>2 DEF Asked, Serving
    <3>3. CASE \E r \in Answers : r.req = frames[n]
      <4>1. \/ InResponses(Writing, n) \/ InResponses(outbox, n)
            \/ InResponses(Flushing, n) \/ InResponses(topic.out, n)
        BY <3>1, <3>3, Queued DEF Answers
      <4>2. ~InResponses(<<>>, n)
        BY DEF InResponses
      <4>3. QED
        BY <4>1, <4>2 DEF Writing, Flushing
    <3>4. CASE n \in dropped \cup stale \/ \E w \in written : w.req = frames[n]
      BY <3>1, <3>4
    <3>5. QED
      BY <3>1, <3>2, <3>3, <3>4 DEF Accounted
  <2>3. QED
    BY <2>2 DEF NothingIsLost
<1>2. QED
  BY <1>1, Inductive, PTL

(* Who waits for an answer before the id is used again is never told that   *)
(* the id is active (handle_frame, DUPLICATE_REQUEST_ID).                   *)
THEOREM CarefulClientsAreServed == Spec => []CarefulFrameIsNotRefused
<1>1. ASSUME IInv PROVE CarefulFrameIsNotRefused
  BY <1>1 DEF IInv, Ledger, CarelessInv, CarefulFrameIsNotRefused
<1>2. QED
  BY <1>1, Inductive, PTL

(* Two frames of a connection with one id are on their way to the handler   *)
(* only after the answer to a third has freed the id (active_ids).          *)
THEOREM IdsAreExclusive == Spec => []OneFramePerId
<1>1. ASSUME IInv PROVE OneFramePerId
  <2>1. Genuine /\ BusyInv /\ Apart
    BY <1>1 DEF IInv, Ledger
  <2>2. ASSUME NEW n \in Delivered PROVE n \in DOMAIN frames /\ Busy(n)
    <3>1. n \in DOMAIN frames /\ frames[n].gen = generation
      BY DEF Delivered
    <3>2. ~MainAt("Flush") => Serving = main.held
      BY DEF Serving
    <3>3. InQueue(inbox, n) \/ InQueue(topic.in, n) \/ InQueue(Serving, n)
      BY <3>2 DEF Delivered
    <3>4. PICK x \in ToSet(inbox) \cup ToSet(topic.in) \cup ToSet(Serving) : x.n = n
      BY <3>3, Queued
    <3>5. x \in Pending \ ToSet(Asked)
      BY <2>1, <3>4 DEF Pending, Apart
    <3>6. frames[n] = x
      BY <2>1, <3>4, <3>5 DEF Genuine, IsFrame
    <3>7. QED
      BY <3>1, <3>5, <3>6 DEF Busy
  <2>3. ASSUME NEW m \in Delivered, NEW n \in Delivered, frames[m].id = frames[n].id
        PROVE  m = n \/ Freed(frames[m].id)
    BY <2>1, <2>2, <2>3 DEF BusyInv
  <2>4. QED
    BY <2>3 DEF OneFramePerId, Freed
<1>2. QED
  BY <1>1, Inductive, PTL

(* The retirement of the owner is final: its handler has no request after   *)
(* it, and none waits for it (dispatchable, the owner's gate).              *)
THEOREM RetirementIsFinal == Spec => RetiredIsNotServed
<1>1. ASSUME IInv, IInv', [Next]_vars, retired PROVE UNCHANGED handled /\ topic'.in = <<>>
  <2>1. retired' = TRUE /\ handled' = handled
    <3>1. CASE Accept \/ ReadFrame \/ Hangup
      BY <1>1, <3>1 DEF Accept, ReadFrame, Hangup, notWorker, gates
    <3>2. CASE WorkerStep
      BY <1>1, <3>2 DEF WorkerStep, Purge, DrainOutbox, Write, Refuse, Enqueue, Disconnect,
           notWorker, gates
    <3>3. CASE DispatchRuns \/ DrainInbox \/ Serve \/ Collect \/ Flush
      BY <1>1, <3>3 DEF DispatchRuns, DrainInbox, Serve, Collect, Flush, notMain, gates
    <3>4. CASE HandlerRuns \/ HandlerPanics \/ Retire
      BY <1>1, <3>4 DEF HandlerRuns, HandlerPanics, Retire, notMain, gates
    <3>5. CASE RuntimeFails \/ UNCHANGED vars
      BY <1>1, <3>5 DEF RuntimeFails, vars, history, gates
    <3>6. QED
      BY <1>1, <3>1, <3>2, <3>3, <3>4, <3>5 DEF Next, MainStep
  <2>2. Shape'
    BY <1>1 DEF IInv
  <2>3. QED
    BY <2>1, <2>2 DEF Shape
<1>2. IInv /\ IInv' /\ [Next]_vars => [retired => UNCHANGED handled /\ topic'.in = <<>>]_vars
  BY <1>1
<1>3. QED
  BY <1>2, Inductive, PTL DEF Spec, RetiredIsNotServed

===============================================================================
