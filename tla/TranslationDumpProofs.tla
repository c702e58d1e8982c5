------------------------ MODULE TranslationDumpProofs ------------------------
(***************************************************************************)
(* What the plugin translation_dump promises, for every set of keys, every *)
(* sequence of captured texts, every probe and every number of crashes.    *)
(* What its routes promise comes from CommandDrainProofs.                  *)
(***************************************************************************)
EXTENDS TranslationDump, FiniteSetTheorems, SequenceTheorems, TLAPS

R == INSTANCE CommandDrainProofs WITH
       Table <- <<"bounded", "bounded">>, Owner <- <<"dump", "dump">>

Disks == [table : Table, lyrics : (SUBSET Texts) \cup {Torn},
          files : [Topics -> [Keys -> FileStates]]]

MainPc == {"Idle", "Drain", "Topics", "Table", "Lyrics"}

-----------------------------------------------------------------------------
(* The inductive invariant.                                                 *)

TypeOK ==
  /\ R!TypeOK
  /\ entries \in Table
  /\ lyrics \in SUBSET Texts
  /\ dirty \in BOOLEAN /\ lyricsDirty \in BOOLEAN /\ instance \in BOOLEAN
  /\ frames \in 0..FlushInterval
  /\ read \in [D!Routes -> Nat]
  /\ cursor \in [Topics -> Nat]
  /\ probed \in [Topics -> SUBSET Keys]
  /\ began \in [Topics -> SUBSET Keys]
  /\ main \in [pc : MainPc, by : {"Update", "Topic"}]
  /\ life \in {"up", "down"}
  /\ crashes \in 0..MaxCrashes
  /\ disk \in Disks

(* A key that is on disk is in the table of the process that runs.          *)
DiskIsLoaded ==
  life = "up" => \A k \in Keys : disk.table[k] # None => entries[k] # None

(* A table only grows. While it is the one that a probe began with, the     *)
(* probe has gone past what lies before the cursor, and has left its files  *)
(* complete if it writes anew what exists.                                  *)
Behind(t) == {k \in Ids(t) : Place(t, k) < cursor[t]}

ProbesKept ==
  \A t \in Topics : cursor[t] > 0 =>
    /\ began[t] \subseteq Ids(t)
    /\ Ids(t) = began[t] => Behind(t) \subseteq probed[t]
    /\ Ids(t) = began[t] /\ t \notin Skipping =>
         \A k \in Behind(t) : disk.files[t][k] = "whole"

IInv == R!IInv /\ TypeOK /\ DiskIsLoaded /\ ProbesKept

-----------------------------------------------------------------------------
(* The routes are those of CommandDrain.                                    *)

(* The assumption of CommandDrain holds of the two routes.                  *)
LEMMA TwoRoutes == R!DrainAssumption
BY DumpAssumption DEF R!DrainAssumption, R!Kinds

(* A callback that begins to send.                                          *)
LEMMA BeginSendKeeps ==
  ASSUME R!IInv, NEW c \in Callbacks, NEW r \in D!Routes, D!BeginSend(c, r)
  PROVE  R!IInv'
<1>1. r \in R!Routes
  BY DEF D!Routes, R!Routes
<1>2. R!BeginSend(c, r)
  BY DEF D!BeginSend, R!BeginSend, D!NoSend, R!NoSend, D!stageVars, R!stageVars
<1>3. QED
  BY <1>1, <1>2, TwoRoutes, R!BeginKeeps

(* A callback that sends.                                                   *)
LEMMA SendStepKeeps ==
  ASSUME R!IInv, NEW c \in Callbacks, D!Send(c)
  PROVE  R!IInv'
<1> SUFFICES R!Send(c)
  BY TwoRoutes, R!SendKeeps
<1> USE DEF D!Store, R!Store, D!EndSend, R!EndSend, D!NoSend, R!NoSend, D!stageVars, R!stageVars
<1>1. CASE D!SendSingle(c)
  BY <1>1 DEF D!SendSingle, R!SendSingle, R!Send
<1>2. CASE D!SendShared_Busy(c)
  BY <1>2 DEF D!SendShared_Busy, R!SendShared_Busy, R!Send, D!Contended, R!Contended,
              D!DrainAt, R!DrainAt, D!Draining, R!Draining, D!Current, R!Current, D!Min, R!Min
<1>3. CASE D!SendBounded(c)
  BY <1>3 DEF D!SendBounded, R!SendBounded, R!Send
<1>4. CASE D!SendBounded_Full(c)
  BY <1>4 DEF D!SendBounded_Full, R!SendBounded_Full, R!Send
<1>5. QED
  BY <1>1, <1>2, <1>3, <1>4 DEF D!Send

(* A step of the stage that empties the routes.                             *)
LEMMA StageStepKeeps ==
  ASSUME R!IInv, D!Stage
  PROVE  R!IInv'
<1> SUFFICES R!Stage
  BY TwoRoutes, R!StageKeeps
<1> USE DEF D!Deliver, R!Deliver, D!Advance, R!Advance, D!Contended, R!Contended,
            D!Draining, R!Draining, D!Current, R!Current, D!Min, R!Min,
            D!sendVars, R!sendVars
<1>1. CASE D!StageBegins
  BY <1>1 DEF D!StageBegins, R!StageBegins, R!Stage, D!Routes, R!Routes
<1>2. CASE D!SkipEmpty
  BY <1>2 DEF D!SkipEmpty, R!SkipEmpty, R!Stage
<1>3. CASE D!ReadDepth
  BY <1>3 DEF D!ReadDepth, R!ReadDepth, R!Stage
<1>4. CASE D!TakeSingle
  BY <1>4 DEF D!TakeSingle, R!TakeSingle, R!Stage
<1>5. CASE D!TakeShared_Busy
  BY <1>5 DEF D!TakeShared_Busy, R!TakeShared_Busy, R!Stage
<1>6. CASE D!TakeBounded
  BY <1>6 DEF D!TakeBounded, R!TakeBounded, R!Stage
<1>7. QED
  BY <1>1, <1>2, <1>3, <1>4, <1>5, <1>6 DEF D!Stage

(* The plugin is retired.                                                   *)
LEMMA RetireStepKeeps ==
  ASSUME R!IInv, D!Retire("dump")
  PROVE  R!IInv'
<1>1. R!Retire("dump")
  BY DEF D!Retire, R!Retire, D!Draining, R!Draining, D!stageVars, R!stageVars
<1>2. "dump" \in R!Owners
  BY <1>1 DEF R!Retire, R!IInv, R!TypeOK
<1>3. QED
  BY <1>1, <1>2, TwoRoutes, R!RetireKeeps

(* The routes are left alone.                                               *)
LEMMA RoutesStay ==
  ASSUME R!IInv, UNCHANGED routes
  PROVE  R!IInv'
<1>1. UNCHANGED R!vars
  BY DEF routes, R!vars, R!stageVars
<1>2. QED
  BY <1>1, TwoRoutes, R!StutterKeeps

(* The process starts again with empty routes.                              *)
LEMMA RestartKeepsRoutes ==
  ASSUME R!IInv, Restart
  PROVE  R!IInv'
<1>1. /\ box' = [r \in R!Routes |-> <<>>] /\ delivered' = box' /\ accepted' = box'
      /\ mark' = [r \in R!Routes |-> 0]
      /\ writer' = [c \in Callbacks |-> R!NoSend]
      /\ drain' = [pc |-> "Idle", todo |-> {}, left |-> 0]
      /\ active' \in {R!Owners, {}} /\ sent' = sent
  BY DEF Restart, D!Routes, R!Routes, D!NoSend, R!NoSend,
         D!Owners, R!Owners, D!ToSet, R!ToSet
<1>2. \A r \in R!Routes : R!RouteKept(r)'
  <2> SUFFICES ASSUME NEW r \in R!Routes
               PROVE  R!RouteKept(r)'
    OBVIOUS
  <2>1. box'[r] = <<>> /\ delivered'[r] = <<>> /\ accepted'[r] = <<>> /\ mark'[r] = 0
    BY <1>1
  <2>2. <<>> \o <<>> = <<>> /\ Len(<<>>) = 0
    OBVIOUS
  <2>3. R!Within(<<>>, <<>>)
    BY TwoRoutes, R!WithinItself
  <2>4. R!Limit(r) \in Nat
    BY DumpAssumption DEF R!Limit
  <2>5. R!Limit(r)' = R!Limit(r)
    BY DEF R!Limit
  <2>6. QED
    BY <2>1, <2>2, <2>3, <2>4, <2>5 DEF R!RouteKept, R!Faithful
<1>3. R!DrainContract'
  BY <1>2, TwoRoutes, R!ContractNext
<1>4. R!StageShape' /\ R!LeftToTake'
  BY <1>1 DEF R!StageShape, R!LeftToTake, R!Draining
<1>5. R!TypeOK'
  <2>1. <<>> \in Seq(R!Values)
    OBVIOUS
  <2>2. QED
    BY <1>1, <2>1 DEF R!IInv, R!TypeOK, R!StagePc
<1>6. QED
  BY <1>3, <1>4, <1>5 DEF R!IInv

(* No step of the plugin breaks what its routes promise.                    *)
LEMMA RoutesKept ==
  ASSUME IInv, [Next]_vars
  PROVE  R!IInv'
<1> R!IInv
  BY DEF IInv
<1>1. CASE UNCHANGED routes
  BY <1>1, RoutesStay
<1>2. ASSUME NEW c \in Callbacks, Capture(c)
      PROVE  R!IInv'
  BY <1>2, BeginSendKeeps DEF Capture
<1>3. ASSUME NEW c \in Callbacks, Relay(c)
      PROVE  R!IInv'
  BY <1>3, SendStepKeeps DEF Relay
<1>4. CASE BeginFrame
  BY <1>4, StageStepKeeps DEF BeginFrame, D!Stage
<1>5. CASE DrainRoutes
  BY <1>5, StageStepKeeps DEF DrainRoutes
<1>6. CASE WriteTableFails
  BY <1>1, <1>6, RetireStepKeeps DEF WriteTableFails
<1>7. CASE Restart
  BY <1>7, RestartKeepsRoutes
<1>8. CASE CaptureSkipped \/ MergeNext \/ DumpUpdate \/ EndFrame \/ WriteTable \/ WriteLyrics
  BY <1>1, <1>8 DEF CaptureSkipped, MergeNext, DumpUpdate, EndFrame, WriteTable, WriteLyrics
<1>9. CASE FlushTopic \/ DicTopic \/ Crash
  BY <1>1, <1>9 DEF FlushTopic, DicTopic, Crash
<1>10. ASSUME NEW t \in Topics, ProbeOk(t) \/ ProbeFails(t)
       PROVE  R!IInv'
  BY <1>1, <1>10 DEF ProbeOk, ProbeFails, ProbeNext
<1>11. CASE UNCHANGED vars
  BY <1>1, <1>11 DEF vars
<1>12. QED
  BY <1>2, <1>3, <1>4, <1>5, <1>6, <1>7, <1>8, <1>9, <1>10, <1>11 DEF Next, MainStep

-----------------------------------------------------------------------------
(* The operators of the model.                                              *)

(* What is captured is a text for a key, or cannot be decoded.              *)
LEMMA CapturedIs ==
  ASSUME TypeOK, NEW r \in D!Routes, NEW i \in Unread(r)
  PROVE  /\ Content[delivered[r][i]].key \in Keys
         /\ Content[delivered[r][i]].text \in Texts \cup {Invalid}
<1>1. delivered[r] \in Seq(1..MaxSends) /\ read[r] \in Nat
  BY DEF TypeOK, R!TypeOK, R!Values, R!Routes, D!Routes
<1>2. i \in 1..Len(delivered[r])
  BY <1>1 DEF Unread
<1>3. delivered[r][i] \in 1..MaxSends
  BY <1>1, <1>2, ElementOfSeq
<1>4. QED
  BY <1>3, DumpAssumption

(* A merged record leaves a table in which no key is lost.                  *)
LEMMA MergeGrows ==
  ASSUME TypeOK, NEW x, x.key \in Keys, x.text \in Texts \cup {Invalid}, Merge(x)
  PROVE  /\ entries' \in Table /\ dirty' \in BOOLEAN
         /\ \A k \in Keys : entries[k] # None => entries'[k] # None
<1>1. None \notin Texts
  BY DumpAssumption
<1>2. CASE x.text = Invalid
  BY <1>2 DEF Merge, TypeOK
<1>3. CASE x.text # Invalid
  BY <1>1, <1>3 DEF Merge, TypeOK, Table
<1>4. QED
  BY <1>2, <1>3

(* So does the walk over the dictionaries of the game.                      *)
LEMMA WalkGrows ==
  ASSUME TypeOK
  PROVE  /\ WithDic(entries) \in Table
         /\ \A k \in Keys : entries[k] # None => WithDic(entries)[k] # None
BY DumpAssumption DEF TypeOK, Table, WithDic, Walked

(* The keys that a probe goes through.                                      *)
LEMMA IdsAre ==
  ASSUME NEW t \in Topics
  PROVE  Ids(t) \in SUBSET Keys /\ Keys \in SUBSET Int /\ IsFiniteSet(Ids(t))
<1>1. Ids(t) \in SUBSET Keys /\ Keys \in SUBSET Int /\ IsFiniteSet(Keys)
  BY DumpAssumption DEF Ids, Topics
<1>2. QED
  BY <1>1, FS_Subset

(* Every key has a place before the end.                                    *)
LEMMA PlaceIsBeforeEnd ==
  ASSUME NEW t \in Topics, NEW k \in Ids(t)
  PROVE  Place(t, k) \in Nat /\ Place(t, k) < Cardinality(Ids(t))
<1> DEFINE before == {j \in Ids(t) : j < k}
<1>1. before \subseteq Ids(t) /\ k \notin before
  BY IdsAre
<1>2. IsFiniteSet(Ids(t))
  BY IdsAre
<1>3. before # Ids(t)
  BY <1>1
<1> HIDE DEF before
<1>4. /\ IsFiniteSet(before) /\ Cardinality(before) <= Cardinality(Ids(t))
      /\ Cardinality(before) = Cardinality(Ids(t)) => before = Ids(t)
  BY <1>1, <1>2, FS_Subset
<1>5. Cardinality(before) \in Nat /\ Cardinality(Ids(t)) \in Nat
  BY <1>2, <1>4, FS_CardinalityType
<1>6. Cardinality(before) < Cardinality(Ids(t))
  BY <1>3, <1>4, <1>5
<1>7. QED
  BY <1>5, <1>6 DEF Place, before

(* A key that comes before another has a place before it.                   *)
LEMMA PlacesAreInOrder ==
  ASSUME NEW t \in Topics, NEW j \in Ids(t), NEW k \in Ids(t), j < k
  PROVE  Place(t, j) < Place(t, k)
<1> DEFINE first == {i \in Ids(t) : i < j}
           then  == {i \in Ids(t) : i < k}
<1>1. Ids(t) \in SUBSET Int /\ IsFiniteSet(Ids(t))
  BY IdsAre
<1>2. first \subseteq then /\ j \in then /\ j \notin first /\ then \subseteq Ids(t)
  BY <1>1
<1> HIDE DEF first, then
<1>3. IsFiniteSet(then)
  BY <1>1, <1>2, FS_Subset
<1>4. /\ IsFiniteSet(first) /\ Cardinality(first) <= Cardinality(then)
      /\ Cardinality(first) = Cardinality(then) => first = then
  BY <1>2, <1>3, FS_Subset
<1>5. Cardinality(first) \in Nat /\ Cardinality(then) \in Nat
  BY <1>3, <1>4, FS_CardinalityType
<1>6. Cardinality(first) < Cardinality(then)
  BY <1>2, <1>4, <1>5
<1>7. QED
  BY <1>6 DEF Place, first, then

(* The cursor is at one key, ...                                            *)
LEMMA OneAtCursor ==
  ASSUME NEW t \in Topics, NEW j \in AtCursor(t), NEW k \in AtCursor(t)
  PROVE  j = k
<1>1. j \in Ids(t) /\ k \in Ids(t) /\ Place(t, j) = Place(t, k)
  BY DEF AtCursor
<1>2. j \in Int /\ k \in Int /\ Place(t, j) \in Nat
  BY <1>1, IdsAre, PlaceIsBeforeEnd
<1>3. ~(j < k) /\ ~(k < j)
  <2>1. Place(t, j) < Place(t, k) \/ Place(t, k) < Place(t, j) => FALSE
    BY <1>1, <1>2
  <2>2. QED
    BY <1>1, <2>1, PlacesAreInOrder
<1>4. QED
  BY <1>2, <1>3

(* ... and the next step puts that key behind it.                           *)
LEMMA NextIsAtCursor ==
  ASSUME NEW t \in Topics, cursor[t] \in Nat, NEW k \in Ids(t),
         Place(t, k) < cursor[t] + 1, k \notin Behind(t)
  PROVE  k \in AtCursor(t)
<1>1. Place(t, k) \in Nat
  BY PlaceIsBeforeEnd
<1>2. Place(t, k) = cursor[t]
  BY <1>1 DEF Behind
<1>3. QED
  BY <1>2 DEF AtCursor

(* A request to a probe writes to the files of the key at its cursor, and a *)
(* topic that does not skip completes them when it goes on.                 *)
LEMMA ProbeWrites ==
  ASSUME TypeOK, NEW t \in Topics, ProbeOk(t) \/ ProbeFails(t)
  PROVE  /\ disk' \in Disks /\ disk'.table = disk.table
         /\ \A s \in Topics, k \in Keys :
              s # t \/ k \notin AtCursor(t) => disk'.files[s][k] = disk.files[s][k]
         /\ ProbeOk(t) /\ t \notin Skipping =>
              \A k \in AtCursor(t) : disk'.files[t][k] = "whole"
<1> DEFINE Of == [Topics -> [Keys -> FileStates]]
           Lyr == (SUBSET Texts) \cup {Torn}
<1>1. disk \in [table : Table, lyrics : Lyr, files : Of]
  BY DEF TypeOK, Disks
<1>2. AtCursor(t) \in SUBSET Keys
  BY IdsAre DEF AtCursor
<1>3. \A k \in AtCursor(t) : disk.files[t][k] \in FileStates
  BY <1>1, <1>2
<1>4. ASSUME NEW k \in AtCursor(t), NEW f \in FileStates,
             disk' = [disk EXCEPT !.files[t][k] = f]
      PROVE  /\ disk' \in Disks /\ disk'.table = disk.table
             /\ disk'.files[t][k] = f
             /\ \A s \in Topics, j \in Keys :
                  s # t \/ j # k => disk'.files[s][j] = disk.files[s][j]
  <2>1. disk'.files = [disk.files EXCEPT ![t] = [disk.files[t] EXCEPT ![k] = f]]
    BY <1>1, <1>4
  <2>2. disk.files \in Of /\ disk.files[t] \in [Keys -> FileStates] /\ k \in Keys
    BY <1>1, <1>2, <1>4
  <2>3. disk'.files \in Of
    BY <1>4, <2>1, <2>2
  <2>4. /\ disk'.files[t][k] = f
        /\ \A s \in Topics, j \in Keys :
             s # t \/ j # k => disk'.files[s][j] = disk.files[s][j]
    BY <2>1, <2>2
  <2> HIDE DEF Of, Lyr
  <2>5. disk' \in [table : Table, lyrics : Lyr, files : Of] /\ disk'.table = disk.table
    BY <1>1, <1>4, <2>3
  <2>6. QED
    BY <2>4, <2>5 DEF Disks, Of, Lyr
<1>5. \A j, k \in AtCursor(t) : j = k
  BY OneAtCursor DEF TypeOK
<1> HIDE DEF Of, Lyr
<1>6. CASE ProbeOk(t)
  <2>1. PICK k \in AtCursor(t) : \E f \in WrittenAs(t, disk.files[t][k]) :
               disk' = [disk EXCEPT !.files[t][k] = f]
    BY <1>6 DEF ProbeOk
  <2>2. PICK f \in WrittenAs(t, disk.files[t][k]) : disk' = [disk EXCEPT !.files[t][k] = f]
    BY <2>1
  <2>3. f \in FileStates /\ (t \notin Skipping => f = "whole")
    BY <1>3, <2>2 DEF WrittenAs, FileStates
  <2>4. QED
    BY <1>2, <1>4, <1>5, <2>2, <2>3
<1>7. CASE ProbeFails(t) /\ ~ProbeOk(t)
  <2>1. PICK k \in AtCursor(t) : \E f \in LeftAs(t, disk.files[t][k]) :
               disk' = [disk EXCEPT !.files[t][k] = f]
    BY <1>7 DEF ProbeFails
  <2>2. PICK f \in LeftAs(t, disk.files[t][k]) : disk' = [disk EXCEPT !.files[t][k] = f]
    BY <2>1
  <2>3. f \in FileStates
    BY <1>3, <2>2 DEF LeftAs, FileStates
  <2>4. QED
    BY <1>2, <1>4, <1>5, <1>7, <2>2, <2>3
<1>8. QED
  BY <1>6, <1>7

-----------------------------------------------------------------------------
(* The invariant holds at the beginning.                                    *)

(* DumpState::load, on a disk without a table.                              *)
LEMMA InitInv ==
  ASSUME Init
  PROVE  IInv
<1>1. R!Init
  BY DEF Init, D!Init, R!Init, D!Routes, R!Routes, D!NoSend, R!NoSend,
         D!Owners, R!Owners, D!ToSet, R!ToSet
<1>2. R!IInv
  BY <1>1, TwoRoutes, R!InitInv
<1>3. TypeOK
  <2>1. R!TypeOK
    BY <1>2 DEF R!IInv
  <2>2. NoTable \in Table /\ 0 \in 0..FlushInterval /\ 0 \in 0..MaxCrashes
    BY DumpAssumption DEF Table, NoTable
  <2>3. disk \in Disks
    <3>1. NoFiles \in [Topics -> [Keys -> FileStates]]
      BY DEF NoFiles, FileStates, Topics
    <3>2. QED
      BY <2>2, <3>1 DEF Init, Disks
  <2>4. entries \in Table /\ lyrics \in SUBSET Texts /\ frames \in 0..FlushInterval
    BY <2>2 DEF Init
  <2>5. /\ read \in [D!Routes -> Nat] /\ cursor \in [Topics -> Nat]
        /\ probed \in [Topics -> SUBSET Keys] /\ began \in [Topics -> SUBSET Keys]
        /\ main \in [pc : MainPc, by : {"Update", "Topic"}]
    BY DEF Init, MainPc
  <2>6. /\ dirty \in BOOLEAN /\ lyricsDirty \in BOOLEAN /\ instance \in BOOLEAN
        /\ life \in {"up", "down"} /\ crashes \in 0..MaxCrashes
    BY <2>2 DEF Init
  <2>7. QED
    BY <2>1, <2>3, <2>4, <2>5, <2>6 DEF TypeOK
<1>4. DiskIsLoaded
  BY DEF Init, DiskIsLoaded
<1>5. ProbesKept
  BY DEF Init, ProbesKept
<1>6. QED
  BY <1>2, <1>3, <1>4, <1>5 DEF IInv

-----------------------------------------------------------------------------
(* Every step keeps the types.                                              *)

(* The routes keep theirs, as CommandDrain says.                            *)
LEMMA TypesKept ==
  ASSUME IInv, [Next]_vars
  PROVE  TypeOK'
<1> TypeOK
  BY DEF IInv
<1>0. R!TypeOK'
  BY RoutesKept DEF R!IInv
<1>1. CASE UNCHANGED <<state, process, disk>> /\ instance' \in BOOLEAN
           /\ main' \in [pc : MainPc, by : {"Update", "Topic"}]
  BY <1>0, <1>1 DEF TypeOK, state, probes, process
<1>2. ASSUME NEW c \in Callbacks, Capture(c) \/ Relay(c)
      PROVE  TypeOK'
  BY <1>1, <1>2 DEF Capture, Relay, TypeOK
<1>3. CASE CaptureSkipped \/ BeginFrame \/ DrainRoutes \/ EndFrame \/ WriteTableFails
  BY <1>1, <1>3 DEF CaptureSkipped, BeginFrame, DrainRoutes, EndFrame, WriteTableFails,
                    Goto, TypeOK, MainPc
<1>4. CASE MergeNext
  <2>1. Records \in D!Routes /\ read[Records] \in Nat
    BY DEF TypeOK, D!Routes, Records
  <2>2. read[Records] + 1 \in Unread(Records)
    BY <1>4, <2>1 DEF MergeNext, Unread
  <2>3. entries' \in Table /\ dirty' \in BOOLEAN
    BY <1>4, <2>1, <2>2, CapturedIs, MergeGrows DEF MergeNext
  <2>4. read' \in [D!Routes -> Nat]
    BY <1>4, <2>1 DEF MergeNext, TypeOK
  <2>5. QED
    BY <1>0, <1>4, <2>3, <2>4 DEF MergeNext, TypeOK, probes, process
<1>5. CASE DumpUpdate
  <2>1. Lyrics \in D!Routes /\ Len(delivered[Lyrics]) \in Nat
    BY DEF TypeOK, R!TypeOK, R!Routes, D!Routes, Lyrics
  <2>2. Shown \in SUBSET Texts
    BY <2>1, CapturedIs DEF Shown
  <2>3. read' \in [D!Routes -> Nat]
    BY <1>5, <2>1 DEF DumpUpdate, TypeOK
  <2>4. frames' \in 0..FlushInterval
    BY <1>5, DumpAssumption DEF DumpUpdate, NextFrames, TypeOK
  <2>5. QED
    BY <1>0, <1>5, <2>2, <2>3, <2>4 DEF DumpUpdate, TypeOK, MainPc, probes, process
<1>6. CASE FlushTopic
  BY <1>0, <1>6, DumpAssumption DEF FlushTopic, Flush, TypeOK, MainPc, probes, process
<1>7. CASE DicTopic
  <2>1. entries' \in Table /\ dirty' \in BOOLEAN
    BY <1>7, WalkGrows DEF DicTopic, TypeOK
  <2>2. QED
    BY <1>0, <1>7, <2>1, DumpAssumption DEF DicTopic, Flush, TypeOK, MainPc, probes, process
<1>8. ASSUME NEW t \in Topics, ProbeOk(t) \/ ProbeFails(t)
      PROVE  TypeOK'
  <2>1. Ids(t) \in SUBSET Keys /\ AtCursor(t) \in SUBSET Keys
    BY IdsAre DEF AtCursor
  <2>2. began' \in [Topics -> SUBSET Keys]
    BY <1>8, <2>1 DEF ProbeOk, ProbeFails, ProbeNext, TypeOK
  <2>3. cursor' \in [Topics -> Nat] /\ probed' \in [Topics -> SUBSET Keys]
    BY <1>8, <2>1 DEF ProbeOk, ProbeFails, TypeOK
  <2>4. disk' \in Disks
    BY <1>8, ProbeWrites
  <2>5. QED
    BY <1>0, <1>8, <2>2, <2>3, <2>4 DEF ProbeOk, ProbeFails, ProbeNext, TypeOK, process
<1>9. CASE WriteTable
  <2>1. disk' \in Disks /\ dirty' = FALSE
    BY <1>9 DEF WriteTable, TypeOK, Disks
  <2>2. frames' \in 0..FlushInterval /\ main' \in [pc : MainPc, by : {"Update", "Topic"}]
    BY <1>9, DumpAssumption DEF WriteTable, Flushed, Goto, TypeOK, MainPc
  <2>3. UNCHANGED <<entries, lyrics, lyricsDirty, read, cursor, probed, began, instance,
                    life, crashes>>
    BY <1>9 DEF WriteTable, probes, process
  <2>4. QED
    BY <1>0, <2>1, <2>2, <2>3 DEF TypeOK
<1>10. CASE WriteLyrics
  <2> DEFINE Files == (SUBSET Texts) \cup {Torn}
  <2>0. /\ disk \in Disks
        /\ lyrics \in SUBSET Texts /\ main \in [pc : MainPc, by : {"Update", "Topic"}]
    BY DEF TypeOK
  <2>1. disk' \in Disks /\ lyricsDirty' = FALSE
    <3>1. PICK l \in {disk.lyrics, lyrics, Torn} : disk' = [disk EXCEPT !.lyrics = l]
      BY <1>10 DEF WriteLyrics
    <3> DEFINE Of == [Topics -> [Keys -> FileStates]]
    <3>2. /\ disk \in [table : Table, lyrics : Files, files : Of]
          /\ lyrics \in Files /\ Torn \in Files
      BY <2>0 DEF Disks
    <3> HIDE DEF Files, Of
    <3>3. disk' \in [table : Table, lyrics : Files, files : Of]
      BY <3>1, <3>2
    <3>4. QED
      BY <1>10, <3>3 DEF WriteLyrics, Files, Of, Disks
  <2>2. frames' \in 0..FlushInterval /\ main' \in [pc : MainPc, by : {"Update", "Topic"}]
    <3>1. frames' = 0 /\ main' = [main EXCEPT !.pc = "Topics"]
      BY <1>10 DEF WriteLyrics, Flushed, Goto
    <3>2. QED
      BY <2>0, <3>1, DumpAssumption DEF MainPc
  <2>3. UNCHANGED <<entries, lyrics, dirty, read, cursor, probed, began, instance,
                    life, crashes>>
    BY <1>10 DEF WriteLyrics, probes, process
  <2>4. QED
    BY <1>0, <2>1, <2>2, <2>3 DEF TypeOK
<1>11. CASE Crash
  BY <1>0, <1>11, DumpAssumption DEF Crash, TypeOK, state, probes
<1>12. CASE Restart
  <2>1. /\ read' = [r \in D!Routes |-> 0] /\ cursor' = [t \in Topics |-> 0]
        /\ probed' = [t \in Topics |-> {}] /\ began' = probed'
        /\ main' = [pc |-> "Idle", by |-> "Update"] /\ instance' = FALSE
        /\ lyrics' = {} /\ dirty' = FALSE /\ lyricsDirty' = FALSE /\ frames' = 0
        /\ life' = "up" /\ entries' = disk.table /\ UNCHANGED <<crashes, disk>>
    BY <1>12 DEF Restart, Load
  <2>2. entries' \in Table /\ frames' \in 0..FlushInterval
    BY <2>1, DumpAssumption DEF TypeOK, Disks
  <2>3. main' \in [pc : MainPc, by : {"Update", "Topic"}]
    BY <2>1 DEF MainPc
  <2>4. QED
    BY <1>0, <2>1, <2>2, <2>3 DEF TypeOK
<1>13. CASE UNCHANGED vars
  BY <1>1, <1>13 DEF vars, TypeOK
<1>14. QED
  BY <1>2, <1>3, <1>4, <1>5, <1>6, <1>7, <1>8, <1>9, <1>10, <1>11, <1>12, <1>13
     DEF Next, MainStep

-----------------------------------------------------------------------------
(* The table grows.                                                         *)

Grows == \A k \in Keys : entries[k] # None => entries'[k] # None

(* While the process runs, no step loses a key of the table.                *)
LEMMA EntriesGrow ==
  ASSUME TypeOK, [Next]_vars, ~Restart
  PROVE  Grows
<1>1. CASE UNCHANGED entries
  BY <1>1 DEF Grows
<1>2. CASE MergeNext
  <2>1. Records \in D!Routes /\ read[Records] \in Nat
    BY DEF TypeOK, D!Routes, Records
  <2>2. read[Records] + 1 \in Unread(Records)
    BY <1>2, <2>1 DEF MergeNext, Unread
  <2>3. QED
    BY <1>2, <2>1, <2>2, CapturedIs, MergeGrows DEF MergeNext, Grows
<1>3. CASE DicTopic
  BY <1>3, WalkGrows DEF DicTopic, Grows
<1>4. ASSUME NEW c \in Callbacks, Capture(c) \/ Relay(c)
      PROVE  UNCHANGED entries
  BY <1>4 DEF Capture, Relay, state
<1>5. ASSUME NEW t \in Topics, ProbeOk(t) \/ ProbeFails(t)
      PROVE  UNCHANGED entries
  BY <1>5 DEF ProbeOk, ProbeFails, ProbeNext
<1>6. CASE CaptureSkipped \/ BeginFrame \/ DrainRoutes \/ EndFrame \/ WriteTableFails
  BY <1>1, <1>6 DEF CaptureSkipped, BeginFrame, DrainRoutes, EndFrame, WriteTableFails, state
<1>7. CASE DumpUpdate \/ FlushTopic \/ WriteTable \/ WriteLyrics \/ Crash
  BY <1>1, <1>7 DEF DumpUpdate, FlushTopic, WriteTable, WriteLyrics, Crash, state
<1>8. CASE UNCHANGED vars
  BY <1>1, <1>8 DEF vars, state
<1>9. QED
  BY <1>1, <1>2, <1>3, <1>4, <1>5, <1>6, <1>7, <1>8 DEF Next, MainStep

(* What is written to localify.json is the table of the process; only the   *)
(* probes write the files of a key.                                         *)
LEMMA DiskIsTable ==
  ASSUME TypeOK, [Next]_vars
  PROVE  /\ disk'.table = disk.table \/ (life = "up" /\ disk'.table = entries)
         /\ (\A t \in Topics : ~ProbeOk(t) /\ ~ProbeFails(t)) => disk'.files = disk.files
<1>1. CASE UNCHANGED disk
  BY <1>1
<1>2. CASE WriteTable
  BY <1>2 DEF WriteTable, MainAt, TypeOK, Disks
<1>3. CASE WriteLyrics
  BY <1>3 DEF WriteLyrics, TypeOK, Disks
<1>4. ASSUME NEW c \in Callbacks, Capture(c) \/ Relay(c)
      PROVE  UNCHANGED disk
  BY <1>4 DEF Capture, Relay
<1>5. ASSUME NEW t \in Topics, ProbeOk(t) \/ ProbeFails(t)
      PROVE  disk'.table = disk.table
  BY <1>5, ProbeWrites
<1>6. CASE CaptureSkipped \/ BeginFrame \/ DrainRoutes \/ EndFrame \/ WriteTableFails
  BY <1>1, <1>6 DEF CaptureSkipped, BeginFrame, DrainRoutes, EndFrame, WriteTableFails
<1>7. CASE MergeNext \/ DumpUpdate \/ FlushTopic \/ DicTopic \/ Crash \/ Restart
  BY <1>1, <1>7 DEF MergeNext, DumpUpdate, FlushTopic, DicTopic, Crash, Restart
<1>8. CASE UNCHANGED vars
  BY <1>1, <1>8 DEF vars
<1>9. QED
  BY <1>1, <1>2, <1>3, <1>4, <1>5, <1>6, <1>7, <1>8 DEF Next, MainStep

(* Only a process that is down starts again.                                *)
LEMMA LifeIs ==
  ASSUME [Next]_vars, ~Restart, life' = "up"
  PROVE  life = "up"
<1>1. CASE UNCHANGED process
  BY <1>1 DEF process
<1>2. ASSUME NEW c \in Callbacks, Capture(c) \/ Relay(c)
      PROVE  UNCHANGED process
  BY <1>2 DEF Capture, Relay
<1>3. ASSUME NEW t \in Topics, ProbeOk(t) \/ ProbeFails(t)
      PROVE  UNCHANGED process
  BY <1>3 DEF ProbeOk, ProbeFails, ProbeNext
<1>4. CASE MainStep
  BY <1>1, <1>4 DEF MainStep, BeginFrame, DrainRoutes, MergeNext, DumpUpdate, EndFrame,
                    WriteTable, WriteTableFails, WriteLyrics
<1>5. CASE CaptureSkipped \/ FlushTopic \/ DicTopic
  BY <1>1, <1>5 DEF CaptureSkipped, FlushTopic, DicTopic
<1>6. CASE Crash
  BY <1>6 DEF Crash
<1>7. CASE UNCHANGED vars
  BY <1>1, <1>7 DEF vars
<1>8. QED
  BY <1>1, <1>2, <1>3, <1>4, <1>5, <1>6, <1>7 DEF Next

(* The table of the process keeps what is on disk, and a new process loads  *)
(* it.                                                                      *)
LEMMA DiskStaysLoaded ==
  ASSUME IInv, [Next]_vars
  PROVE  DiskIsLoaded'
<1>1. CASE Restart
  BY <1>1 DEF Restart, Load, DiskIsLoaded
<1>2. CASE ~Restart
  BY <1>2, EntriesGrow, DiskIsTable, LifeIs DEF IInv, DiskIsLoaded, Grows
<1>3. QED
  BY <1>1, <1>2

-----------------------------------------------------------------------------
(* The probes.                                                              *)

(* A step that leaves the probes alone and loses no key.                    *)
LEMMA ProbesStay ==
  ASSUME ProbesKept, Grows, UNCHANGED probes, disk'.files = disk.files
  PROVE  ProbesKept'
<1> SUFFICES ASSUME NEW t \in Topics, cursor'[t] > 0
             PROVE  /\ began'[t] \subseteq Ids(t)'
                    /\ Ids(t)' = began'[t] => Behind(t)' \subseteq probed'[t]
                    /\ Ids(t)' = began'[t] /\ t \notin Skipping =>
                         \A k \in Behind(t)' : disk'.files[t][k] = "whole"
  BY DEF ProbesKept
<1>1. UNCHANGED <<cursor, probed, began>>
  BY DEF probes
<1>2. Ids(t) \subseteq Ids(t)'
  BY IdsAre DEF Ids, Grows
<1>3. /\ began[t] \subseteq Ids(t) /\ (Ids(t) = began[t] => Behind(t) \subseteq probed[t])
      /\ Ids(t) = began[t] /\ t \notin Skipping =>
           \A k \in Behind(t) : disk.files[t][k] = "whole"
  BY <1>1 DEF ProbesKept
<1>4. ASSUME Ids(t)' = began'[t]
      PROVE  /\ Behind(t)' \subseteq probed'[t]
             /\ t \notin Skipping => \A k \in Behind(t)' : disk'.files[t][k] = "whole"
  <2>1. Ids(t)' = Ids(t) /\ Ids(t) = began[t]
    BY <1>1, <1>2, <1>3, <1>4
  <2>2. Behind(t)' = Behind(t)
    BY <1>1, <2>1 DEF Behind, Place
  <2>3. QED
    BY <1>1, <1>3, <2>1, <2>2
<1>5. QED
  BY <1>1, <1>2, <1>3, <1>4

(* A request to a probe: the key at its cursor is seen to before the cursor *)
(* goes on, and only its files can come to harm.                            *)
LEMMA ProbeStepKeeps ==
  ASSUME IInv, NEW t \in Topics, ProbeOk(t) \/ ProbeFails(t)
  PROVE  ProbesKept'
<1> TypeOK /\ ProbesKept
  BY DEF IInv
<1> DEFINE Past(s, k) == k \in probed[s] /\ (s \notin Skipping => disk.files[s][k] = "whole")
<1>1. UNCHANGED entries
  BY DEF ProbeOk, ProbeFails, ProbeNext
<1>2. \A s \in Topics : Ids(s)' = Ids(s) /\ \A k \in Keys : Place(s, k)' = Place(s, k)
  BY <1>1 DEF Ids, Place
<1>3. \A s \in Topics : cursor[s] \in Nat /\ Ids(s) \in SUBSET Keys
  BY IdsAre DEF TypeOK
<1>4. ASSUME NEW s \in Topics, cursor[s] > 0, Ids(s) = began[s], NEW k \in Behind(s)
      PROVE  Past(s, k)
  BY <1>4 DEF ProbesKept
<1> HIDE DEF Past
<1> SUFFICES ASSUME NEW s \in Topics, cursor'[s] > 0
             PROVE  /\ began'[s] \subseteq Ids(s)
                    /\ Ids(s) = began'[s] => \A k \in Behind(s)' : Past(s, k)'
  BY <1>2 DEF ProbesKept, Past
<1>5. \A k \in Behind(s)' : k \in Ids(s) /\ k \in Keys /\ Place(s, k) < cursor'[s]
  BY <1>2, <1>3 DEF Behind
<1>6. ASSUME NEW k \in Behind(s), s # t \/ k \notin AtCursor(t), Past(s, k)
      PROVE  Past(s, k)'
  <2>1. k \in Keys
    BY <1>3 DEF Behind
  <2>2. disk'.files[s][k] = disk.files[s][k]
    BY <1>6, <2>1, ProbeWrites
  <2>3. probed[s] \subseteq probed'[s]
    BY DEF ProbeOk, ProbeFails, TypeOK
  <2>4. QED
    BY <1>6, <2>2, <2>3 DEF Past
<1>7. \A k \in Behind(s) : s = t => k \notin AtCursor(t)
  BY PlaceIsBeforeEnd, <1>3 DEF Behind, AtCursor
<1>8. CASE UNCHANGED <<cursor[s], began[s]>>
  <2>1. \A k \in Behind(s)' : k \in Behind(s)
    BY <1>5, <1>8 DEF Behind
  <2>2. began'[s] \subseteq Ids(s)
    BY <1>8 DEF ProbesKept
  <2>3. ASSUME Ids(s) = began'[s], NEW k \in Behind(s)'
        PROVE  Past(s, k)'
    BY <1>4, <1>6, <1>7, <1>8, <2>1, <2>3
  <2>4. QED
    BY <2>2, <2>3
<1>9. CASE s # t
  <2>1. UNCHANGED <<cursor[s], began[s]>>
    BY <1>9 DEF ProbeOk, ProbeFails, ProbeNext, TypeOK
  <2>2. QED
    BY <1>8, <2>1
<1>10. CASE s = t /\ ProbeFails(t)
  <2>1. UNCHANGED <<cursor[s], began[s]>>
    BY <1>10 DEF ProbeFails, ProbeNext
  <2>2. QED
    BY <1>8, <2>1
<1>11. CASE s = t /\ ProbeOk(t)
  <2>1. /\ cursor'[s] = cursor[s] + 1 /\ probed'[s] = probed[s] \cup AtCursor(s)
        /\ began'[s] = IF cursor[s] = 0 THEN Ids(s) ELSE began[s]
    BY <1>11 DEF ProbeOk, ProbeNext, TypeOK
  <2>2. began'[s] \subseteq Ids(s)
    BY <1>3, <2>1 DEF ProbesKept
  <2>3. ASSUME Ids(s) = began'[s], NEW k \in Behind(s)'
        PROVE  Past(s, k)'
    <3>1. CASE k \in Behind(s)
      <4>1. Place(s, k) \in Nat /\ Place(s, k) < cursor[s]
        BY <3>1, PlaceIsBeforeEnd DEF Behind
      <4>2. cursor[s] > 0
        BY <1>3, <4>1
      <4>3. began'[s] = began[s]
        BY <2>1, <4>2
      <4>4. Ids(s) = began[s]
        BY <2>3, <4>3
      <4>5. QED
        BY <1>4, <1>6, <1>7, <3>1, <4>2, <4>4
    <3>2. CASE k \notin Behind(s)
      <4>1. k \in AtCursor(s)
        BY <1>3, <1>5, <2>1, <2>3, <3>2, NextIsAtCursor
      <4>2. s \notin Skipping => disk'.files[s][k] = "whole"
        BY <1>11, <4>1, ProbeWrites
      <4>3. QED
        BY <2>1, <4>1, <4>2 DEF Past
    <3>3. QED
      BY <3>1, <3>2
  <2>4. QED
    BY <2>2, <2>3
<1>12. QED
  BY <1>9, <1>10, <1>11

(* Every step.                                                              *)
LEMMA ProbesStayKept ==
  ASSUME IInv, [Next]_vars
  PROVE  ProbesKept'
<1> TypeOK /\ ProbesKept
  BY DEF IInv
<1>1. ASSUME NEW t \in Topics, ProbeOk(t) \/ ProbeFails(t)
      PROVE  ProbesKept'
  BY <1>1, ProbeStepKeeps
<1>2. CASE UNCHANGED probes /\ ~Restart
  <2>1. CASE \A t \in Topics : ~ProbeOk(t) /\ ~ProbeFails(t)
    BY <1>2, <2>1, EntriesGrow, DiskIsTable, ProbesStay
  <2>2. QED
    BY <1>1, <2>1
<1>3. CASE Restart
  BY <1>3 DEF Restart, ProbesKept
<1>4. ASSUME NEW c \in Callbacks, Capture(c) \/ Relay(c)
      PROVE  UNCHANGED probes
  BY <1>4 DEF Capture, Relay, state
<1>5. CASE CaptureSkipped \/ BeginFrame \/ DrainRoutes \/ EndFrame \/ WriteTableFails
  BY <1>2, <1>3, <1>5
     DEF CaptureSkipped, BeginFrame, DrainRoutes, EndFrame, WriteTableFails, state
<1>6. CASE MergeNext \/ DumpUpdate \/ FlushTopic \/ DicTopic \/ WriteTable \/ WriteLyrics
  BY <1>2, <1>3, <1>6 DEF MergeNext, DumpUpdate, FlushTopic, DicTopic, WriteTable, WriteLyrics
<1>7. CASE Crash \/ UNCHANGED vars
  BY <1>2, <1>3, <1>7 DEF Crash, vars, state
<1>8. QED
  BY <1>1, <1>2, <1>3, <1>4, <1>5, <1>6, <1>7 DEF Next, MainStep

-----------------------------------------------------------------------------
(* The theorems.                                                            *)

(* The inductive invariant.                                                 *)
THEOREM Invariance == Spec => []IInv
<1>1. Init => IInv
  BY InitInv
<1>2. IInv /\ [Next]_vars => IInv'
  BY RoutesKept, TypesKept, DiskStaysLoaded, ProbesStayKept DEF IInv
<1>3. QED
  BY <1>1, <1>2, PTL DEF Spec

(* The state of the plugin and its files stay within their types; what the  *)
(* hooks capture is all that is ever merged (DumpState, dump_update).       *)
THEOREM TypeCorrect == Spec => []TypeOK
<1>1. IInv => TypeOK
  BY DEF IInv
<1>2. QED
  BY <1>1, Invariance, PTL

(* The two routes of the plugin keep the contract of CommandDrain through   *)
(* crashes, restarts and retirements of the plugin.                         *)
THEOREM RoutesKeepContract == Spec => []R!DrainContract
<1>1. IInv => R!DrainContract
  BY DEF IInv, R!IInv
<1>2. QED
  BY <1>1, Invariance, PTL

(* localify.json never loses a key (DumpState::load, merge, merge_map and   *)
(* flush), through any number of merges, walks, flushes and crashes.        *)
THEOREM NoKeyIsLost == Spec => TableAccumulates
<1>1. IInv /\ [Next]_vars =>
        [\A k \in Keys : disk.table[k] # None => disk'.table[k] # None]_disk
  BY DiskIsTable DEF IInv, DiskIsLoaded
<1>2. QED
  BY <1>1, Invariance, PTL DEF Spec, TableAccumulates

(* A bulk probe (scenario_dump_handler, lyrics_dump_handler) that says it   *)
(* is done has gone past every key, unless the table has grown since it     *)
(* began; the one that writes anew what exists has left all files complete. *)
THEOREM DoneProbesAreComplete == Spec => []DoneMeansAll
<1>1. ASSUME IInv, NEW t \in Topics, cursor[t] > 0, cursor[t] >= Cardinality(Ids(t)),
             Ids(t) = began[t], NEW k \in Ids(t)
      PROVE  k \in probed[t] /\ (t \notin Skipping => disk.files[t][k] = "whole")
  <2>1. Place(t, k) \in Nat /\ Place(t, k) < Cardinality(Ids(t)) /\ cursor[t] \in Nat
    BY <1>1, PlaceIsBeforeEnd DEF IInv, TypeOK
  <2>2. Cardinality(Ids(t)) \in Nat
    BY IdsAre, FS_CardinalityType
  <2>3. k \in Behind(t)
    BY <1>1, <2>1, <2>2 DEF Behind
  <2>4. QED
    BY <1>1, <2>3 DEF IInv, ProbesKept
<1>2. IInv => DoneMeansAll
  BY <1>1 DEF DoneMeansAll, Done
<1>3. QED
  BY <1>2, Invariance, PTL
=============================================================================
