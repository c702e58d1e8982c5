------------------------- MODULE PluginLifecycleProofs -------------------------
(***************************************************************************)
(* Proofs about PluginLifecycle for every number of owners and every set   *)
(* of resources. What the properties say of an owner's ledgers holds       *)
(* because a driver only ever works on one owner, because that owner is    *)
(* active until its rollback has begun, and because a rollback runs the    *)
(* steps of one owner to the end before the driver goes on.                *)
(***************************************************************************)
EXTENDS PluginLifecycle, SequenceTheorems, WellFoundedInduction, TLAPS

-----------------------------------------------------------------------------
(* The inductive invariant.                                                 *)

Busy        == pc \notin {"Next", "Rest"}
RollingBack == pc \in {"Close", "Remove", "Restore"}
Phases      == {"Build", "Startup", "Update", "Teardown"}
States      == {"Unknown", "Active", "Retired"}
Effect      == [id : Nat, kind : Kind]
Undone      == [id : Int, ran : BOOLEAN]

TypeOK ==
  /\ world \subseteq Resources
  /\ state \in [Owners -> States] /\ inventory \in [Owners -> States]
  /\ gate \in [Owners -> {"closed", "open", "failed"}]
  /\ inserted \in [Owners -> Seq(Resources)] /\ provided \in [Owners -> SUBSET Resources]
  /\ effects \in [Owners -> Seq(Effect)] /\ undone \in [Owners -> Seq(Undone)]
  /\ registered \in [Owners -> Nat]
  /\ found \in [Owners -> SUBSET Resources]
  /\ retiredIn \in [Owners -> Phases \cup {"no"}]
  /\ phase \in Phases
  /\ pc \in {"Next", "Run", "Apply", "Close", "Remove", "Restore", "Rest"}
  /\ cur \in 0..NOwners /\ todo \subseteq Owners
  /\ pending \in Seq(Resources)

(* What the driver knows of the owner it works on, and of those that are    *)
(* still to come.                                                           *)
DriverShape ==
  /\ Busy => cur \in Owners
  /\ phase = "Build" => todo = {} /\ \A o \in Owners : state[o] = "Unknown" <=> o > cur
  /\ phase \in {"Startup", "Update"} => /\ todo \subseteq Active
                                        /\ Busy => cur \notin todo
  /\ pc \in {"Run", "Apply", "Close", "Remove"} => state[cur] = "Active"
  /\ pc = "Apply" => phase = "Startup"
  /\ pc = "Run" => phase # "Teardown"
  /\ pc = "Remove" => phase # "Update"
  /\ pc = "Restore" /\ phase # "Update" => state[cur] = "Active" /\ inserted[cur] = <<>>
  /\ RollingBack => retiredIn[cur] = phase
  /\ pc \in {"Remove", "Restore"} => gate[cur] = "failed"

(* What has become of an owner that no rollback is working on.              *)
Untouched(o) == /\ inserted[o] = <<>> /\ effects[o] = <<>> /\ undone[o] = <<>>
                /\ registered[o] = 0 /\ retiredIn[o] = "no"

Whole(o) == retiredIn[o] = "no" /\ undone[o] = <<>>

Emptied(o) == effects[o] = <<>> /\ (inserted[o] = <<>> \/ retiredIn[o] = "Update")

OwnerShape ==
  \A o \in Owners :
    /\ state[o] = "Unknown" => Untouched(o)
    /\ state[o] = "Active" /\ ~(RollingBack /\ o = cur) => Whole(o)
    /\ state[o] = "Retired" /\ ~(RollingBack /\ o = cur) => Emptied(o)

(* The Startup driver goes through the owners in their order, and the gates *)
(* that it has opened are behind it.                                        *)
GateOrder ==
  /\ \A o \in Owners : gate[o] = "open" =>
       /\ phase \in {"Startup", "Update"}
       /\ phase = "Startup" => (\A t \in todo : o < t) /\ (Busy => o < cur)
  /\ phase = "Startup" /\ Busy => \A t \in todo : cur < t

(* The ledgers and their histories.                                         *)
Recorded == \A o \in Owners : \A i \in DOMAIN inserted[o] : inserted[o][i] \in provided[o]

NoMainThreadEffects ==
  phase \in {"Build", "Teardown"} =>
    \A o \in Owners : \A i \in DOMAIN effects[o] : effects[o][i].kind = "AnyThread"

InventoryAtRest == pc = "Rest" => inventory = state

DriverInv == DriverShape /\ OwnerShape /\ GateOrder /\ InventoryAtRest

LedgerInv == LedgerIsWorld /\ Recorded /\ RestoredOnceInReverse /\ NoMainThreadEffects

(* What an owner inserted is in its ledger until a Build, a Startup or a    *)
(* teardown rolls it back, and a torn down App never starts.                *)
Held ==
  /\ \A o \in Owners : retiredIn[o] \in {"no", "Update"} =>
       \A r \in provided[o] : \E i \in DOMAIN inserted[o] : inserted[o][i] = r
  /\ \A o \in Owners : retiredIn[o] = "Teardown" => phase = "Teardown"

(* Nothing vanishes while the systems of one owner start.                   *)
FoundSoFar ==
  /\ phase = "Build" => \A o \in Owners : found[o] = {}
  /\ phase = "Startup" => /\ \A t \in todo : found[t] = {}
                          /\ pc \in {"Run", "Apply"} => found[cur] \subseteq world

LostToStartup ==
  \A o \in Owners : gate[o] = "open" =>
    \A r \in found[o] \ world :
      \E p \in Owners : p > o /\ r \in provided[p] /\ retiredIn[p] = "Startup"

DependencyInv == Held /\ FoundSoFar /\ LostToStartup

IInv == TypeOK /\ DriverInv /\ LedgerInv /\ DependencyInv

-----------------------------------------------------------------------------
(* Sequences and sets of owners.                                            *)

(* What is left of a ledger when its last entry is taken.                   *)
LEMMA Front ==
  ASSUME NEW S, NEW s \in Seq(S), s # <<>>
  PROVE  LET f == SubSeq(s, 1, Len(s) - 1)
         IN  /\ f \in Seq(S) /\ DOMAIN f = 1..(Len(s) - 1) /\ Len(f) = Len(s) - 1
             /\ \A i \in 1..(Len(s) - 1) : f[i] = s[i]
             /\ Len(s) \in Nat \ {0} /\ s[Len(s)] \in S
<1> DEFINE f == SubSeq(s, 1, Len(s) - 1)
<1>1. Len(s) \in Nat \ {0} /\ \A i \in 1..Len(s) : s[i] \in S
  BY EmptySeq, LenProperties
<1>2. f \in Seq(S) /\ Len(f) = Len(s) - 1 /\ \A i \in 1..(Len(s) - 1) : f[i] = s[i]
  <2>1. \A i \in 1..(Len(s) - 1) : s[i] \in S
    BY <1>1
  <2>2. 1 \in Int /\ Len(s) - 1 \in Int
    BY <1>1
  <2>3. /\ f \in Seq(S)
        /\ Len(f) = IF 1 <= Len(s) - 1 THEN Len(s) - 1 - 1 + 1 ELSE 0
        /\ \A i \in 1..(Len(s) - 1 - 1 + 1) : f[i] = s[1 + i - 1]
    BY ONLY <2>1, <2>2, SubSeqProperties
  <2> HIDE DEF f
  <2>4. Len(f) = Len(s) - 1
    <3>1. \A n \in Nat \ {0} : (IF 1 <= n - 1 THEN n - 1 - 1 + 1 ELSE 0) = n - 1
      OBVIOUS
    <3>2. QED
      BY <1>1, <2>3, <3>1
  <2>5. \A i \in 1..(Len(s) - 1) : i \in 1..(Len(s) - 1 - 1 + 1) /\ 1 + i - 1 = i
    BY <1>1
  <2>6. QED
    BY <2>3, <2>4, <2>5
<1>3. DOMAIN f = 1..(Len(s) - 1)
  BY <1>2, LenProperties
<1>4. QED
  BY <1>1, <1>2, <1>3

(* A ledger with one more entry.                                            *)
LEMMA Longer ==
  ASSUME NEW S, NEW s \in Seq(S), NEW e \in S
  PROVE  LET t == Append(s, e)
         IN  /\ t \in Seq(S) /\ DOMAIN t = 1..(Len(s) + 1) /\ Len(t) = Len(s) + 1
             /\ \A i \in 1..Len(s) : t[i] = s[i]
             /\ t[Len(s) + 1] = e /\ t # <<>>
             /\ Len(s) \in Nat /\ DOMAIN s = 1..Len(s)
BY AppendProperties, LenProperties

(* The owner a driver picks is one of those left, and comes before (or      *)
(* after) the others.                                                       *)
LEMMA LeastNatural ==
  ASSUME NEW T \in SUBSET Nat, T # {}
  PROVE  \E x \in T : \A y \in T : x <= y
<1> DEFINE R == OpToRel(<, Nat)
<1>1. \E x \in T : \A y \in T : <<y, x>> \notin R
  BY NatLessThanWellFounded, WFMin
<1>2. \A x, y \in Nat : <<y, x>> \notin R => x <= y
  BY DEF OpToRel
<1>3. QED
  BY <1>1, <1>2

(* Hence the choices that define Min and Max exist.                         *)
LEMMA MinMax ==
  ASSUME NEW T \in SUBSET Owners, T # {}
  PROVE  /\ Min(T) \in T /\ \A t \in T : Min(T) <= t
         /\ Max(T) \in T /\ \A t \in T : t <= Max(T)
<1>1. Min(T) \in T /\ \A t \in T : Min(T) <= t
  <2>1. \E x \in T : \A y \in T : x =< y
    BY LeastNatural DEF Owners
  <2>2. QED
    BY <2>1 DEF Min
<1>2. Max(T) \in T /\ \A t \in T : t <= Max(T)
  <2> DEFINE M == {NOwners - t : t \in T}
  <2>1. NOwners \in Nat /\ \A t \in T : t \in Nat /\ NOwners - t \in Nat
    BY LifecycleAssumption DEF Owners
  <2>2. M \in SUBSET Nat /\ M # {}
    BY <2>1
  <2>3. PICK m \in M : \A y \in M : m <= y
    BY <2>2, LeastNatural
  <2>4. PICK x \in T : m = NOwners - x
    BY <2>3
  <2>5. \A y \in T : m <= NOwners - y
    BY <2>3
  <2>6. \A y \in T : x >= y
    BY <2>1, <2>4, <2>5
  <2>7. \A y \in T : Max(T) \in T /\ Max(T) >= y
    BY <2>6 DEF Max
  <2>8. QED
    BY <2>1, <2>7
<1>3. QED
  BY <1>1, <1>2

-----------------------------------------------------------------------------
(* The invariant holds initially.                                           *)
LEMMA InitIInv == Init => IInv
<1>1. SUFFICES ASSUME Init PROVE IInv
  OBVIOUS
<1> USE <1>1, LifecycleAssumption DEF Init, Owners
<1>2. TypeOK
  BY DEF TypeOK, Phases, States
<1>3. DriverInv
  BY DEF DriverInv, DriverShape, OwnerShape, Untouched, GateOrder, InventoryAtRest, Busy, Active,
         RollingBack
<1>4. LedgerInv
  BY DEF LedgerInv, LedgerIsWorld, Recorded, RestoredOnceInReverse, NoMainThreadEffects
<1>5. QED
  BY <1>2, <1>3, <1>4 DEF IInv, DependencyInv, Held, FoundSoFar, LostToStartup

-----------------------------------------------------------------------------
(* What the drivers know of the owners.                                     *)

(* The ledgers, and the histories that are kept with them.                  *)
ledgers == <<world, inserted, effects, provided, registered, undone>>

(* One step per action.                                                     *)
LEMMA DriverInvKept == IInv /\ Next => DriverInv'
<1>1. SUFFICES ASSUME IInv, Next PROVE DriverInv'
  OBVIOUS
<1> USE LifecycleAssumption DEF IInv, DriverInv, records, driver, history, At, Active,
        HasMainThread, Owners, Busy, RollingBack, DriverShape, TypeOK, Phases, States
<1>2. CASE BeginOwner
  <2>1. /\ phase = "Build" /\ cur' = cur + 1 /\ cur' \in Owners
        /\ state[cur'] = "Unknown" /\ state'[cur'] = "Active" /\ Untouched(cur')
        /\ \A o \in Owners \ {cur'} : state'[o] = state[o]
    BY <1>1, <1>2 DEF BeginOwner, OwnerShape
  <2>2. DriverShape'
    <3>1. \A o \in Owners : state'[o] = "Unknown" <=> o > cur'
      <4>1. \A o, c \in Nat : o > c <=> o > c + 1 \/ o = c + 1
        OBVIOUS
      <4>2. cur \in Nat /\ Owners \subseteq Nat /\ ~(cur' > cur')
        BY <1>1, <2>1
      <4>3. \A o \in Owners : state[o] = "Unknown" <=> o > cur
        BY <1>1, <2>1
      <4>4. QED
        BY <2>1, <4>1, <4>2, <4>3
    <3>2. QED
      BY <1>1, <1>2, <2>1, <3>1 DEF BeginOwner
  <2>3. OwnerShape'
    <3>1. SUFFICES ASSUME NEW o \in Owners
          PROVE  /\ state'[o] = "Unknown" => Untouched(o)'
                 /\ state'[o] = "Active" => Whole(o)'
                 /\ state'[o] = "Retired" => Emptied(o)'
      BY DEF OwnerShape
    <3>2. CASE o = cur'
      BY <1>1, <1>2, <2>1, <3>2 DEF BeginOwner, Untouched, Whole
    <3>3. CASE o # cur'
      BY <1>1, <1>2, <2>1, <3>3, ZenonT(30) DEF BeginOwner, OwnerShape, Untouched, Whole, Emptied
    <3>4. QED
      BY <3>2, <3>3
  <2>4. GateOrder' /\ InventoryAtRest'
    BY <1>1, <1>2 DEF BeginOwner, OwnerShape, Untouched, Whole, Emptied, GateOrder,
       InventoryAtRest
  <2>5. QED
    BY <2>2, <2>3, <2>4
<1>3. CASE BuildInsert
  BY <1>1, <1>3, ZenonT(30) DEF BuildInsert, Insert, OwnerShape, Untouched, Whole, Emptied, GateOrder,
     InventoryAtRest
<1>4. CASE BuildRegister
  BY <1>1, <1>4, ZenonT(30)
     DEF BuildRegister, Register, OwnerShape, Untouched, Whole, Emptied, GateOrder,
     InventoryAtRest
<1>5. CASE BuildOk
  BY <1>1, <1>5 DEF BuildOk, OwnerShape, Untouched, Whole, Emptied, GateOrder, InventoryAtRest
<1>6. CASE BuildFails
  <2>1. DriverShape'
    BY <1>1, <1>6 DEF BuildFails, Fail
  <2>2. OwnerShape'
    BY <1>1, <1>6 DEF BuildFails, Fail, OwnerShape, Untouched, Whole, Emptied
  <2>3. GateOrder' /\ InventoryAtRest'
    BY <1>1, <1>6 DEF BuildFails, Fail, OwnerShape, Untouched, Whole, Emptied, GateOrder,
       InventoryAtRest
  <2>4. QED
    BY <2>1, <2>2, <2>3
<1>7. CASE RunStartup
  BY <1>1, <1>7 DEF RunStartup, OwnerShape, Untouched, Whole, Emptied, GateOrder, InventoryAtRest
<1>8. CASE TeardownAll
  BY <1>1, <1>8 DEF TeardownAll, OwnerShape, Untouched, Whole, Emptied, GateOrder, InventoryAtRest
<1>9. CASE NextOwner
  <2>1. /\ cur' \in todo /\ todo' = todo \ {cur'} /\ \A t \in todo' : cur' < t
    <3>1. todo \in SUBSET Owners /\ todo # {} /\ cur' = Min(todo) /\ todo' = todo \ {cur'}
      BY <1>1, <1>9 DEF NextOwner
    <3>2. cur' \in todo /\ \A t \in todo : cur' <= t
      BY ONLY <3>1, MinMax
    <3>3. QED
      BY <3>1, <3>2
  <2>2. DriverShape'
    BY <1>1, <1>9, <2>1 DEF NextOwner
  <2>3. OwnerShape'
    BY <1>1, <1>9, <2>1 DEF NextOwner, OwnerShape, Untouched, Whole, Emptied
  <2>4. GateOrder' /\ InventoryAtRest'
    BY <1>1, <1>9, <2>1 DEF NextOwner, GateOrder, InventoryAtRest
  <2>5. QED
    BY <2>2, <2>3, <2>4
<1>10. CASE NextTornDown
  <2>1. /\ phase = "Teardown" /\ pc = "Next" /\ UNCHANGED <<phase, state, ledgers>>
        /\ cur' \in todo /\ todo' \subseteq todo
    BY <1>1, <1>10, MinMax DEF NextTornDown, ledgers
  <2>2. \/ /\ state[cur'] = "Active" /\ pc' = "Close" /\ gate' = gate
           /\ retiredIn' = [retiredIn EXCEPT ![cur'] = "Teardown"]
        \/ pc' = "Next" /\ UNCHANGED <<retiredIn, gate>>
    BY <1>1, <1>10 DEF NextTornDown
  <2>3. DriverShape'
    BY <1>1, <2>1, <2>2
  <2>4. OwnerShape'
    BY <1>1, <2>1, <2>2, ZenonT(30) DEF ledgers, OwnerShape, Untouched, Whole, Emptied
  <2>5. GateOrder' /\ InventoryAtRest'
    BY <1>1, <2>1, <2>2 DEF GateOrder, InventoryAtRest
  <2>6. QED
    BY <2>3, <2>4, <2>5
<1>11. CASE LoopEnds
  BY <1>1, <1>11 DEF LoopEnds, OwnerShape, Untouched, Whole, Emptied, GateOrder, InventoryAtRest
<1>12. CASE RunUpdate
  BY <1>1, <1>12 DEF RunUpdate, OwnerShape, Untouched, Whole, Emptied, GateOrder, InventoryAtRest
<1>13. CASE StartupSystem
  <2>1. DriverShape'
    BY <1>1, <1>13 DEF StartupSystem, Register
  <2>2. OwnerShape'
    BY <1>1, <1>13, ZenonT(30) DEF StartupSystem, Register, OwnerShape, Untouched, Whole, Emptied
  <2>3. GateOrder' /\ InventoryAtRest'
    BY <1>1, <1>13 DEF StartupSystem, Register, OwnerShape, Untouched, Whole, Emptied, GateOrder,
       InventoryAtRest
  <2>4. QED
    BY <2>1, <2>2, <2>3
<1>14. CASE StartupSystemFails
  <2>1. DriverShape'
    BY <1>1, <1>14 DEF StartupSystemFails, Register, Fail
  <2>2. OwnerShape'
    BY <1>1, <1>14, ZenonT(30)
       DEF StartupSystemFails, Register, Fail, OwnerShape, Untouched, Whole, Emptied
  <2>3. GateOrder' /\ InventoryAtRest'
    BY <1>1, <1>14 DEF StartupSystemFails, Register, Fail, OwnerShape, Untouched, Whole, Emptied,
       GateOrder, InventoryAtRest
  <2>4. QED
    BY <2>1, <2>2, <2>3
<1>15. CASE ApplyInsert
  BY <1>1, <1>15, ZenonT(30)
     DEF ApplyInsert, Insert, OwnerShape, Untouched, Whole, Emptied, GateOrder,
     InventoryAtRest
<1>16. CASE ApplyConflict
  <2>1. DriverShape'
    BY <1>1, <1>16 DEF ApplyConflict, Fail
  <2>2. OwnerShape'
    BY <1>1, <1>16 DEF ApplyConflict, Fail, OwnerShape, Untouched, Whole, Emptied
  <2>3. GateOrder' /\ InventoryAtRest'
    BY <1>1, <1>16 DEF ApplyConflict, Fail, OwnerShape, Untouched, Whole, Emptied, GateOrder,
       InventoryAtRest
  <2>4. QED
    BY <2>1, <2>2, <2>3
<1>17. CASE Applied
  BY <1>1, <1>17 DEF Applied, OwnerShape, Untouched, Whole, Emptied, GateOrder, InventoryAtRest
<1>18. CASE OwnerStarts
  BY <1>1, <1>18, ZenonT(30) DEF OwnerStarts, OwnerShape, Untouched, Whole, Emptied, GateOrder,
     InventoryAtRest
<1>19. CASE UpdateOk
  BY <1>1, <1>19 DEF UpdateOk, OwnerShape, Untouched, Whole, Emptied, GateOrder, InventoryAtRest
<1>20. CASE UpdateFails
  <2>1. DriverShape'
    BY <1>1, <1>20 DEF UpdateFails, Fail
  <2>2. OwnerShape'
    BY <1>1, <1>20 DEF UpdateFails, Fail, OwnerShape, Untouched, Whole, Emptied
  <2>3. GateOrder' /\ InventoryAtRest'
    BY <1>1, <1>20 DEF UpdateFails, Fail, OwnerShape, Untouched, Whole, Emptied, GateOrder,
       InventoryAtRest
  <2>4. QED
    BY <2>1, <2>2, <2>3
<1>21. CASE Close
  <2>1. DriverShape'
    BY <1>1, <1>21 DEF Close
  <2>2. OwnerShape'
    BY <1>1, <1>21, ZenonT(30) DEF Close, OwnerShape, Untouched, Whole, Emptied
  <2>3. GateOrder' /\ InventoryAtRest'
    BY <1>1, <1>21 DEF Close, OwnerShape, Untouched, Whole, Emptied, GateOrder, InventoryAtRest
  <2>4. QED
    BY <2>1, <2>2, <2>3
<1>22. CASE RemoveOne
  BY <1>1, <1>22, ZenonT(30)
     DEF RemoveOne, OwnerShape, Untouched, Whole, Emptied, GateOrder, InventoryAtRest
<1>23. CASE Removed
  BY <1>1, <1>23 DEF Removed, OwnerShape, Untouched, Whole, Emptied, GateOrder, InventoryAtRest
<1>24. CASE RestoreOne
  <2>1. DriverShape'
    BY <1>1, <1>24 DEF RestoreOne
  <2>2. OwnerShape'
    BY <1>1, <1>24 DEF RestoreOne, OwnerShape, Untouched, Whole, Emptied
  <2>3. GateOrder' /\ InventoryAtRest'
    BY <1>1, <1>24 DEF RestoreOne, OwnerShape, Untouched, Whole, Emptied, GateOrder,
       InventoryAtRest
  <2>4. QED
    BY <2>1, <2>2, <2>3
<1>25. CASE Retired
  BY <1>1, <1>25, ZenonT(30)
     DEF Retired, OwnerShape, Untouched, Whole, Emptied, GateOrder, InventoryAtRest
<1>26. QED
  BY <1>1, <1>2, <1>3, <1>4, <1>5, <1>6, <1>7, <1>8, <1>9, <1>10, <1>11, <1>12, <1>13, <1>14,
     <1>15, <1>16, <1>17, <1>18, <1>19, <1>20, <1>21, <1>22, <1>23, <1>24, <1>25 DEF Next,
     Rollback

-----------------------------------------------------------------------------
(* What an entry, made or taken, does to the ledgers.                       *)

(* An insert puts the resource into the world and into one ledger.          *)
LEMMA InsertKeeps ==
  ASSUME TypeOK, LedgerIsWorld, Recorded, NEW o \in Owners, NEW r \in Resources, Insert(o, r)
  PROVE  /\ world' \subseteq Resources /\ inserted' \in [Owners -> Seq(Resources)]
         /\ provided' \in [Owners -> SUBSET Resources]
         /\ world \subseteq world' /\ \A p \in Owners : provided[p] \subseteq provided'[p]
         /\ LedgerIsWorld' /\ Recorded'
<1> DEFINE n == Len(inserted[o])
<1>1. r \notin world /\ world' = world \cup {r} /\ inserted[o] \in Seq(Resources)
  BY DEF Insert, TypeOK
<1>2. /\ n \in Nat /\ DOMAIN inserted[o] = 1..n /\ DOMAIN inserted'[o] = 1..(n + 1)
      /\ \A i \in 1..n : inserted'[o][i] = inserted[o][i]
      /\ inserted'[o][n + 1] = r
  BY <1>1, Longer DEF Insert, TypeOK
<1>3. \A p \in Owners \ {o} : inserted'[p] = inserted[p]
  BY DEF Insert, TypeOK
<1>4. inserted' \in [Owners -> Seq(Resources)] /\ provided' \in [Owners -> SUBSET Resources]
  BY <1>1, Longer DEF Insert, TypeOK
<1>5. provided'[o] = provided[o] \cup {r} /\ \A p \in Owners \ {o} : provided'[p] = provided[p]
  BY DEF Insert, TypeOK
<1> HIDE DEF n
<1>6. /\ \A i \in DOMAIN inserted'[o] : i \in DOMAIN inserted[o] \/ i = n + 1
      /\ n + 1 \notin DOMAIN inserted[o] /\ n + 1 \in DOMAIN inserted'[o]
      /\ DOMAIN inserted[o] \subseteq DOMAIN inserted'[o]
  BY <1>2
<1>7. LedgerIsWorld'
  <2>1. \A p \in Owners : \A i \in DOMAIN inserted'[p] : inserted'[p][i] \in world'
    BY <1>1, <1>2, <1>3, <1>6 DEF LedgerIsWorld
  <2>2. \A p, q \in Owners : \A i \in DOMAIN inserted'[p], j \in DOMAIN inserted'[q] :
          inserted'[p][i] = inserted'[q][j] => p = q /\ i = j
    BY <1>1, <1>2, <1>3, <1>6 DEF LedgerIsWorld
  <2>3. \A x \in world' : \E p \in Owners : \E i \in DOMAIN inserted'[p] : inserted'[p][i] = x
    BY <1>1, <1>2, <1>3, <1>6 DEF LedgerIsWorld
  <2>4. QED
    BY <2>1, <2>2, <2>3 DEF LedgerIsWorld, Owners
<1>8. Recorded'
  <2>1. \A p \in Owners : \A i \in DOMAIN inserted'[p] : inserted'[p][i] \in provided'[p]
    BY <1>2, <1>3, <1>5, <1>6 DEF Recorded
  <2>2. QED
    BY <2>1 DEF Recorded, Owners
<1>9. QED
  BY <1>1, <1>4, <1>5, <1>7, <1>8 DEF TypeOK

(* The latest entry of a resource ledger leaves it, and the world.          *)
LEMMA RemoveKeeps ==
  ASSUME TypeOK, LedgerIsWorld, Recorded, cur \in Owners, RemoveOne
  PROVE  /\ world' \subseteq Resources /\ inserted' \in [Owners -> Seq(Resources)]
         /\ world \ world' \subseteq provided[cur]
         /\ LedgerIsWorld' /\ Recorded'
<1> DEFINE n == Len(inserted[cur])
           r == inserted[cur][n]
<1>1. inserted[cur] \in Seq(Resources) /\ inserted[cur] # <<>> /\ world' = world \ {r}
  BY DEF RemoveOne, TypeOK
<1>2. /\ n \in Nat \ {0} /\ DOMAIN inserted[cur] = 1..n /\ DOMAIN inserted'[cur] = 1..(n - 1)
      /\ \A i \in 1..(n - 1) : inserted'[cur][i] = inserted[cur][i]
  BY <1>1, Front, LenProperties DEF RemoveOne, TypeOK
<1>3. \A p \in Owners \ {cur} : inserted'[p] = inserted[p]
  BY DEF RemoveOne, TypeOK
<1>4. inserted' \in [Owners -> Seq(Resources)]
  BY <1>1, Front DEF RemoveOne, TypeOK
<1>5. UNCHANGED provided
  BY DEF RemoveOne, history
<1> HIDE DEF n
<1>6. /\ n \in DOMAIN inserted[cur] /\ n \notin DOMAIN inserted'[cur]
      /\ DOMAIN inserted'[cur] = DOMAIN inserted[cur] \ {n}
  BY <1>2
<1>7. LedgerIsWorld'
  <2>1. \A p \in Owners : \A i \in DOMAIN inserted'[p] : inserted'[p][i] \in world'
    BY <1>1, <1>2, <1>3, <1>6 DEF LedgerIsWorld
  <2>2. \A p, q \in Owners : \A i \in DOMAIN inserted'[p], j \in DOMAIN inserted'[q] :
          inserted'[p][i] = inserted'[q][j] => p = q /\ i = j
    BY <1>1, <1>2, <1>3, <1>6 DEF LedgerIsWorld
  <2>3. \A x \in world' : \E p \in Owners : \E i \in DOMAIN inserted'[p] : inserted'[p][i] = x
    BY <1>1, <1>2, <1>3, <1>6 DEF LedgerIsWorld
  <2>4. QED
    BY <2>1, <2>2, <2>3 DEF LedgerIsWorld, Owners
<1>8. Recorded'
  <2>1. \A p \in Owners : \A i \in DOMAIN inserted'[p] : inserted'[p][i] \in provided'[p]
    BY <1>2, <1>3, <1>5, <1>6 DEF Recorded
  <2>2. QED
    BY <2>1 DEF Recorded, Owners
<1>9. world \ world' \subseteq provided[cur]
  BY <1>1, <1>6 DEF Recorded
<1>10. QED
  BY <1>1, <1>4, <1>7, <1>8, <1>9 DEF TypeOK

(* A restore action is registered, while none of its owner was ever taken.  *)
LEMMA RegisterKeeps ==
  ASSUME TypeOK, RestoredOnceInReverse, NEW o \in Owners, NEW k \in Kind, Register(o, k),
         undone[o] = <<>>, UNCHANGED undone
  PROVE  /\ effects' \in [Owners -> Seq(Effect)] /\ registered' \in [Owners -> Nat]
         /\ \A p \in Owners : \A i \in DOMAIN effects'[p] :
              effects'[p][i].kind = k \/ (i \in DOMAIN effects[p] /\ effects'[p][i] = effects[p][i])
         /\ RestoredOnceInReverse'
<1> DEFINE n == registered[o]
           e == [id |-> n + 1, kind |-> k]
<1>1. effects[o] \in Seq(Effect) /\ e \in Effect /\ Len(effects[o]) = n /\ n \in Nat
  <2>1. n \in Nat /\ Len(effects[o]) \in Nat /\ effects[o] \in Seq(Effect)
    BY LenProperties DEF TypeOK
  <2>2. n = Len(effects[o]) + Len(undone[o]) /\ Len(undone[o]) = 0
    BY EmptySeq DEF RestoredOnceInReverse
  <2>3. QED
    BY <2>1, <2>2 DEF Effect
<1>2. /\ effects' = [effects EXCEPT ![o] = Append(effects[o], e)]
      /\ registered' = [registered EXCEPT ![o] = n + 1]
  BY DEF Register
<1> HIDE DEF e
<1>3. effects' \in [Owners -> Seq(Effect)] /\ registered' \in [Owners -> Nat]
  BY <1>1, <1>2, Longer DEF TypeOK
<1>4. /\ DOMAIN effects[o] = 1..n /\ DOMAIN effects'[o] = 1..(n + 1) /\ Len(effects'[o]) = n + 1
      /\ \A i \in 1..n : effects'[o][i] = effects[o][i]
      /\ effects'[o][n + 1] = e /\ registered'[o] = n + 1
  BY <1>1, <1>2, Longer DEF TypeOK
<1>5. \A p \in Owners \ {o} : effects'[p] = effects[p] /\ registered'[p] = registered[p]
  BY <1>2 DEF TypeOK
<1>6. e.id = n + 1 /\ e.kind = k
  BY DEF e
<1> HIDE DEF n
<1>7. \A i \in DOMAIN effects'[o] : i \in DOMAIN effects[o] \/ i = n + 1
  BY <1>1, <1>4
<1>8. \A p \in Owners : \A i \in DOMAIN effects'[p] :
        effects'[p][i].kind = k \/ (i \in DOMAIN effects[p] /\ effects'[p][i] = effects[p][i])
  BY <1>4, <1>5, <1>6, <1>7
<1>9. \A p \in Owners :
        /\ registered'[p] = Len(effects'[p]) + Len(undone'[p])
        /\ \A i \in DOMAIN effects'[p] : effects'[p][i].id = i
        /\ \A i \in DOMAIN undone'[p] : undone'[p][i] = [id |-> registered'[p] + 1 - i, ran |-> TRUE]
  <2>1. ASSUME NEW p \in Owners, p # o
        PROVE  /\ registered'[p] = Len(effects'[p]) + Len(undone'[p])
               /\ \A i \in DOMAIN effects'[p] : effects'[p][i].id = i
               /\ \A i \in DOMAIN undone'[p] :
                    undone'[p][i] = [id |-> registered'[p] + 1 - i, ran |-> TRUE]
    BY <1>5, <2>1 DEF RestoredOnceInReverse
  <2>2. registered'[o] = Len(effects'[o]) + Len(undone'[o])
    <3>1. Len(undone'[o]) = 0 /\ n + 1 = n + 1 + 0
      BY <1>1, EmptySeq
    <3>2. QED
      BY <1>4, <3>1
  <2>3. \A i \in DOMAIN effects'[o] : effects'[o][i].id = i
    BY <1>4, <1>6, <1>7 DEF RestoredOnceInReverse
  <2>4. DOMAIN undone'[o] = {}
    OBVIOUS
  <2>5. QED
    BY <2>1, <2>2, <2>3, <2>4
<1>10. QED
  BY <1>3, <1>8, <1>9 DEF RestoredOnceInReverse, Owners

(* The latest restore action is taken, where its kind can run.              *)
LEMMA RestoreKeeps ==
  ASSUME TypeOK, RestoredOnceInReverse, NoMainThreadEffects, cur \in Owners, RestoreOne
  PROVE  /\ effects' \in [Owners -> Seq(Effect)] /\ undone' \in [Owners -> Seq(Undone)]
         /\ RestoredOnceInReverse' /\ NoMainThreadEffects'
<1> DEFINE n == Len(effects[cur])
           m == Len(undone[cur])
           e == effects[cur][n]
           u == [id |-> e.id, ran |-> e.kind = "AnyThread" \/ HasMainThread]
<1>1. /\ effects[cur] \in Seq(Effect) /\ effects[cur] # <<>> /\ undone[cur] \in Seq(Undone)
      /\ registered[cur] \in Nat
  BY DEF RestoreOne, TypeOK
<1>2. n \in Nat \ {0} /\ m \in Nat /\ e \in Effect
  BY <1>1, Front, LenProperties
<1>3. u \in Undone
  BY <1>2 DEF Undone, Effect
<1>4. /\ effects' = [effects EXCEPT ![cur] = SubSeq(effects[cur], 1, n - 1)]
      /\ undone' = [undone EXCEPT ![cur] = Append(undone[cur], u)]
      /\ UNCHANGED <<registered, phase>>
  BY DEF RestoreOne, driver
<1> HIDE DEF u
<1>5. effects' \in [Owners -> Seq(Effect)] /\ undone' \in [Owners -> Seq(Undone)]
  BY <1>1, <1>3, <1>4, Front, Longer DEF TypeOK
<1>6. /\ DOMAIN effects[cur] = 1..n /\ DOMAIN effects'[cur] = 1..(n - 1)
      /\ Len(effects'[cur]) = n - 1 /\ \A i \in 1..(n - 1) : effects'[cur][i] = effects[cur][i]
  BY <1>1, <1>4, Front, LenProperties DEF TypeOK
<1>7. /\ DOMAIN undone[cur] = 1..m /\ DOMAIN undone'[cur] = 1..(m + 1)
      /\ Len(undone'[cur]) = m + 1 /\ \A i \in 1..m : undone'[cur][i] = undone[cur][i]
      /\ undone'[cur][m + 1] = u
  BY <1>1, <1>3, <1>4, Longer DEF TypeOK
<1>8. \A p \in Owners \ {cur} : effects'[p] = effects[p] /\ undone'[p] = undone[p]
  BY <1>4 DEF TypeOK
<1>9. u = [id |-> n, ran |-> TRUE] /\ registered[cur] = n + m
  <2>1. n \in DOMAIN effects[cur]
    BY <1>2, <1>6
  <2>2. e.id = n /\ registered[cur] = n + m
    BY <2>1 DEF RestoredOnceInReverse
  <2>3. e.kind = "AnyThread" \/ HasMainThread
    BY <2>1 DEF NoMainThreadEffects, HasMainThread, TypeOK, Phases
  <2>4. QED
    BY <2>2, <2>3 DEF u
<1> HIDE DEF n, m
<1>10. \A i \in DOMAIN effects'[cur] : i \in DOMAIN effects[cur] /\ effects'[cur][i] = effects[cur][i]
  BY <1>2, <1>6
<1>11. \A i \in DOMAIN undone'[cur] : i \in DOMAIN undone[cur] \/ i = m + 1
  BY <1>2, <1>7
<1>12. RestoredOnceInReverse'
  <2>1. ASSUME NEW p \in Owners, p # cur
        PROVE  /\ registered'[p] = Len(effects'[p]) + Len(undone'[p])
               /\ \A i \in DOMAIN effects'[p] : effects'[p][i].id = i
               /\ \A i \in DOMAIN undone'[p] :
                    undone'[p][i] = [id |-> registered'[p] + 1 - i, ran |-> TRUE]
    BY <1>4, <1>8, <2>1, ZenonT(30) DEF RestoredOnceInReverse
  <2>2. registered'[cur] = Len(effects'[cur]) + Len(undone'[cur])
    <3>1. n + m = n - 1 + (m + 1)
      BY <1>2
    <3>2. QED
      BY <1>4, <1>6, <1>7, <1>9, <3>1
  <2>3. \A i \in DOMAIN effects'[cur] : effects'[cur][i].id = i
    BY <1>10 DEF RestoredOnceInReverse
  <2>4. \A i \in DOMAIN undone'[cur] :
          undone'[cur][i] = [id |-> registered'[cur] + 1 - i, ran |-> TRUE]
    <3>1. n = n + m + 1 - (m + 1)
      BY <1>2
    <3>2. QED
      BY <1>4, <1>7, <1>9, <1>11, <3>1 DEF RestoredOnceInReverse
  <2>5. QED
    BY <2>1, <2>2, <2>3, <2>4 DEF RestoredOnceInReverse, Owners
<1>13. NoMainThreadEffects'
  <2>1. phase \in {"Build", "Teardown"} => \A p \in Owners : \A i \in DOMAIN effects'[p] :
          effects'[p][i].kind = "AnyThread"
    BY <1>8, <1>10 DEF NoMainThreadEffects
  <2>2. QED
    BY <1>4, <2>1 DEF NoMainThreadEffects, Owners
<1>14. QED
  BY <1>5, <1>12, <1>13

-----------------------------------------------------------------------------
(* Steps that leave the ledgers alone.                                      *)

LedgerStep ==
  BuildInsert \/ ApplyInsert \/ BuildRegister \/ StartupSystem \/ StartupSystemFails
    \/ RemoveOne \/ RestoreOne

(* They stay where they are, and the main thread stays the main thread.     *)
LEMMA LedgersUntouched ==
  ASSUME IInv, Next, ~LedgerStep
  PROVE  /\ UNCHANGED ledgers /\ phase' \in Phases
         /\ retiredIn' \in [Owners -> Phases \cup {"no"}]
         /\ (HasMainThread => HasMainThread')
<1> USE LifecycleAssumption DEF IInv, ledgers, records, driver, history, At, HasMainThread, TypeOK,
        Fail, Phases
<1>1. CASE BeginOwner
  BY <1>1 DEF BeginOwner
<1>2. CASE BuildOk
  BY <1>2 DEF BuildOk
<1>3. CASE BuildFails
  BY <1>3 DEF BuildFails
<1>4. CASE RunStartup
  BY <1>4 DEF RunStartup
<1>5. CASE TeardownAll
  BY <1>5 DEF TeardownAll
<1>6. CASE NextOwner
  BY <1>6 DEF NextOwner
<1>7. CASE NextTornDown
  BY <1>7 DEF NextTornDown
<1>8. CASE LoopEnds
  BY <1>8 DEF LoopEnds
<1>9. CASE RunUpdate
  BY <1>9 DEF RunUpdate
<1>10. CASE ApplyConflict
  BY <1>10 DEF ApplyConflict
<1>11. CASE Applied
  BY <1>11 DEF Applied
<1>12. CASE OwnerStarts
  BY <1>12 DEF OwnerStarts
<1>13. CASE UpdateOk
  BY <1>13 DEF UpdateOk
<1>14. CASE UpdateFails
  BY <1>14 DEF UpdateFails
<1>15. CASE Close
  BY <1>15 DEF Close
<1>16. CASE Removed
  BY <1>16 DEF Removed
<1>17. CASE Retired
  BY <1>17 DEF Retired
<1>18. QED
  BY <1>1, <1>2, <1>3, <1>4, <1>5, <1>6, <1>7, <1>8, <1>9, <1>10, <1>11, <1>12, <1>13, <1>14,
     <1>15, <1>16, <1>17 DEF Next, Rollback, LedgerStep

(* Ledgers that are not touched keep what is said of them.                  *)
LEMMA ResourceLedgersKept ==
  ASSUME LedgerInv, UNCHANGED <<world, inserted, provided>>
  PROVE  LedgerIsWorld' /\ Recorded'
<1>1. LedgerIsWorld'
  BY DEF LedgerInv, LedgerIsWorld, Owners
<1>2. Recorded'
  BY DEF LedgerInv, Recorded, Owners
<1>3. QED
  BY <1>1, <1>2

(* The bootstrap worker takes no ledger over from the main thread.          *)
LEMMA EffectLedgersKept ==
  ASSUME TypeOK, LedgerInv, UNCHANGED <<effects, undone, registered>>,
         phase' \in Phases, HasMainThread => HasMainThread'
  PROVE  RestoredOnceInReverse' /\ NoMainThreadEffects'
<1>1. RestoredOnceInReverse'
  BY DEF LedgerInv, RestoredOnceInReverse, Owners
<1>2. NoMainThreadEffects'
  BY DEF LedgerInv, NoMainThreadEffects, TypeOK, HasMainThread, Owners, Phases
<1>3. QED
  BY <1>1, <1>2

-----------------------------------------------------------------------------
(* The invariant is inductive.                                              *)

(* One step per action; the ledgers' types are those of their lemmas.       *)
LEMMA TypeOKKept == IInv /\ Next => TypeOK'
<1>1. SUFFICES ASSUME IInv, Next PROVE TypeOK'
  OBVIOUS
<1> USE <1>1, LifecycleAssumption DEF IInv, DriverInv, LedgerInv, DriverShape, records, driver,
        history, At, Active, Owners, Busy, RollingBack, Fail, Phases, States, TypeOK
<1>2. CASE BeginOwner
  <2>1. cur + 1 \in Owners /\ cur + 1 \in 0..NOwners
    BY <1>2 DEF BeginOwner
  <2>2. state' \in [Owners -> States] /\ cur' \in 0..NOwners
    BY <1>2, <2>1 DEF BeginOwner
  <2>3. QED
    BY <1>2, <2>2 DEF BeginOwner
<1>3. CASE BuildInsert
  <2>1. /\ world' \subseteq Resources /\ inserted' \in [Owners -> Seq(Resources)]
        /\ provided' \in [Owners -> SUBSET Resources]
    BY <1>3, InsertKeeps DEF BuildInsert
  <2>2. QED
    BY <1>3, <2>1 DEF BuildInsert
<1>4. CASE BuildRegister
  <2>1. effects' \in [Owners -> Seq(Effect)] /\ registered' \in [Owners -> Nat]
    <3>1. cur \in Owners /\ undone[cur] = <<>> /\ UNCHANGED undone
      BY <1>4 DEF BuildRegister, OwnerShape, Whole
    <3>2. QED
      BY <1>4, <3>1, RegisterKeeps DEF BuildRegister, Kind
  <2>2. QED
    BY <1>4, <2>1 DEF BuildRegister
<1>5. CASE BuildOk
  BY <1>5 DEF BuildOk
<1>6. CASE BuildFails
  BY <1>6 DEF BuildFails
<1>7. CASE RunStartup
  BY <1>7 DEF RunStartup
<1>8. CASE TeardownAll
  BY <1>8 DEF TeardownAll
<1>9. CASE NextOwner
  <2>1. cur' \in Owners /\ todo' \subseteq Owners
    BY <1>9, MinMax DEF NextOwner
  <2>2. cur' \in 0..NOwners
    BY <2>1
  <2>3. QED
    BY <1>9, <2>1, <2>2 DEF NextOwner
<1>10. CASE NextTornDown
  <2>1. cur' \in Owners /\ todo' \subseteq Owners
    BY <1>10, MinMax DEF NextTornDown
  <2>2. pc' \in {"Next", "Close"} /\ retiredIn' \in [Owners -> Phases \cup {"no"}]
    BY <1>10, <2>1 DEF NextTornDown
  <2>3. cur' \in 0..NOwners
    BY <2>1
  <2>4. QED
    BY <1>10, <2>1, <2>2, <2>3 DEF NextTornDown
<1>11. CASE LoopEnds
  BY <1>11 DEF LoopEnds
<1>12. CASE RunUpdate
  BY <1>12 DEF RunUpdate
<1>13. CASE StartupSystem
  <2>1. effects' \in [Owners -> Seq(Effect)] /\ registered' \in [Owners -> Nat]
    <3>1. cur \in Owners /\ undone[cur] = <<>> /\ UNCHANGED undone
      BY <1>13 DEF StartupSystem, OwnerShape, Whole
    <3>2. QED
      BY <1>13, <3>1, RegisterKeeps DEF StartupSystem
  <2>2. pending' \in Seq(Resources)
    <3>1. PICK n \in 0..2 : pending' \in [1..n -> Resources]
      BY <1>13 DEF StartupSystem, Inserts
    <3>2. n \in Nat
      OBVIOUS
    <3>3. QED
      BY <3>1, <3>2
  <2>3. found' \in [Owners -> SUBSET Resources]
    BY <1>13 DEF StartupSystem
  <2>4. QED
    BY <1>13, <2>1, <2>2, <2>3 DEF StartupSystem
<1>14. CASE StartupSystemFails
  <2>1. effects' \in [Owners -> Seq(Effect)] /\ registered' \in [Owners -> Nat]
    <3>1. cur \in Owners /\ undone[cur] = <<>> /\ UNCHANGED undone
      BY <1>14 DEF StartupSystemFails, OwnerShape, Whole
    <3>2. QED
      BY <1>14, <3>1, RegisterKeeps DEF StartupSystemFails
  <2>2. retiredIn' \in [Owners -> Phases \cup {"no"}]
    BY <1>14 DEF StartupSystemFails
  <2>3. QED
    BY <1>14, <2>1, <2>2 DEF StartupSystemFails
<1>15. CASE ApplyInsert
  <2>1. Head(pending) \in Resources /\ pending' \in Seq(Resources)
    BY <1>15, HeadTailProperties DEF ApplyInsert
  <2>2. /\ world' \subseteq Resources /\ inserted' \in [Owners -> Seq(Resources)]
        /\ provided' \in [Owners -> SUBSET Resources]
    BY <1>15, <2>1, InsertKeeps DEF ApplyInsert
  <2>3. QED
    BY <1>15, <2>1, <2>2 DEF ApplyInsert
<1>16. CASE ApplyConflict
  <2>1. pending' \in Seq(Resources) /\ retiredIn' \in [Owners -> Phases \cup {"no"}]
    BY <1>16, EmptySeq DEF ApplyConflict
  <2>2. QED
    BY <1>16, <2>1 DEF ApplyConflict
<1>17. CASE Applied
  BY <1>17 DEF Applied
<1>18. CASE OwnerStarts
  BY <1>18 DEF OwnerStarts
<1>19. CASE UpdateOk
  <2>1. found' \in [Owners -> SUBSET Resources]
    BY <1>19 DEF UpdateOk
  <2>2. QED
    BY <1>19, <2>1 DEF UpdateOk
<1>20. CASE UpdateFails
  BY <1>20 DEF UpdateFails
<1>21. CASE Close
  BY <1>21 DEF Close
<1>22. CASE RemoveOne
  <2>1. world' \subseteq Resources /\ inserted' \in [Owners -> Seq(Resources)]
    BY <1>22, RemoveKeeps DEF RemoveOne
  <2>2. QED
    BY <1>22, <2>1 DEF RemoveOne
<1>23. CASE Removed
  BY <1>23 DEF Removed
<1>24. CASE RestoreOne
  <2>1. effects' \in [Owners -> Seq(Effect)] /\ undone' \in [Owners -> Seq(Undone)]
    BY <1>24, RestoreKeeps DEF RestoreOne
  <2>2. QED
    BY <1>24, <2>1 DEF RestoreOne
<1>25. CASE Retired
  BY <1>25 DEF Retired
<1>26. QED
  BY <1>2, <1>3, <1>4, <1>5, <1>6, <1>7, <1>8, <1>9, <1>10, <1>11, <1>12, <1>13, <1>14, <1>15,
     <1>16, <1>17, <1>18, <1>19, <1>20, <1>21, <1>22, <1>23, <1>24, <1>25 DEF Next, Rollback

(* Only seven actions write to a ledger.                                    *)
LEMMA LedgerInvKept == IInv /\ Next => LedgerInv'
<1>1. SUFFICES ASSUME IInv, Next PROVE LedgerInv'
  OBVIOUS
<1>2. TypeOK'
  BY <1>1, TypeOKKept
<1> USE <1>1, LifecycleAssumption DEF IInv, DriverInv, DriverShape, OwnerShape, Whole, TypeOK,
        records, driver, history, At, Active, Owners, Busy, RollingBack, HasMainThread
<1>3. CASE ~LedgerStep
  BY <1>2, <1>3, LedgersUntouched, ResourceLedgersKept, EffectLedgersKept DEF LedgerInv, ledgers
<1>4. CASE BuildInsert
  <2>1. LedgerIsWorld' /\ Recorded'
    BY <1>4, InsertKeeps DEF BuildInsert, LedgerInv
  <2>2. RestoredOnceInReverse' /\ NoMainThreadEffects'
    BY <1>2, <1>4, EffectLedgersKept DEF BuildInsert
  <2>3. QED
    BY <2>1, <2>2 DEF LedgerInv
<1>5. CASE ApplyInsert
  <2>1. Head(pending) \in Resources
    BY <1>5, HeadTailProperties DEF ApplyInsert
  <2>2. LedgerIsWorld' /\ Recorded'
    BY <1>5, <2>1, InsertKeeps DEF ApplyInsert, LedgerInv
  <2>3. RestoredOnceInReverse' /\ NoMainThreadEffects'
    BY <1>2, <1>5, EffectLedgersKept DEF ApplyInsert
  <2>4. QED
    BY <2>2, <2>3 DEF LedgerInv
<1>6. CASE BuildRegister
  <2>1. cur \in Owners /\ undone[cur] = <<>> /\ UNCHANGED undone /\ "AnyThread" \in Kind
    BY <1>6 DEF BuildRegister, Kind
  <2>2. /\ RestoredOnceInReverse'
        /\ \A p \in Owners : \A i \in DOMAIN effects'[p] :
             \/ effects'[p][i].kind = "AnyThread"
             \/ i \in DOMAIN effects[p] /\ effects'[p][i] = effects[p][i]
    BY <1>6, <2>1, RegisterKeeps DEF BuildRegister, LedgerInv
  <2>3. NoMainThreadEffects'
    BY <1>6, <2>2 DEF BuildRegister, LedgerInv, NoMainThreadEffects
  <2>4. LedgerIsWorld' /\ Recorded'
    BY <1>6, ResourceLedgersKept DEF BuildRegister
  <2>5. QED
    BY <2>2, <2>3, <2>4 DEF LedgerInv
<1>7. CASE StartupSystem \/ StartupSystemFails
  <2>1. /\ cur \in Owners /\ undone[cur] = <<>> /\ UNCHANGED <<undone, phase>> /\ phase = "Startup"
        /\ UNCHANGED <<world, inserted, provided>>
        /\ (\E k \in Kind : Register(cur, k)) \/ UNCHANGED <<effects, registered>>
    BY <1>7 DEF StartupSystem, StartupSystemFails, Fail
  <2>2. RestoredOnceInReverse'
    BY <1>2, <2>1, RegisterKeeps, EffectLedgersKept DEF LedgerInv
  <2>3. NoMainThreadEffects'
    BY <2>1 DEF NoMainThreadEffects
  <2>4. LedgerIsWorld' /\ Recorded'
    BY <2>1, ResourceLedgersKept
  <2>5. QED
    BY <2>2, <2>3, <2>4 DEF LedgerInv
<1>8. CASE RemoveOne
  <2>1. LedgerIsWorld' /\ Recorded'
    BY <1>8, RemoveKeeps DEF RemoveOne, LedgerInv
  <2>2. RestoredOnceInReverse' /\ NoMainThreadEffects'
    BY <1>2, <1>8, EffectLedgersKept DEF RemoveOne
  <2>3. QED
    BY <2>1, <2>2 DEF LedgerInv
<1>9. CASE RestoreOne
  <2>1. RestoredOnceInReverse' /\ NoMainThreadEffects'
    BY <1>9, RestoreKeeps DEF RestoreOne, LedgerInv
  <2>2. LedgerIsWorld' /\ Recorded'
    BY <1>9, ResourceLedgersKept DEF RestoreOne
  <2>3. QED
    BY <2>1, <2>2 DEF LedgerInv
<1>10. QED
  BY <1>3, <1>4, <1>5, <1>6, <1>7, <1>8, <1>9 DEF LedgerStep

(* An owner is retired once, in the phase that runs, and a torn down App    *)
(* stays torn down.                                                         *)
LEMMA RetiredOnce ==
  ASSUME IInv, Next, NEW o \in Owners
  PROVE  /\ retiredIn'[o] # retiredIn[o] => retiredIn[o] = "no" /\ retiredIn'[o] = phase
         /\ phase = "Teardown" => phase' = "Teardown"
<1> USE DEF IInv, DriverInv, DriverShape, OwnerShape, Whole, TypeOK, records, driver, history, At,
        Active, HasMainThread, Busy, RollingBack, Fail
<1>1. phase = "Teardown" => phase' = "Teardown"
  BY DEF Next, Rollback, BeginOwner, BuildInsert, BuildRegister, BuildOk, BuildFails, RunStartup,
         TeardownAll, NextOwner, NextTornDown, LoopEnds, RunUpdate, StartupSystem,
         StartupSystemFails, ApplyInsert, ApplyConflict, Applied, OwnerStarts, UpdateOk,
         UpdateFails, Close, RemoveOne, Removed, RestoreOne, Retired
<1>2. CASE BuildFails \/ StartupSystemFails \/ ApplyConflict \/ UpdateFails
  <2>1. /\ pc \in {"Run", "Apply"} /\ cur \in Owners /\ state[cur] = "Active"
        /\ retiredIn' = [retiredIn EXCEPT ![cur] = phase]
    BY <1>2 DEF BuildFails, StartupSystemFails, ApplyConflict, UpdateFails
  <2>2. retiredIn[cur] = "no"
    BY <2>1
  <2>3. QED
    BY <1>1, <2>1, <2>2
<1>3. CASE NextTornDown
  <2>1. /\ phase = "Teardown" /\ pc = "Next"
        /\ \/ UNCHANGED retiredIn
           \/ cur' \in Active /\ retiredIn' = [retiredIn EXCEPT ![cur'] = "Teardown"]
    BY <1>3 DEF NextTornDown
  <2>2. cur' \in Active => retiredIn[cur'] = "no"
    BY <2>1
  <2>3. QED
    BY <1>1, <2>1, <2>2
<1>4. CASE ~(BuildFails \/ StartupSystemFails \/ ApplyConflict \/ UpdateFails \/ NextTornDown)
  <2>1. UNCHANGED retiredIn
    BY <1>4 DEF Next, Rollback, BeginOwner, BuildInsert, BuildRegister, BuildOk, RunStartup,
       TeardownAll, NextOwner, LoopEnds, RunUpdate, StartupSystem, ApplyInsert, Applied,
       OwnerStarts, UpdateOk, Close, RemoveOne, Removed, RestoreOne, Retired
  <2>2. QED
    BY <1>1, <2>1
<1>5. QED
  BY <1>2, <1>3, <1>4

(* A ledger only gives up what a Build, a Startup or a teardown rolls back. *)
LEMMA HeldKept == IInv /\ Next => Held'
<1>1. SUFFICES ASSUME IInv, Next PROVE Held'
  OBVIOUS
<1>2. ASSUME NEW o \in Owners, retiredIn'[o] = "Teardown"
      PROVE  phase' = "Teardown"
  BY <1>1, <1>2, RetiredOnce DEF IInv, DependencyInv, Held
<1>3. ASSUME NEW o \in Owners, retiredIn'[o] \in {"no", "Update"}, NEW r \in provided'[o]
      PROVE  \E i \in DOMAIN inserted'[o] : inserted'[o][i] = r
  <2>1. retiredIn[o] \in {"no", "Update"}
    BY <1>1, <1>3, RetiredOnce
  <2>2. \A x \in provided[o] : \E i \in DOMAIN inserted[o] : inserted[o][i] = x
    BY <1>1, <2>1 DEF IInv, DependencyInv, Held
  <2>3. CASE UNCHANGED <<inserted, provided>>
    BY <1>3, <2>2, <2>3
  <2>4. CASE BuildInsert \/ ApplyInsert
    <3>1. PICK x \in Resources : Insert(cur, x)
      BY <1>1, <2>4, HeadTailProperties DEF BuildInsert, ApplyInsert, IInv, TypeOK
    <3>2. cur \in Owners
      BY <1>1, <2>4 DEF BuildInsert, ApplyInsert, At, IInv, DriverInv, DriverShape, Busy
    <3>3. CASE o = cur
      <4>1. inserted[o] \in Seq(Resources) /\ provided'[o] = provided[o] \cup {x}
            /\ inserted'[o] = Append(inserted[o], x)
        BY <1>1, <3>1, <3>2, <3>3 DEF Insert, IInv, TypeOK
      <4>2. /\ DOMAIN inserted'[o] = 1..(Len(inserted[o]) + 1)
            /\ \A i \in 1..Len(inserted[o]) : inserted'[o][i] = inserted[o][i]
            /\ inserted'[o][Len(inserted[o]) + 1] = x
            /\ Len(inserted[o]) \in Nat /\ DOMAIN inserted[o] = 1..Len(inserted[o])
        BY <4>1, Longer
      <4>3. CASE r = x
        BY <4>2, <4>3
      <4>4. CASE r # x
        <5>1. PICK i \in DOMAIN inserted[o] : inserted[o][i] = r
          BY <1>3, <2>2, <4>1, <4>4
        <5>2. i \in DOMAIN inserted'[o] /\ inserted'[o][i] = r
          BY <4>2, <5>1
        <5>3. QED
          BY <5>2
      <4>5. QED
        BY <4>3, <4>4
    <3>4. CASE o # cur
      BY <1>1, <1>3, <2>2, <3>1, <3>2, <3>4 DEF Insert, IInv, TypeOK
    <3>5. QED
      BY <3>3, <3>4
  <2>5. CASE RemoveOne
    <3>1. o # cur
      BY <1>1, <2>1, <2>5 DEF RemoveOne, IInv, DriverInv, DriverShape, RollingBack, TypeOK, Phases
    <3>2. provided' = provided /\ inserted'[o] = inserted[o]
      BY <1>1, <2>5, <3>1 DEF RemoveOne, history, IInv, TypeOK
    <3>3. QED
      BY <1>3, <2>2, <3>2
  <2>6. CASE BuildRegister \/ StartupSystem \/ StartupSystemFails \/ RestoreOne
    <3>1. UNCHANGED <<inserted, provided>>
      BY <2>6 DEF BuildRegister, StartupSystem, StartupSystemFails, RestoreOne
    <3>2. QED
      BY <2>3, <3>1
  <2>7. CASE ~LedgerStep
    <3>1. UNCHANGED <<inserted, provided>>
      BY <1>1, <2>7, LedgersUntouched DEF ledgers
    <3>2. QED
      BY <2>3, <3>1
  <2>8. QED
    BY <2>4, <2>5, <2>6, <2>7 DEF LedgerStep
<1>4. QED
  BY <1>2, <1>3 DEF Held, Owners

(* No owner loses what its systems could find, whoever is retired.          *)
LEMMA LostKept ==
  ASSUME LostToStartup, world \subseteq world',
         \A o \in Owners :
           /\ gate'[o] = "open" => gate[o] = "open" /\ found'[o] \ world' \subseteq found[o]
           /\ provided[o] \subseteq provided'[o]
           /\ retiredIn[o] = "Startup" => retiredIn'[o] = "Startup"
  PROVE  LostToStartup'
BY DEF LostToStartup, Owners

(* It can only go in a removal, which is a Startup rollback once a gate is  *)
(* open, and of a later owner.                                              *)
LEMMA LostToStartupKept == IInv /\ Next => LostToStartup'
<1>1. SUFFICES ASSUME IInv, Next PROVE LostToStartup'
  OBVIOUS
<1>2. \A o \in Owners : retiredIn[o] = "Startup" => retiredIn'[o] = "Startup"
  BY <1>1, RetiredOnce
<1> USE <1>1, LifecycleAssumption DEF IInv, DriverInv, DriverShape, DependencyInv, GateOrder,
        TypeOK, records, driver, history, At, Owners, Busy, RollingBack
<1>3. CASE OwnerStarts
  <2>1. UNCHANGED <<world, found, provided, retiredIn>> /\ phase = "Startup" /\ pc = "Run"
    BY <1>3 DEF OwnerStarts
  <2>2. \A o \in Owners \ {cur} : gate'[o] = gate[o]
    BY <1>3 DEF OwnerStarts
  <2>3. \A o \in Owners : gate'[o] = "open" =>
          \A r \in found[o] \ world :
            \E p \in Owners : p > o /\ r \in provided[p] /\ retiredIn[p] = "Startup"
    <3>1. TAKE o \in Owners
    <3>2. CASE o = cur
      BY <2>1, <3>2 DEF FoundSoFar
    <3>3. CASE o # cur
      BY <2>2, <3>3 DEF LostToStartup
    <3>4. QED
      BY <3>2, <3>3
  <2>4. QED
    BY ONLY <2>1, <2>3 DEF LostToStartup, Owners
<1>4. CASE RemoveOne
  <2>1. /\ cur \in Owners /\ retiredIn[cur] = phase /\ world \ world' \subseteq provided[cur]
        /\ UNCHANGED <<gate, found, provided, retiredIn>>
    BY <1>4, RemoveKeeps DEF RemoveOne, LedgerInv
  <2>2. SUFFICES ASSUME NEW o \in Owners, gate[o] = "open", NEW r \in found[o] \ world'
                 PROVE  \E p \in Owners : p > o /\ r \in provided[p] /\ retiredIn[p] = "Startup"
    BY <2>1 DEF LostToStartup
  <2>3. CASE r \in world
    <3>1. phase = "Startup" /\ cur > o
      BY <1>4, <2>2 DEF RemoveOne
    <3>2. QED
      BY <2>1, <2>2, <2>3, <3>1
  <2>4. CASE r \notin world
    BY <2>2, <2>4 DEF LostToStartup
  <2>5. QED
    BY <2>3, <2>4
<1>5. CASE BuildInsert
  BY <1>2, <1>5, InsertKeeps, LostKept DEF BuildInsert, LedgerInv
<1>6. CASE ApplyInsert
  BY <1>2, <1>6, HeadTailProperties, InsertKeeps, LostKept DEF ApplyInsert, LedgerInv
<1>7. CASE StartupSystem \/ UpdateOk
  <2>1. /\ UNCHANGED <<world, gate, provided>> /\ cur \in Owners
        /\ found' = [found EXCEPT ![cur] = found[cur] \cup world]
    BY <1>7 DEF StartupSystem, UpdateOk
  <2>2. \A o \in Owners : found'[o] \ world' \subseteq found[o]
    BY <2>1
  <2>3. QED
    BY <1>2, <2>1, <2>2, LostKept
<1>8. CASE ~(OwnerStarts \/ RemoveOne \/ BuildInsert \/ ApplyInsert \/ StartupSystem \/ UpdateOk)
  <2>1. UNCHANGED <<world, found, provided>>
    BY <1>8 DEF Next, Rollback, BeginOwner, BuildRegister, BuildOk, BuildFails, RunStartup,
       TeardownAll, NextOwner, NextTornDown, LoopEnds, RunUpdate, StartupSystemFails,
       ApplyConflict, Applied, UpdateFails, Close, Removed, RestoreOne, Retired
  <2>2. \A o \in Owners : gate'[o] = "open" => gate[o] = "open"
    BY <1>8 DEF Next, Rollback, BeginOwner, BuildRegister, BuildOk, BuildFails, RunStartup,
       TeardownAll, NextOwner, NextTornDown, LoopEnds, RunUpdate, StartupSystemFails,
       ApplyConflict, Applied, UpdateFails, Close, Removed, RestoreOne, Retired
  <2>3. QED
    BY <1>2, <2>1, <2>2, LostKept
<1>9. QED
  BY <1>3, <1>4, <1>5, <1>6, <1>7, <1>8

(* The world only grows from an owner's first Startup system to its last.   *)
LEMMA FoundSoFarKept == IInv /\ Next => FoundSoFar'
<1>1. SUFFICES ASSUME IInv, Next PROVE FoundSoFar'
  OBVIOUS
<1> USE <1>1, LifecycleAssumption DEF IInv, DriverInv, DriverShape, DependencyInv, FoundSoFar,
        TypeOK, records, driver, history, At, Active, HasMainThread, Owners, Busy, Fail
<1>2. CASE BuildInsert \/ ApplyInsert
  <2>1. /\ world \subseteq world' /\ UNCHANGED <<found, phase, cur, todo, pc>>
    BY <1>2 DEF BuildInsert, ApplyInsert, Insert
  <2>2. QED
    BY <2>1
<1>3. CASE RunStartup
  BY <1>3 DEF RunStartup
<1>4. CASE NextOwner
  <2>1. cur' \in todo /\ todo' \subseteq todo /\ UNCHANGED <<phase, found, world>>
    BY <1>4, MinMax DEF NextOwner
  <2>2. QED
    BY <2>1
<1>5. CASE StartupSystem
  <2>1. /\ UNCHANGED <<world, phase, cur, todo>> /\ phase = "Startup" /\ cur \in Owners \ todo
        /\ found' = [found EXCEPT ![cur] = found[cur] \cup world] /\ found[cur] \subseteq world
    BY <1>5 DEF StartupSystem
  <2>2. found'[cur] \subseteq world /\ \A t \in todo : found'[t] = found[t]
    BY <2>1
  <2>3. QED
    BY <2>1, <2>2
<1>6. CASE UpdateOk
  BY <1>6 DEF UpdateOk
<1>7. CASE RemoveOne
  BY <1>7 DEF RemoveOne
<1>8. CASE BeginOwner \/ BuildRegister \/ BuildOk \/ BuildFails \/ TeardownAll \/ NextTornDown
             \/ LoopEnds \/ RunUpdate
  <2>1. \/ UNCHANGED found /\ phase' # "Startup" /\ (phase' = "Build" => phase = "Build")
        \/ UNCHANGED <<found, phase, todo, world>> /\ pc' = "Rest"
    BY <1>8 DEF BeginOwner, BuildRegister, BuildOk, BuildFails, TeardownAll, NextTornDown,
                LoopEnds, RunUpdate
  <2>2. QED
    BY <2>1
<1>9. CASE StartupSystemFails \/ ApplyConflict \/ Applied \/ OwnerStarts \/ UpdateFails \/ Close
             \/ Removed \/ RestoreOne \/ Retired
  <2>1. /\ UNCHANGED <<found, phase, cur, todo, world>>
        /\ pc' \in {"Run", "Apply"} => pc \in {"Run", "Apply"}
    BY <1>9 DEF StartupSystemFails, ApplyConflict, Applied, OwnerStarts, UpdateFails, Close,
                Removed, RestoreOne, Retired
  <2>2. QED
    BY <2>1
<1>10. QED
  BY <1>2, <1>3, <1>4, <1>5, <1>6, <1>7, <1>8, <1>9 DEF Next, Rollback

(* A stuttering step.                                                       *)
LEMMA StutterIInv == IInv /\ UNCHANGED vars => IInv'
<1>1. SUFFICES ASSUME IInv, UNCHANGED vars PROVE IInv'
  OBVIOUS
<1> USE <1>1 DEF IInv, vars, records, driver, history, Owners
<1>2. TypeOK'
  BY DEF TypeOK
<1>3. DriverInv'
  BY DEF DriverInv, DriverShape, OwnerShape, Untouched, Whole, Emptied, GateOrder, InventoryAtRest,
         Busy, RollingBack, Active
<1>4. LedgerInv'
  BY <1>2, ResourceLedgersKept, EffectLedgersKept DEF LedgerInv, TypeOK, HasMainThread
<1>5. DependencyInv'
  BY LostKept DEF DependencyInv, Held, FoundSoFar
<1>6. QED
  BY <1>2, <1>3, <1>4, <1>5

(* Every step.                                                              *)
LEMMA NextIInv == IInv /\ [Next]_vars => IInv'
<1>1. IInv /\ Next => IInv'
  BY TypeOKKept, DriverInvKept, LedgerInvKept, HeldKept, FoundSoFarKept, LostToStartupKept
     DEF IInv, DependencyInv
<1>2. QED
  BY <1>1, StutterIInv

-----------------------------------------------------------------------------
(* The theorems.                                                            *)

(* The inductive invariant holds always.                                    *)
THEOREM Invariance == Spec => []IInv
BY InitIInv, NextIInv, PTL DEF Spec

(* The types: in particular the owner the driver works on is registered     *)
(* whenever plugin code or a rollback runs for it.                          *)
THEOREM TypeCorrect == Spec => []TypeOK
BY Invariance, PTL DEF IInv

(* The resource ledgers of all owners together are the AppWorld: what a     *)
(* rollback removes is always something this owner inserted, and is there.  *)
THEOREM WorldIsRecorded == Spec => []LedgerIsWorld
BY Invariance, PTL DEF IInv, LedgerInv

(* Every restore action is run once, the latest first, and none that needs  *)
(* the main thread is ever met by a rollback on the bootstrap worker.       *)
THEOREM RestoresAreExact == Spec => []RestoredOnceInReverse
BY Invariance, PTL DEF IInv, LedgerInv

(* Between two drivers nothing is half undone, and the inventory is the     *)
(* truth.                                                                   *)
THEOREM SettledAtRest == Spec => []SettledBetweenDrivers
<1>1. IInv => SettledBetweenDrivers
  BY DEF IInv, DriverInv, InventoryAtRest, OwnerShape, Emptied, RollingBack, SettledBetweenDrivers
<1>2. QED
  BY <1>1, Invariance, PTL

(* What the systems of a started owner could find goes only with the        *)
(* Startup rollback of a plugin registered after it; and what its Update    *)
(* systems do not find no plugin inserted that is still active, or that an  *)
(* Update retired.                                                          *)
THEOREM DependenciesKept == Spec => []DependencyLostOnlyToStartup
<1>1. IInv => DependencyLostOnlyToStartup
  <2>1. SUFFICES ASSUME IInv, NEW o \in Owners, gate[o] = "open", NEW p \in Owners,
                        NEW r \in provided[p] \ world
                 PROVE  retiredIn[p] \in {"Build", "Startup"}
    BY DEF DependencyLostOnlyToStartup, IInv, DependencyInv, LostToStartup
  <2>2. retiredIn[p] \notin {"no", "Update"}
    BY <2>1 DEF IInv, DependencyInv, Held, LedgerInv, LedgerIsWorld
  <2>3. retiredIn[p] # "Teardown"
    BY <2>1 DEF IInv, DependencyInv, Held, DriverInv, GateOrder
  <2>4. QED
    BY <2>1, <2>2, <2>3 DEF IInv, TypeOK, Phases
<1>2. QED
  BY <1>1, Invariance, PTL

(* No step opens a gate that was closed for good.                           *)
LEMMA FailedStaysFailed ==
  ASSUME IInv, Next, NEW o \in Owners, gate[o] = "failed"
  PROVE  gate'[o] = "failed"
BY DEF IInv, TypeOK, Next, Rollback, BeginOwner, BuildInsert, BuildRegister, BuildOk, BuildFails,
       RunStartup, TeardownAll, NextOwner, NextTornDown, LoopEnds, RunUpdate, StartupSystem,
       StartupSystemFails, ApplyInsert, ApplyConflict, Applied, OwnerStarts, UpdateOk,
       UpdateFails, Close, RemoveOne, Removed, RestoreOne, Retired, records

(* Nothing is undone behind an open gate, and no gate opens twice.          *)
THEOREM NothingUndoneBehindOpenGate == Spec => GateClosesFirst
<1> DEFINE Closed == \A o \in Owners :
             /\ Len(inserted'[o]) < Len(inserted[o]) \/ Len(effects'[o]) < Len(effects[o])
                  => gate[o] = "failed"
             /\ gate[o] = "failed" => gate'[o] = "failed"
<1>1. IInv /\ Next => Closed
  <2>1. SUFFICES ASSUME IInv, Next, NEW o \in Owners
        PROVE  /\ Len(inserted'[o]) < Len(inserted[o]) \/ Len(effects'[o]) < Len(effects[o])
                    => gate[o] = "failed"
               /\ gate[o] = "failed" => gate'[o] = "failed"
    OBVIOUS
  <2>2. Len(inserted[o]) \in Nat /\ Len(effects[o]) \in Nat
    BY <2>1, LenProperties DEF IInv, TypeOK
  <2>3. CASE ~LedgerStep
    <3>1. UNCHANGED <<inserted, effects>>
      BY <2>1, <2>3, LedgersUntouched DEF ledgers
    <3>2. ~(Len(inserted'[o]) < Len(inserted[o])) /\ ~(Len(effects'[o]) < Len(effects[o]))
      BY <2>2, <3>1
    <3>3. QED
      BY <2>1, <3>2, FailedStaysFailed
  <2>4. CASE RemoveOne \/ RestoreOne
    <3>1. gate[cur] = "failed" /\ (o # cur => inserted'[o] = inserted[o] /\ effects'[o] = effects[o])
      BY <2>1, <2>4 DEF RemoveOne, RestoreOne, IInv, DriverInv, DriverShape, TypeOK, records
    <3>2. QED
      BY <2>1, <2>2, <3>1, FailedStaysFailed
  <2>5. CASE BuildInsert \/ ApplyInsert
    <3>1. \/ inserted'[o] = inserted[o]
          \/ \E r \in Resources : inserted'[o] = Append(inserted[o], r)
      <4>1. \E r \in Resources : inserted' = [inserted EXCEPT ![cur] = Append(inserted[cur], r)]
        BY <2>1, <2>5, HeadTailProperties DEF BuildInsert, ApplyInsert, Insert, IInv, TypeOK
      <4>2. QED
        BY <2>1, <4>1 DEF IInv, TypeOK
    <3>2. Len(inserted'[o]) \in {Len(inserted[o]), Len(inserted[o]) + 1} /\ effects'[o] = effects[o]
      BY <2>1, <2>5, <3>1, AppendProperties DEF BuildInsert, ApplyInsert, IInv, TypeOK
    <3>3. QED
      BY <2>1, <2>2, <3>2, FailedStaysFailed
  <2>6. CASE BuildRegister \/ StartupSystem \/ StartupSystemFails
    <3>1. effects'[o] = effects[o] \/ \E e \in Effect : effects'[o] = Append(effects[o], e)
      <4>1. \/ UNCHANGED effects
            \/ \E k \in Kind : effects' = [effects EXCEPT ![cur] =
                                            Append(effects[cur], [id |-> registered[cur] + 1, kind |-> k])]
        BY <2>6 DEF BuildRegister, StartupSystem, StartupSystemFails, Register, Kind
      <4>2. \A k \in Kind : [id |-> registered[cur] + 1, kind |-> k] \in Effect
        BY <2>1, <2>6 DEF Effect, IInv, TypeOK, DriverInv, DriverShape, Busy, BuildRegister,
                          StartupSystem, StartupSystemFails, At
      <4>3. CASE o = cur
        BY <2>1, <4>1, <4>2, <4>3 DEF IInv, TypeOK
      <4>4. CASE o # cur
        BY <2>1, <4>1, <4>4 DEF IInv, TypeOK
      <4>5. QED
        BY <4>3, <4>4
    <3>2. Len(effects'[o]) \in {Len(effects[o]), Len(effects[o]) + 1} /\ inserted'[o] = inserted[o]
      BY <2>1, <2>6, <3>1, AppendProperties DEF BuildRegister, StartupSystem, StartupSystemFails,
                                                IInv, TypeOK
    <3>3. QED
      BY <2>1, <2>2, <3>2, FailedStaysFailed
  <2>7. QED
    BY <2>3, <2>4, <2>5, <2>6 DEF LedgerStep
<1>2. IInv /\ [Next]_vars => [Closed]_vars
  BY <1>1
<1>3. QED
  BY <1>2, Invariance, PTL DEF Spec, GateClosesFirst

=============================================================================
