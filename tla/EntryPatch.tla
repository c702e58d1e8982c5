------------------------------ MODULE EntryPatch ------------------------------
(***************************************************************************)
(* Moving the first instructions of a function out of the way of a patch   *)
(* (crates/core/src/entry_patch.rs): the size of the patch, the plan for   *)
(* every displaced instruction, the trampoline they are emitted into, and  *)
(* a thread that runs through the patch, the replacement and the           *)
(* trampoline. Words are records of the fields an aarch64 encoding has;    *)
(* immediates keep the width of their field.                               *)
(***************************************************************************)
EXTENDS CodePlaces, Sequences, Bitwise

CONSTANTS
  Windows,       (* what the program may have at the entry                 *)
  Data,          (* what its tests may find                                *)
  Distances      (* bytes from the entry to the replacement                *)

VARIABLES
  distance,      (* of this hook                                           *)
  ops,           (* the displaced instructions                             *)
  data,          (* flags, register and bits the tests read                *)
  pos, tramp,    (* ops_pos, and the words of the trampoline               *)
  at, lr, x16,   (* program counter, link and scratch register             *)
  last           (* what was executed last, branches apart                 *)

vars == <<distance, ops, data, pos, tramp, at, lr, x16, last>>

-----------------------------------------------------------------------------
(* A signed number in a field of so many bits, and back.                    *)
Field(v, bits) == v % 2^bits
Sext(f, bits)  == IF f >= 2^(bits - 1) THEN f - 2^bits ELSE f

-----------------------------------------------------------------------------
(* The patch: one near branch, or four words.                               *)

BranchImm26Words == 2^25

(* Mutant: the reach of a branch is taken one word too far.                 *)
Reachable_OneTooFar(d) ==
  /\ d % 4 = 0
  /\ -BranchImm26Words <= d \div 4 /\ d \div 4 <= BranchImm26Words

Reachable(d) ==
  /\ d % 4 = 0
  /\ -BranchImm26Words <= d \div 4 /\ d \div 4 < BranchImm26Words

PatchWords(d) == IF Reachable(d) THEN 1 ELSE 4

(* Where the patch sends a thread, in bytes from the entry.                 *)
PatchTarget(d) == IF Reachable(d) THEN 4 * Sext(Field(d \div 4, 26), 26) ELSE d

-----------------------------------------------------------------------------
(* The plan. plan_op refuses what it takes for adr, adrp and literal loads; *)
(* its mask for the latter also matches stores with a pre-index and misses  *)
(* the loads of vector registers.                                           *)

Branches == {"b", "bl", "bcond", "cbz", "tbz"}

CannotMove(op) == op.k \in {"adr", "literal", "pre_index"}

(* Indices count from zero, as in the code.                                 *)
Op(i) == ops[i + 1]
Indices == 0 .. Len(ops) - 1
Target(i) == i + Op(i).imm
InWindow(t) == t \in Indices

PlanSize(i) ==
  CASE Op(i).k \notin Branches \/ InWindow(Target(i)) -> 1
    [] Op(i).k = "b"  -> 4
    [] Op(i).k = "bl" -> 7
    [] OTHER          -> 5

(* ops_pos: where in the trampoline each instruction begins.                *)
Position[i \in Nat] == IF i = 0 THEN 0 ELSE Position[i - 1] + PlanSize(i - 1)
-----------------------------------------------------------------------------
(* The words emitted for one instruction.                                   *)

Plain(i)     == [k |-> Op(i).k, id |-> i]
Mov(rd, p)   == << [k |-> "movz"], [k |-> "movk"], [k |-> "moved", rd |-> rd, to |-> p] >>
Br           == [k |-> "br"]
FarJump(t)   == Mov("x16", Code(t)) \o <<Br>>
Jump(i, k, imm, bits) == [k |-> k, imm |-> Field(imm, bits), neg |-> Op(i).neg]
Inverted(w)  == [w EXCEPT !.neg = ~@]

(* Bits 23 to 5 of a test-bit branch: the number of the bit above a 14 bit  *)
(* immediate.                                                               *)
TestField(i) == Op(i).bit * 2^14 + Field(Op(i).imm, 14)
TestBit(i, field) == [k |-> "tbz", field |-> field, neg |-> Op(i).neg]

(* The distance to the new place of the target, in words.                   *)
WordDelta(i) == Position[Target(i)] - Position[i]

(* A branch that stays in the window. The test-bit form keeps what lies     *)
(* above bit 14 of the word and adds the distance in 18 bits.               *)
EmitNear(i) ==
  CASE Op(i).k \in {"b", "bl"}      -> << Jump(i, Op(i).k, WordDelta(i), 26) >>
    [] Op(i).k \in {"bcond", "cbz"} -> << Jump(i, Op(i).k, WordDelta(i), 19) >>
    [] Op(i).k = "tbz" ->
         << TestBit(i, ((TestField(i) \div 2^10) * 2^10) | Field(WordDelta(i), 18)) >>

(* Where a call out of the window returns to.                               *)
ReturnPlace(i) == IF i + 1 < Len(ops) THEN Tramp(Position[i + 1]) ELSE Code(Len(ops))

(* A branch that leaves it: a far jump, for conditional ones under the      *)
(* inverted condition, which skips it. The test-bit form keeps what lies    *)
(* above bit 15 of the word.                                                *)
EmitFar(i) ==
  CASE Op(i).k = "b"  -> FarJump(Target(i))
    [] Op(i).k = "bl" -> Mov("x16", Code(Target(i))) \o Mov("lr", ReturnPlace(i)) \o <<Br>>
    [] Op(i).k \in {"bcond", "cbz"} ->
         << Inverted(Jump(i, Op(i).k, 5, 19)) >> \o FarJump(Target(i))
    [] Op(i).k = "tbz" ->
         << Inverted(TestBit(i, ((TestField(i) \div 2^11) * 2^11) | 5)) >> \o FarJump(Target(i))

Emit(i) ==
  IF Op(i).k \notin Branches THEN << Plain(i) >>
  ELSE IF InWindow(Target(i)) THEN EmitNear(i) ELSE EmitFar(i)

(* The words up to instruction i, padded to its planned position, and the   *)
(* jump back behind them.                                                   *)
Nops(n) == [j \in 1 .. n |-> [k |-> "nop"]]
Buffer[i \in Nat] ==
  IF i = 0 THEN << >>
  ELSE LET buf == Buffer[i - 1]
       IN buf \o Nops(Position[i - 1] - Len(buf)) \o Emit(i - 1)

Trampoline ==
  Buffer[Len(ops)] \o << [k |-> "literal_x16", to |-> Code(Len(ops))], Br >>

-----------------------------------------------------------------------------

Init ==
  /\ distance \in Distances /\ data \in Data
  /\ ops \in {w \in Windows : Len(w) = PatchWords(distance)}
  /\ pos = << >> /\ tramp = << >> /\ at = Idle /\ lr = Caller /\ x16 = Caller /\ last = -1

(* EntryPatchMemory::new; installed by the hook once it has succeeded. The  *)
(* next call runs into the patch.                                           *)
Refuse ==
  /\ at = Idle /\ \E i \in Indices : CannotMove(Op(i))
  /\ at' = Refused
  /\ UNCHANGED <<distance, ops, data, pos, tramp, lr, x16, last>>

Build ==
  /\ at = Idle /\ \A i \in Indices : ~CannotMove(Op(i))
  /\ pos' = [i \in 0 .. Len(ops) |-> Position[i]] /\ tramp' = Trampoline
  /\ at' = IF PatchTarget(distance) = distance THEN Replacement ELSE Lost
  /\ UNCHANGED <<distance, ops, data, lr, x16, last>>

CallOriginal ==
  /\ at = Replacement
  /\ at' = Tramp(0)
  /\ UNCHANGED <<distance, ops, data, pos, tramp, lr, x16, last>>

Inside == at.sp = "tramp" /\ at.n < Len(tramp)
Word   == tramp[at.n + 1]
Goto(n) == at' = Tramp(n)
same    == <<distance, ops, data, pos, tramp>>

(* The processor, one word of the trampoline at a time.                     *)
RunPlain ==
  /\ Inside /\ Word.k = "plain"
  /\ last' = Word.id /\ Goto(at.n + 1)
  /\ UNCHANGED <<same, lr, x16>>

(* A vector load from a literal, which plan_op lets pass, loads from        *)
(* somewhere in or behind the trampoline.                                   *)
RunVectorLiteral ==
  /\ Inside /\ Word.k = "vector_literal"
  /\ last' = Astray /\ Goto(at.n + 1)
  /\ UNCHANGED <<same, lr, x16>>

RunRet ==
  /\ Inside /\ Word.k = "ret"
  /\ at' = lr
  /\ UNCHANGED <<same, lr, x16, last>>

RunBranch ==
  /\ Inside /\ Word.k \in {"b", "bl"}
  /\ lr' = IF Word.k = "bl" THEN Tramp(at.n + 1) ELSE lr
  /\ Goto(at.n + Sext(Word.imm, 26))
  /\ UNCHANGED <<same, x16, last>>

Truth(w) == CASE w.k = "bcond" -> data.flags
              [] w.k = "cbz"   -> data.zero
              [] w.k = "tbz"   -> (w.field \div 2^14) \in data.bits

Distance(w) == IF w.k = "tbz" THEN Sext(w.field % 2^14, 14) ELSE Sext(w.imm, 19)

RunTest ==
  /\ Inside /\ Word.k \in {"bcond", "cbz", "tbz"}
  /\ Goto(at.n + (IF Truth(Word) # Word.neg THEN Distance(Word) ELSE 1))
  /\ UNCHANGED <<same, lr, x16, last>>

RunMov ==
  /\ Inside /\ Word.k \in {"movz", "movk", "moved", "nop", "literal_x16"}
  /\ x16' = IF Word.k = "literal_x16" \/ (Word.k = "moved" /\ Word.rd = "x16")
            THEN Word.to ELSE x16
  /\ lr' = IF Word.k = "moved" /\ Word.rd = "lr" THEN Word.to ELSE lr
  /\ Goto(at.n + 1)
  /\ UNCHANGED <<same, last>>

RunBr ==
  /\ Inside /\ Word.k = "br"
  /\ at' = x16
  /\ UNCHANGED <<same, lr, x16, last>>

(* Code outside the window returns where the link register points.          *)
Return ==
  /\ at.sp = "code" /\ ~InWindow(at.n)
  /\ at' = lr
  /\ UNCHANGED <<same, lr, x16, last>>

Next ==
  \/ Refuse \/ Build \/ CallOriginal
  \/ RunPlain \/ RunVectorLiteral \/ RunRet \/ RunBranch \/ RunTest \/ RunMov \/ RunBr
  \/ Return

Spec == Init /\ [][Next]_vars /\ WF_vars(Next)

-----------------------------------------------------------------------------
(* Properties.                                                              *)

(* Where the displaced code would be: a far sequence has left its place     *)
(* with the branch over it, or with the word that completes its call.       *)
At(n, i) == pos[i] <= n /\ n < pos[i + 1]
Decided(n, i) ==
  \/ Op(i).k \in {"bcond", "cbz", "tbz"} /\ n > pos[i]
  \/ Op(i).k = "bl" /\ n = pos[i] + 6
Displaced(p) ==
  CASE p.sp = "tramp" /\ p.n < pos[Len(ops)] ->
         LET i == CHOOSE j \in Indices : At(p.n, j)
         IN Code(IF Decided(p.n, i) THEN Target(i) ELSE i)
    [] p.sp = "tramp" -> IF p.n < Len(tramp) THEN Code(Len(ops)) ELSE Lost
    [] p.sp = "code"  -> IF InWindow(p.n) THEN Lost ELSE p
    [] OTHER          -> p

Original == INSTANCE DisplacedCode WITH
  at <- Displaced(at), lr <- Displaced(lr), Strays <- {"vector_literal"}

(* The trampoline implements the displaced code: a call reaches the         *)
(* replacement, and calling the original executes the same instructions,    *)
(* takes the same branches, leaves to the same places and is returned to at *)
(* the same points (entry_patch.rs, comment of Plan). A thread that is in,  *)
(* or returns into, the bytes the patch has overwritten is lost (404-405).  *)
(* Excepted are vector loads from a literal, which the plan copies as they  *)
(* are although "literal loads still fail closed" (246): they are executed  *)
(* in their turn, but load from elsewhere. Windows that violate the claim   *)
(* below are not in the instance it is checked on.                          *)
ImplementsDisplaced == Original!Spec

-----------------------------------------------------------------------------
(* A claim of comments in the code that the code does not keep.             *)

(* "rewrite imm14 + Rt" and keep b40 (entry_patch.rs:458-459), "clear the   *)
(* old imm14 field before inserting the skip distance" (464): a relocated   *)
(* test-bit branch tests the bit of the original and goes as far as it      *)
(* should.                                                                  *)
TestBitRelocated ==
  tramp # << >> =>
    \A i \in Indices : Op(i).k = "tbz" =>
      LET w == tramp[pos[i] + 1]
      IN /\ w.field \div 2^14 = Op(i).bit
         /\ Distance(w) = IF InWindow(Target(i)) THEN pos[Target(i)] - pos[i] ELSE 5
=============================================================================
