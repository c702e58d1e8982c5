----------------------------- MODULE DisplacedCode -----------------------------
(***************************************************************************)
(* What a hook at a function's entry promises: a call reaches the          *)
(* replacement, and calling the original from there executes the first     *)
(* instructions of the function as if nobody had moved them                *)
(* (crates/core/src/entry_patch.rs, module comment and the comment of      *)
(* Plan). Addresses are words relative to the entry; the window is the     *)
(* instructions the patch displaces.                                       *)
(***************************************************************************)
EXTENDS CodePlaces, Sequences

CONSTANT
  Strays         (* kinds of instructions excepted from the promise: they  *)
                 (* compute an address from where they stand, and are      *)
                 (* displaced as if they did not                           *)

VARIABLES
  ops,           (* the displaced instructions                             *)
  data,          (* the flags, the register and its bits that tests read   *)
  at,            (* where the thread is                                    *)
  lr,            (* its link register                                      *)
  last           (* what was executed last, branches apart                 *)

vars == <<ops, data, at, lr, last>>

(* Instructions that compute an address from where they stand.              *)
DataRelative == {"adr", "literal", "vector_literal"}

Inside(word) == 0 <= word /\ word < Len(ops)

(* Whether a conditional branch is taken.                                   *)
Truth(op) == CASE op.k = "bcond" -> data.flags
               [] op.k = "cbz"   -> data.zero
               [] op.k = "tbz"   -> op.bit \in data.bits
Taken(op) == Truth(op) # op.neg

-----------------------------------------------------------------------------

Init ==
  /\ at = Idle /\ lr = Caller /\ last = -1

(* A hook may be refused whatever the window holds, but not installed over  *)
(* an instruction that cannot be moved, unless it is one of Strays.         *)
Refuse ==
  /\ at = Idle
  /\ at' = Refused
  /\ UNCHANGED <<ops, data, lr, last>>

Enter ==
  /\ at = Idle
  /\ \A i \in 1 .. Len(ops) : ops[i].k \in DataRelative => ops[i].k \in Strays
  /\ at' = Replacement
  /\ UNCHANGED <<ops, data, lr, last>>

CallOriginal ==
  /\ at = Replacement
  /\ at' = Code(0)
  /\ UNCHANGED <<ops, data, lr, last>>

(* One instruction of the window.                                           *)
Execute ==
  /\ at.sp = "code" /\ Inside(at.n)
  /\ LET op == ops[at.n + 1] IN
       /\ at' = CASE op.k \in {"b", "bl"} -> Code(at.n + op.imm)
                  [] op.k \in {"bcond", "cbz", "tbz"} ->
                       Code(at.n + (IF Taken(op) THEN op.imm ELSE 1))
                  [] op.k = "ret" -> lr
                  [] OTHER -> Code(at.n + 1)
       /\ lr' = IF op.k = "bl" THEN Code(at.n + 1) ELSE lr
       /\ last' = CASE op.k = "plain"  -> at.n
                    [] op.k \in Strays -> Astray
                    [] OTHER           -> last
  /\ UNCHANGED <<ops, data>>

(* Code outside the window returns where the link register points.          *)
Return ==
  /\ at.sp = "code" /\ ~Inside(at.n)
  /\ at' = lr
  /\ UNCHANGED <<ops, data, lr, last>>

Next == Refuse \/ Enter \/ CallOriginal \/ Execute \/ Return

Spec == Init /\ [][Next]_vars /\ WF_vars(Next)
=============================================================================
