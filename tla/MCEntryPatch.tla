----------------------------- MODULE MCEntryPatch -----------------------------
(* Windows of one instruction, and windows of four of which at most two      *)
(* differ from a plain one.                                                  *)
EXTENDS EntryPatch

CONSTANTS
  Jumps,         (* distances of branches, in words                         *)
  TestJumps      (* distances of test-bit branches                          *)

Branch(kind, imm, neg) == [k |-> kind, imm |-> imm, neg |-> neg, bit |-> 1]
Simple(kind) == Branch(kind, 0, FALSE)

(* Test-bit branches whose distance the masks spoil are not among them, but  *)
(* in the windows of the run about them (MCAllTestJumps).                    *)
Instructions ==
  {Simple(kind) : kind \in {"plain", "ret", "adr", "literal", "vector_literal", "pre_index"}}
    \cup {Branch(kind, imm, FALSE) : kind \in {"b", "bl", "bcond"}, imm \in Jumps}
    \cup {Branch("cbz", imm, TRUE) : imm \in Jumps}
    \cup {Branch("tbz", imm, neg) : imm \in TestJumps, neg \in BOOLEAN}

FourPlain == [i \in 1 .. 4 |-> Simple("plain")]

MCWindows ==
  { <<a>> : a \in Instructions }
    \cup { [FourPlain EXCEPT ![i] = a, ![j] = b] :
            i, j \in 1 .. 4, a, b \in Instructions }

(* Every two of the three tests meet every pair of outcomes.                 *)
MCData ==
  {d \in [flags : BOOLEAN, zero : BOOLEAN, bits : {{}, {1}}] :
     (d.flags # d.zero) <=> (1 \in d.bits)}

(* A near and a far replacement, and both ends of the reach of a branch.     *)
MCDistances == {4096, -134217728, 134217724, 134217728}

MCJumps     == {-9, -2, -1, 1, 2, 4}
MCTestJumps == {0, 1, 2, 600}

(* With the branches that the run on the immediate field is about.           *)
MCAllTestJumps == MCTestJumps \cup {-2, 3000}
MCFarOnly      == {134217728}
=============================================================================
