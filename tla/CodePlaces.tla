------------------------------- MODULE CodePlaces -------------------------------
(* Where a thread may be while a hooked function is called: at a word of the *)
(* function's code, counted from its entry, at a word of the trampoline, or  *)
(* at one of the stations of the call.                                       *)
EXTENDS Integers

Place(space, word) == [sp |-> space, n |-> word]
Code(word)  == Place("code", word)
Tramp(word) == Place("tramp", word)
Idle        == Place("idle", 0)
Refused     == Place("refused", 0)
Replacement == Place("replacement", 0)
Caller      == Place("caller", 0)
Lost        == Place("lost", 0)

(* In place of the number of an instruction executed: one that computed an   *)
(* address from where it stands, and stood elsewhere.                        *)
Astray == -2
=============================================================================
