--------------------------- MODULE MCTranslationDump ---------------------------
(* Two keys and two texts for TLC. The hooks see one key, whose text         *)
(* changes; the game's own table has the other.                              *)
EXTENDS TranslationDump

CONSTANTS c1, t1, t2, scenariodump, lyricsdump

ContentOf == <<[key |-> 1, text |-> t1], [key |-> 1, text |-> t2]>>
DicOf     == 1 :> None @@ 2 :> t2

(* Both bulk dumps; the list of scenariodump grows at either end while it    *)
(* is gone through.                                                          *)
ProbesOf  == scenariodump :> {1, 2} @@ lyricsdump :> {1}
=============================================================================
