--------------------------- MODULE MCPluginLifecycle ---------------------------
(* Three plugins that share two resource types, for TLC. The second one has  *)
(* the most to insert and to restore.                                        *)
EXTENDS PluginLifecycle

CONSTANTS r1, r2

InsertsOf == <<1, 2, 1>>
EffectsOf == <<0, 2, 0>>
=============================================================================
