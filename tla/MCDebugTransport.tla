--------------------------- MODULE MCDebugTransport ----------------------------
(* A client that uses one id for all its frames, which is the hardest case   *)
(* for the ids: frames with different ids only share the queues.             *)
EXTENDS DebugTransport

CONSTANT a
=============================================================================
