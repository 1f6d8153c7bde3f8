--------------------------- MODULE MCProcessTurn ---------------------------
(* A turn of each protocol that keeps stdin open, steered up to MaxSteer times. *)
EXTENDS ProcessTurn

AllProtocols == {"claude", "amp", "ampCoalescing"}
ClaudeOnly == {"claude"}
=============================================================================
