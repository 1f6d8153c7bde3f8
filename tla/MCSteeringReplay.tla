-------------------------- MODULE MCSteeringReplay --------------------------
(* One branch of a workflow: a loop that sends the same text twice through a  *)
(* handle, and another call site that sends it with sendTo().                 *)
EXTENDS SteeringReplay, TLC

CONSTANTS b1, c1, c2, x

loop == [sender |-> b1, callsite |-> c1]
arm  == [sender |-> b1, callsite |-> c2]

MCSites   == {loop, arm}
MCHandles == {loop}
MCProgram == (loop :> <<x, x>>) @@ (arm :> <<x>>)
=============================================================================
