----------------------------- MODULE MCDurableCalls -----------------------------
(* Two fan-outs of two items.  The first has two agents that are asked alike, beside a    *)
(* step; the second asks an agent alike once more, and a step about its answer.           *)
EXTENDS DurableCalls

MCItems == {1, 2}
Alike(kind) == [kind |-> kind, chained |-> FALSE]
About(kind) == [kind |-> kind, chained |-> TRUE]
MCProgram ==
  [t \in Tasks |->
     CASE t = <<1, 1>> -> <<Alike("agent"), Alike("agent")>>
       [] t = <<1, 2>> -> <<Alike("step")>>
       [] t = <<2, 1>> -> <<Alike("agent"), About("step")>>
       [] t = <<2, 2>> -> <<>>]
=============================================================================
