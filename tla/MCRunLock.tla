------------------------------ MODULE MCRunLock ------------------------------
(* Engines contend for a run whose engine crashed. *)
EXTENDS RunLock, TLC

Contenders == Permutations(Procs)
=============================================================================
