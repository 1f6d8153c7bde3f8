---------------------------- MODULE MCRunHandoff ----------------------------
(* A run two processes may resume, one may delete and one may read. *)
EXTENDS RunHandoff
=============================================================================
