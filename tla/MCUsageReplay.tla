--------------------------- MODULE MCUsageReplay ----------------------------
(* Three engines of a run whose agent opens up to three threads. *)
EXTENDS UsageReplay, TLC

SymmetricThreads == Permutations(Threads)
=============================================================================
