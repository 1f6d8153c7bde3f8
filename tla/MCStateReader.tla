---------------------------- MODULE MCStateReader ----------------------------
(* The reader of a run's directory, among engines that take the run in turn. *)
EXTENDS StateReader

\* What the engine promises when it clears the last attempt's result before it starts
\* (src/engine.js:863): a supervisor sees the resumed run as live, "not the previous
\* attempt's outcome".  An outcome told was so at some moment of the look.
OutcomeIsTrue == Told /\ reader.told[1] = "outcome" => reader.told \in held.truths
=============================================================================
