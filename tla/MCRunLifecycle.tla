-------------------------- MODULE MCRunLifecycle ---------------------------
(* Four agents on two slots, so that two may wait, one question, a budget     *)
(* that two agents can exhaust; or one agent and two questions.               *)
EXTENDS RunLifecycle
=============================================================================
