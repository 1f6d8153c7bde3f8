----------------------------- MODULE MCAgentJob -----------------------------
(* The kinds of adapter in src/adapters: mock is direct; claude and amp keep *)
(* stdin open; codex, droid, opencode, cursor and grok get one prompt; pi is *)
(* given its session id up front.                                            *)
EXTENDS AgentJob

MCProfiles == {
    [direct |-> TRUE,  keepOpen |-> FALSE, selfSession |-> FALSE],
    [direct |-> FALSE, keepOpen |-> TRUE,  selfSession |-> FALSE],
    [direct |-> FALSE, keepOpen |-> FALSE, selfSession |-> FALSE],
    [direct |-> FALSE, keepOpen |-> FALSE, selfSession |-> TRUE]}
=============================================================================
