-------------------------- MODULE MCAgentSessions --------------------------
(* Two root sessions compete for one slot; one of them may have a child. *)
EXTENDS AgentSessions

CONSTANTS c1, c2

Batches == {<<"write", "write">>, <<"spawn">>}
=============================================================================
