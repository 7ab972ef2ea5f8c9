------------------------------ MODULE MCAgentRun ------------------------------
(* AgentRun with the tools "read" (Concurrent), "write" (serial) and "ask". *)
EXTENDS AgentRun

\* A parallel group, a parallel group before a serial call, a pausing call.
MCBatches  == {<<"read", "read">>, <<"read", "read", "write">>, <<"write", "ask">>}
=============================================================================
