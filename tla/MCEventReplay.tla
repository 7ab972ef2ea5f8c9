---------------------------- MODULE MCEventReplay ----------------------------
(* EventReplay with the tools "read" (Concurrent) and "ask" (Pausing). *)
EXTENDS EventReplay

MCEither == {<<"read">>, <<"ask">>}
=============================================================================
