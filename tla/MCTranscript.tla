---------------------------- MODULE MCTranscript ----------------------------
(* Transcript on small instances. *)
EXTENDS Transcript
=============================================================================
