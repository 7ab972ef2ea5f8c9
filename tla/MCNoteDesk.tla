----------------------------- MODULE MCNoteDesk -----------------------------
(* NoteDesk on small instances. *)
EXTENDS NoteDesk, TLC

CONSTANTS n1, n2

\* n1 is the older of the two.
Ids == n1 :> 1 @@ n2 :> 2
=============================================================================
