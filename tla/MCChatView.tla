----------------------------- MODULE MCChatView -----------------------------
(* ChatView on small instances. *)
EXTENDS ChatView
=============================================================================
