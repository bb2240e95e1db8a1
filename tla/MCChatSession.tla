---------------------------- MODULE MCChatSession ----------------------------
(* Small instances of ChatSession for TLC. *)
EXTENDS ChatSession

CONSTANTS c1, c2
=============================================================================
