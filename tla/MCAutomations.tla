--------------------------- MODULE MCAutomations ---------------------------
(* A small instance of Automations for TLC: a manual and two triggered events. *)
EXTENDS Automations
=============================================================================
