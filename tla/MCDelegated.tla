----------------------------- MODULE MCDelegated -----------------------------
(* A small instance of Delegated for TLC. *)
EXTENDS Delegated
=============================================================================
