--------------------------- MODULE MCPermissions ---------------------------
(* A small instance of Permissions for TLC: a subject a grant covers and a     *)
(* destructive one.                                                           *)
EXTENDS Permissions, TLC

SameSubject == [c \in Calls |-> c]
Alike == Permutations(Askers)
=============================================================================
