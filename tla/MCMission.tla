------------------------------ MODULE MCMission ------------------------------
(* Small instances of Mission for TLC. *)
EXTENDS Mission

CONSTANTS r1, r2, f1, f2

MCLocated == {f1}
MCUndeclared == {3}
=============================================================================
