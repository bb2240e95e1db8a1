--------------------------- MODULE MCMissionDriver ---------------------------
(* Small instances of MissionDriver for TLC. *)
EXTENDS MissionDriver, TLC

CONSTANTS l1, l2, l3, c1, c2, r1

Interchangeable == Permutations(Loops) \cup Permutations(Clients)
=============================================================================
