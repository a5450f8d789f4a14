----------------------------- MODULE MCStateFile -----------------------------
(* Instances of StateFile for TLC.                                         *)
EXTENDS StateFile, TLC

CONSTANTS cli, dashboard, r1, r2, v1, v2

Interchangeable == Permutations(Readers) \cup Permutations(Values)
=============================================================================
