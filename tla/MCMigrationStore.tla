-------------------------- MODULE MCMigrationStore --------------------------
(* Bounds for TLC: capacity 2 with 3 keys, so that both maps fill up, with  *)
(* four openings and a clock that passes the retention window.              *)
EXTENDS MigrationStore, TLC
CONSTANTS k1, k2, k3

MCKeys == {k1, k2, k3}
KeySymmetry == Permutations(MCKeys)
=============================================================================
