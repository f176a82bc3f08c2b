----------------------------- MODULE MCMigration -----------------------------
(* The memory and migration model with small constants for TLC.              *)
EXTENDS Migration

Symmetry == Permutations(Procs) \cup Permutations(Candidates)
==============================================================================
