----------------------------- MODULE MCWorkflow -----------------------------
(* Small instances of Workflow. *)
EXTENDS Workflow, TLC

CONSTANTS r1, r2, c1, c2, p1, p2

\* The task document declares either criterion, or both.
MCTaskLists == << <<c1>>, <<c1, c2>>, <<c2>> >>

\* Runs and processes are interchangeable.
Symmetry == Permutations(Runs) \cup Permutations(Procs)
=============================================================================
