----------------------------- MODULE MCHostHooks -----------------------------
(* Small instances of HostHooks. *)
EXTENDS HostHooks, TLC

CONSTANTS s1, s2, p1, p2

\* A phase in which gaps are detected, and the two a repair goes between.
MCPhases == <<"spec", "code", "acceptance">>

\* A sample or an end with the count, a tool failure without one.
MCEmissions == [kind : {"session.sample", "session.end"}, counted : {TRUE}]
                 \cup [kind : {"tool.failed"}, counted : {FALSE}]

Symmetry == Permutations(Sessions) \cup Permutations(Procs)
=============================================================================
