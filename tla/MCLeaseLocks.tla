---------------------------- MODULE MCLeaseLocks ----------------------------
(***************************************************************************)
(* Instances of LeaseLocks for TLC.                                        *)
(***************************************************************************)
EXTENDS LeaseLocks

CONSTANTS s1, s2, s3, r1, r2

MCLeaseId == Session \X (1 .. MaxCall)

\* The clock of s2 runs ahead by the whole skew.
MCOffset == [s \in Session |-> IF s = s2 THEN Skew ELSE 0]

\* Everybody works on everything.
Everything == [s \in Session |-> Resource]

\* One works on everything, the other on the project.
Overlapping == (s1 :> Resource) @@ (s2 :> {Project})

\* A run each; one session works on the project as well.
OwnRuns == (s1 :> {r1}) @@ (s2 :> {r2, Project})

=============================================================================
