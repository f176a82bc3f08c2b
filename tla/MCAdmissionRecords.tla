------------------------- MODULE MCAdmissionRecords -------------------------
(***************************************************************************)
(* Instances of AdmissionRecords for TLC.                                  *)
(***************************************************************************)
EXTENDS AdmissionRecords, TLC

CONSTANTS p1, p2, r1, r2

\* The clock of p2 runs ahead by the whole skew.
MCOffset == [p \in Proc |-> IF p = p2 THEN Skew ELSE 0]

\* One works on a run; the other on a run of its own, then on the project.
MCWorks == (p1 :> <<r1>>) @@ (p2 :> <<r2, Project>>)

=============================================================================
