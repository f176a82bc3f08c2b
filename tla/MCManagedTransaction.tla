------------------------ MODULE MCManagedTransaction ------------------------
(***************************************************************************)
(* Instances of ManagedTransaction for TLC: one directory D with a file F  *)
(* below it, and a file G beside it.                                       *)
(***************************************************************************)
EXTENDS ManagedTransaction

CONSTANTS D, F, G, c1, c2

MCAbove == [p \in {D, F, G} |-> IF p = F THEN <<D>> ELSE <<>>]

MCDest == [p \in {D, F, G} |-> IF p = G THEN c2 ELSE Missing]

Wants(p, r) == [path |-> p, result |-> r]

Given(p, e) == [path |-> p, expected |-> e]

\* Creates D, F and rewrites G: three operations of two kinds.
Build == [effects |-> <<Wants(F, c1), Wants(G, c1)>>, requires |-> {}, guards |-> {}]

\* Deletes F and rewrites G.
Prune == [effects |-> <<Wants(F, Missing), Wants(G, c2)>>, requires |-> {}, guards |-> {}]

\* Creates D as long as G stays what the caller read.
Guarded == [effects |-> <<Wants(D, Directory), Wants(F, c2)>>, requires |-> {Given(F, Missing)},
            guards |-> {Given(G, c2)}]

\* Rewrites G as its caller read it.
Rewrite == [effects |-> <<Wants(G, c1)>>, requires |-> {Given(G, c2)}, guards |-> {}]

BuildAndPrune == {Build, Prune}

GuardedAndRewrite == {Guarded, Rewrite}

Symmetry == Permutations(TxId) \cup Permutations(Worker)

=============================================================================
