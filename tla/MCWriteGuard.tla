---------------------------- MODULE MCWriteGuard ----------------------------
(* Two features, one of them named by two texts.                             *)
EXTENDS WriteGuard, TLC

MCIdentity == [ship |-> "f1", shipAgain |-> "f1", other |-> "f2", dots |-> "unnameable"]
Glob(paths) == [negated |-> FALSE, matches |-> paths]
Except(paths) == [negated |-> TRUE, matches |-> paths]

Opened == [allow |-> <<Glob({"src"})>>, deny |-> <<>>]
Closed == [allow |-> <<>>, deny |-> <<Glob({"src", "brain"}), Except({"brain"})>>]
MCScopes == {Opened, Closed}
MCReviewed == [f1 |-> Closed, f2 |-> Opened]
MCWriteBlocks == {<<>>, <<Glob({"brain", "src"}), Except({"src"})>>}
MCRequests == {<<>>,
               <<[kind |-> "create", path |-> "env"]>>,
               <<[kind |-> "create", path |-> "brain"]>>,
               <<[kind |-> "move", source |-> "brain", path |-> "src"]>>}
\* Objectives that race, and objectives that are interrupted; the guard beside two commands, beside
\* one and an edit, and beside one that is interrupted.
MCBudgets == {[commands |-> 3, requests |-> 0, edits |-> 0, crashes |-> 0],
              [commands |-> 2, requests |-> 0, edits |-> 0, crashes |-> 2],
              [commands |-> 2, requests |-> 1, edits |-> 0, crashes |-> 0],
              [commands |-> 1, requests |-> 1, edits |-> 1, crashes |-> 0],
              [commands |-> 1, requests |-> 1, edits |-> 0, crashes |-> 1]}
Symmetry == Permutations(Procs)
=============================================================================
