---------------------------- MODULE AtomicCommit ----------------------------
(***************************************************************************)
(* What managed transactions promise their callers: a manifest takes       *)
(* effect as a whole, on exactly the destinations its caller observed, or  *)
(* not at all, and its fate is sealed once.                                *)
(***************************************************************************)
EXTENDS TransactionModel

CONSTANTS TxId, InitialDest

VARIABLES
    store,   \* the destinations as they stand once recovery had its way
    fate,    \* fate[t]: "open", "committed" or "aborted"
    ops      \* ops[t]: the manifest of t, empty until it is submitted

Init ==
    /\ store = InitialDest
    /\ fate = [t \in TxId |-> "open"]
    /\ ops = [t \in TxId |-> <<>>]

Propose(t) ==
    /\ ops[t] = <<>>
    /\ \E o \in {ops'[t]} : ValidPlan(o) /\ ops' = [ops EXCEPT ![t] = o]
    /\ UNCHANGED <<store, fate>>

\* Every destination stands where the caller saw it, and all of them change.
Commit(t) ==
    /\ fate[t] = "open" /\ ops[t] # <<>>
    /\ ExpectedObserved(ops[t], store) = 1 .. Len(ops[t])
    /\ store' = [p \in Path |->
                   LET here == {i \in 1 .. Len(ops[t]) : ops[t][i].path = p}
                   IN  IF here = {} THEN store[p] ELSE ops[t][CHOOSE i \in here : TRUE].result]
    /\ fate' = [fate EXCEPT ![t] = "committed"]
    /\ UNCHANGED ops

Abort(t) ==
    /\ fate[t] = "open" /\ ops[t] # <<>>
    /\ fate' = [fate EXCEPT ![t] = "aborted"]
    /\ UNCHANGED <<store, ops>>

Next == \E t \in TxId : Propose(t) \/ Commit(t) \/ Abort(t)

Spec == Init /\ [][Next]_<<store, fate, ops>>

=============================================================================
