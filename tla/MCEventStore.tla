---------------------------- MODULE MCEventStore ----------------------------
(* Two appenders, one of which appends twice, a repair, and the drafts they use. *)
EXTENDS EventStore, TLC

CONSTANTS p1, p2, p3

MCWorks == p1 :> <<"append", "append">> @@ p2 :> <<"append">> @@ p3 :> <<"repair">>

Body(contract, op, reason, carries) ==
    [contract |-> contract, policy |-> "workflow-v2", op |-> op, reason |-> reason, carries |-> carries]

Start == Body("1.4.0", "start", "run.started", {"runLimits"})

\* One process completes phases, the other has one rejected or hands in a draft of
\* a contract that is only read.
MCAsks ==
    p1 :> {Start, Body("1.4.0", "continue", "run.transition.accepted", {"assignment"})}
    @@ p2 :> {Body("1.4.0", "continue", "run.transition.rejected", {"gateFailures"}),
              Body("1.1.0", "note", "note.kept", {})}
    @@ p3 :> {}
=============================================================================
