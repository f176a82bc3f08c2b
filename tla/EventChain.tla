----------------------------- MODULE EventChain -----------------------------
(***************************************************************************)
(* The pure half of the event store: what a line of events.jsonl may say,  *)
(* how an event is sealed on its predecessor, how a stream is verified and *)
(* replayed, and what the audit and the repair of a snapshot decide        *)
(* (packages/runtime/src/domain/events and domain/observability).          *)
(*                                                                         *)
(* A digest is the value digested.  The event type and effect go with the  *)
(* reason, as every policy of semantics.ts fixes all three; a reducer is   *)
(* abstracted to remembering what it was given (Workflow has the real      *)
(* one).                                                                   *)
(***************************************************************************)
EXTENDS Naturals, Sequences

CONSTANTS
    Missing,      \* no file
    Garbled,      \* a line or a document that does not parse
    Reducers,     \* the policy versions a reducer is registered for
    MaxCount      \* EVENT_STREAM_COUNT

ASSUME ChainAssumption == MaxCount \in Nat \ {0}

-----------------------------------------------------------------------------
(* What an event may say.                                                  *)

Carried == {"assignment", "runLimits", "acceptance", "resolution", "restart", "gateFailures"}

WorkflowContract == {"1.2.0", "1.3.0", "1.4.0"}

CurrentContract == {"1.3.0", "1.4.0"}

\* LOCK_EVENT_FACTS, of the four lifecycle actions.
LockFacts == {"trail.ok"}

Fact(reason, carries) == [reason |-> reason, carries |-> carries]

\* policiesByOperation, with the assignment each fact requires or forbids.
WorkflowFacts(op) ==
    CASE op = "start"    -> {Fact("run.started", {}), Fact("run.resumed", {}), Fact("run.policy_upgraded", {})}
      [] op = "continue" -> {Fact("run.resumed", {}), Fact("run.transition.accepted", {"assignment"}),
                             Fact("run.transition.rejected", {}), Fact("run.completed", {"assignment"})}
      [] op = "agent.record" -> {Fact("run.agent.recorded", {"assignment"})}
      [] op = "gaps.record"  -> {Fact("run.gap.recorded", {})}
      [] op = "gaps.resolve" -> {Fact("run.gap.resolved", {})}
      [] op = "gaps.waive"   -> {Fact("run.gap.waived", {})}
      [] op = "gates.record" -> {Fact("run.gates.recorded", {})}
      [] OTHER -> {}

WorkflowOperation ==
    {"start", "continue", "agent.record", "gaps.record", "gaps.resolve", "gaps.waive", "gates.record"}

reservedReasons ==
    LockFacts \cup {"trail.accepted"}
        \cup UNION {{f.reason : f \in WorkflowFacts(op)} : op \in WorkflowOperation}

\* The runs' limits are stated where a run begins under workflow-v2.
LimitBoundary(b) ==
    /\ b.contract \in WorkflowContract /\ b.policy = "workflow-v2"
    /\ \/ b.reason = "run.started"
       \/ b.contract = "1.4.0" /\ b.reason = "run.policy_upgraded"

PlainOperation(b) == b.carries = {} /\ b.reason \notin reservedReasons

LockOperation(b) == b.carries = {} /\ b.reason \in LockFacts

AcceptanceOperation(b) ==
    /\ b.contract \in WorkflowContract /\ b.policy = "workflow-v2"
    /\ b.carries = {"acceptance"}
    /\ b.reason \in {"run.acceptance.passed", "run.acceptance.repair_required",
                     "run.stop_loss.repeated_rejection"}

ResolutionOperation(b) ==
    /\ b.contract \in CurrentContract /\ b.policy = "workflow-v2"
    /\ b.carries = {"resolution"} /\ b.reason = "run.repair_stop.resolved"

RestartOperation(b) ==
    /\ b.contract \in CurrentContract /\ b.policy = "workflow-v2"
    /\ b.carries = {"runLimits", "restart"} /\ b.reason = "run.started_from_spec"

SddOperation(b) ==
    /\ ("runLimits" \in b.carries) = LimitBoundary(b)
    /\ b.reason = "run.policy_upgraded" => b.contract = "1.4.0"
    /\ Fact(b.reason, b.carries \ {"runLimits", "gateFailures"}) \in WorkflowFacts(b.op)

assertEventSemanticPolicy(b) ==
    \/ b.contract = "1.0.0"
    \/ /\ "gateFailures" \in b.carries => b.op = "continue"
       /\ CASE b.op = "lock"              -> LockOperation(b)
            [] b.op = "acceptance.record" -> AcceptanceOperation(b)
            [] b.op = "repair.resolve"    -> ResolutionOperation(b)
            [] b.op = "repair.restart"    -> RestartOperation(b)
            [] b.op \in WorkflowOperation -> SddOperation(b)
            [] OTHER                      -> PlainOperation(b)

\* snapshotEventDraft and the contracts a new event may be written under.
snapshotRequest(b) == assertEventSemanticPolicy(b) /\ b.contract \in WorkflowContract

-----------------------------------------------------------------------------
(* The chain.                                                              *)

\* Before the first event there is no hash.
Genesis == [revision |-> 0, hash |-> <<>>]

Cursor(s) ==
    IF s = <<>> THEN Genesis ELSE [revision |-> s[Len(s)].result, hash |-> s[Len(s)].hash]

\* canonicalizeJson(unsignedEvent(event)), digested.  As the event holds the hash
\* before it, the value digested is the list of all that was digested so far.
Digest(e) == Append(e.prev, <<e.prior, e.result, e.body>>)

Sealable(draft, cursor) == draft.prior = cursor.revision

sealEvent(draft, cursor) ==
    LET unsigned == [prior |-> draft.prior, result |-> draft.prior + 1,
                     prev |-> cursor.hash, body |-> draft.body]
    IN  [prior |-> unsigned.prior, result |-> unsigned.result, prev |-> unsigned.prev,
         body |-> unsigned.body, hash |-> Digest(unsigned)]

\* Mutant: the number of events is not bounded.
parseEventLinesUnbounded(s) ==
    \A i \in 1 .. Len(s) : s[i] # Garbled /\ assertEventSemanticPolicy(s[i].body)

parseEventLines(s) ==
    /\ Len(s) <= MaxCount
    /\ \A i \in 1 .. Len(s) : s[i] # Garbled /\ assertEventSemanticPolicy(s[i].body)

\* Mutant: an event is not compared with the digest it carries.
Follows(e, cursor) ==
    /\ e.prior = cursor.revision
    /\ e.result = cursor.revision + 1
    /\ e.prev = cursor.hash

\* The checks of one event against the cursor before it.
FollowsExactly(e, cursor) ==
    /\ e.prior = cursor.revision
    /\ e.result = cursor.revision + 1
    /\ e.prev = cursor.hash
    /\ e.hash = Digest(e)

verifyEventStream(s) ==
    /\ parseEventLines(s)
    /\ \A i \in 1 .. Len(s) : FollowsExactly(s[i], Cursor(SubSeq(s, 1, i - 1)))

\* An empty stream, or one of a policy nobody registered, has no replay.
Replayable(s) ==
    s # <<>> /\ \A i \in 1 .. Len(s) : s[i].body.policy \in Reducers

\* replayEventStream: the reducers and the materialiser, bound to the last event.
replayEventStream(s, lineage) ==
    [cursor |-> Cursor(s), policy |-> s[Len(s)].body.policy, lineage |-> lineage,
     state |-> [i \in 1 .. Len(s) |-> s[i].body.reason]]

\* verifyEventStream and replayEventStream raise no error.
Readable(s) == verifyEventStream(s) /\ Replayable(s)

-----------------------------------------------------------------------------
(* Audit and repair of the snapshot.                                       *)

auditSnapshot(persisted, replayed) ==
    IF persisted = replayed THEN "consistent" ELSE "divergent"

\* The one write of a repair, or none: the digest of the plan is the plan.
planSnapshotRepair(persisted, replayed) ==
    IF auditSnapshot(persisted, replayed) = "consistent" THEN {}
    ELSE {[content |-> replayed, expectedDigest |-> persisted]}
=============================================================================
