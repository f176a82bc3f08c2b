------------------------------- MODULE Workflow -------------------------------
(* A feature run and the commands that drive it.  Every command observes the *)
(* project (composition/workflow.ts), decides a plan from what it saw        *)
(* (domain/cli), and applies the plan as one managed transaction             *)
(* (composition/index.ts): the plan's event must still extend the stream it  *)
(* was decided on, the other files of the plan are written whatever they     *)
(* hold by then.  Several commands may be between the two steps at once, and *)
(* the user edits the documents meanwhile.                                   *)
(*                                                                           *)
(* The transaction itself is the subject of ManagedTransaction; here a       *)
(* commit is atomic.  events.jsonl is represented by the state it replays to *)
(* and its length, the revision.                                             *)
EXTENDS RunPolicy

CONSTANTS
    Procs,         \* commands that may be in flight together
    Ceilings,      \* acceptanceAttemptCeiling the project configuration may hold
    Enforced,      \* whether the gate modes enforce (strict) or only warn
    TaskLists,     \* declarations the user may write in 02-tasks.md
    MaxRevision,   \* bound: events of a run
    MaxVersion,    \* bound: versions of the PRD and of the design document
    MaxSpare       \* bound: edits and optional commands of a behaviour

ASSUME CeilingAssumption == Ceilings \subseteq Nat \ {0} /\ Enforced \in BOOLEAN
ASSUME BoundsAssumption == /\ MaxRevision \in Nat
                           /\ MaxVersion \in Nat \ {0}
                           /\ MaxSpare \in Nat
ASSUME TaskListsAssumption == TaskLists \in Seq(Seq(Criteria)) /\ TaskLists # <<>>

VARIABLES
    run,           \* run -> replayed state of its events.jsonl
    snapshot,      \* run -> what its state.json holds, against the replay
    activeRun,     \* the feature's active-run file
    docs,          \* versions of the PRD and of 01-design.md (0: unusable)
    tasks,         \* 02-tasks.md
    sealed,        \* run -> document versions its first event recorded
    approvals,     \* approval files of every run
    evidence,      \* run -> its evidence file, against the file it attests
    frozen,        \* run -> latest acceptance-criteria snapshot
    verdict,       \* run -> latest verdict of each criterion
    lineage,       \* run -> its lineage files
    measured,      \* run -> phase of its running measurement
    factsClear,    \* the gate facts on file hold nothing against the run
    cmd,           \* process -> the plan it has decided
    spare,         \* edits and optional commands left
    delivered      \* how often each correlated operation was recorded

vars == <<run, snapshot, activeRun, docs, tasks, sealed, approvals, evidence,
          frozen, verdict, lineage, measured, factsClear, cmd, spare, delivered>>

files == <<docs, tasks, sealed, approvals, evidence, frozen, verdict, lineage,
           measured, factsClear>>

Versions == [prd : 0..MaxVersion, spec : 0..MaxVersion]
Gates == {"spec", "final-acceptance"}
Approvals == [run : Runs, gate : Gates, docs : Versions, revision : Nat]
Digests == [of : PhaseSet, version : Nat]
Nodes == [at : Nat, digest : Digests, parents : SUBSET Digests]
NoVerdict == [c \in Criteria |-> "unreported"]

\* A plan: the event and what else its command writes.
NoPlan ==
    [kind |-> "idle", run |-> NoRun, at |-> 0, event |-> NoPayload, next |-> NoRun,
     freeze |-> <<>>, verdict |-> NoVerdict,
     tasks |-> [declared |-> <<>>, checked |-> {}], node |-> {},
     docs |-> [prd |-> 0, spec |-> 0], measured |-> "none", gate |-> "spec",
     facts |-> TRUE, ceiling |-> 0]

TypeOK ==
    /\ run \in [Runs -> RunStates]
    /\ snapshot \in [Runs -> {"missing", "consistent", "divergent", "unreadable"}]
    /\ activeRun \in Runs \cup {NoRun}
    /\ docs \in Versions
    /\ tasks.declared \in Seq(Criteria) /\ tasks.checked \subseteq Criteria
    /\ sealed \in [Runs -> Versions]
    /\ approvals \subseteq Approvals
    /\ evidence \in [Runs -> {"none", "valid", "changed"}]
    /\ frozen \in [Runs -> Seq(Criteria)]
    /\ verdict \in [Runs -> [Criteria -> Outcomes]]
    /\ \A r \in Runs : lineage[r] \subseteq Nodes
    /\ measured \in [Runs -> PhaseSet \cup {"none"}]
    /\ factsClear \in BOOLEAN
    /\ DOMAIN cmd = Procs
    /\ spare \in 0..MaxSpare
    /\ delivered \in [Runs -> [Operations -> Nat]]

-----------------------------------------------------------------------------
(* Observation *)

\* A run the first policy version left behind in code: its plan was accepted
\* before criteria were frozen.
LegacyRun ==
    [workflowSeed EXCEPT !.status = "active", !.step = "code", !.revision = 4,
                         !.policy = "v1"]

\* validSuccessorRun: the run a restart ticket names is there, was opened by
\* this run, retires what the ticket retires, and its snapshot replays.
validSuccessorRun(r, next) ==
    /\ next \in Runs
    /\ snapshot[next] = "consistent"
    /\ run[next].from = r
    /\ run[next].retired = {h.criterion : h \in run[r].history}

\* validRecoveryEvidence: every resolution answers the stop recorded for its
\* criterion.
validRecoveryEvidence(r) ==
    \A res \in run[r].resolutions :
        /\ \E h \in run[r].history : /\ h.criterion = res.criterion
                                     /\ h.class = res.class
                                     /\ h.at = res.at
        /\ res.class = "specification" => validSuccessorRun(r, res.next)

observeRun(r) ==
    [kind |-> CASE run[r].revision = 0 -> "absent"
                [] run[r].revision # 0 /\ snapshot[r] # "unreadable"
                     /\ validRecoveryEvidence(r) -> "present"
                [] OTHER -> "corrupt",
     state |-> run[r]]

\* A missing document is no parent and no root.
DocumentDigests(v) ==
    {[of |-> "prd", version |-> v.prd], [of |-> "spec", version |-> v.spec]}
        \ {[of |-> "prd", version |-> 0], [of |-> "spec", version |-> 0]}

LineageReadable(r) ==
    validateLineageDag(lineage[r], DocumentDigests(sealed[r]) \cup DocumentDigests(docs))

\* Mutant: a final approval outlives what it approved.
approvalRevisionIgnored(gate, revision) == 0

\* An approval binds the documents; the final one the revision it was given at.
approvalRevision(gate, revision) == IF gate = "final-acceptance" THEN revision ELSE 0

validApproval(r, gate) ==
    \E a \in approvals : /\ a.run = r /\ a.gate = gate /\ a.docs = docs
                         /\ a.revision = approvalRevision(gate, run[r].revision)

TasksDigest(declared) ==
    [of |-> "plan", version |-> CHOOSE i \in DOMAIN TaskLists : TaskLists[i] = declared]

\* The plan of a legacy run froze nothing; its baseline is rebuilt from the
\* document its lineage proves unchanged.
bootstrapSnapshot(r) ==
    IF /\ frozen[r] = <<>> /\ tasks.checked = {} /\ tasks.declared # <<>>
       /\ \E n \in lineage[r] : n.digest = TasksDigest(tasks.declared)
    THEN tasks.declared ELSE <<>>

Baseline(r) == IF frozen[r] # <<>> THEN frozen[r] ELSE bootstrapSnapshot(r)

\* What the commands read of the PRD, of the evidence and of the gate facts.
observePrd == docs.prd # 0
observeEvidence(r) == evidence[r] = "valid"
observeGateFacts == factsClear

\* Every declared criterion passed, is ticked, and its evidence still holds.
CriteriaComplete(r) ==
    \A c \in Declared(tasks) : /\ verdict[r][c] = "passed"
                               /\ c \in tasks.checked
                               /\ observeEvidence(r)

\* evaluateGates: nothing the policy enforces stands against the phase.
evaluateGates(r) ==
    LET phase == run[r].step
    IN  \/ ~Enforced
        \/ /\ LineageReadable(r)
           /\ observeGateFacts
           /\ run[r].stops = {}
           /\ observePrd
           /\ phase \in {"plan", "code", "review", "acceptance"} => validApproval(r, "spec")
           /\ phase = "acceptance" =>
                 CriteriaComplete(r) /\ validApproval(r, "final-acceptance")

-----------------------------------------------------------------------------
(* Commands: observe and decide.  A command that is refused, or that finds    *)
(* its operation already recorded, publishes that and changes nothing.        *)

Spend == spare > 0 /\ spare' = spare - 1
Free == UNCHANGED spare

\* What the bound charges for: a command off the straight path or beside one
\* in flight, and the first delivery of an operation that may be delivered
\* again.
Alone == \A p \in Procs : cmd[p].kind = "idle"

Redelivered(r, event) ==
    /\ event.key # Fresh
    /\ \/ <<event.kind, event.key>> \in run[r].operations
       \/ \E q \in Procs : /\ cmd[q].run = r
                            /\ cmd[q].event.kind = event.kind
                            /\ cmd[q].event.key = event.key

Pay(free, r, event) ==
    IF Redelivered(r, event) \/ (free /\ Alone /\ event.key = Fresh)
    THEN Free ELSE Spend

Decide(p, plan) ==
    /\ cmd[p].kind = "idle"
    /\ plan.event # NoPayload
    /\ plan.at < MaxRevision
    /\ cmd' = [cmd EXCEPT ![p] = plan]
    /\ UNCHANGED <<run, snapshot, activeRun, delivered>>
    /\ UNCHANGED files

\* What every plan that appends to run r remembers of its observation.
PlanFor(r, event) ==
    [NoPlan EXCEPT !.kind = "event", !.run = r, !.at = run[r].revision,
                   !.event = event, !.docs = docs, !.measured = measured[r]]

\* The run a command addresses: the active one, or the one start names.
SelectedRun(r) == IF activeRun = NoRun THEN TRUE ELSE r = activeRun

start(p, r, key) ==
    /\ SelectedRun(r)
    /\ \E ceiling \in Ceilings :
         LET event == decideStartWorkflow(observeRun(r), key, TRUE, ceiling)
         IN  Pay(event.reason # "resumed", r, event) /\ Decide(p, PlanFor(r, event))

continueResume(p, r, key) ==
    /\ SelectedRun(r)
    /\ LET event == decideContinueWorkflow(observeRun(r), key,
                        [action |-> "resume", passes |-> TRUE, artifact |-> TRUE,
                         evidence |-> TRUE, final |-> FALSE])
       IN  Pay(FALSE, r, event) /\ Decide(p, PlanFor(r, event))

continueReject(p, r, key) ==
    /\ SelectedRun(r)
    /\ LET event == decideContinueWorkflow(observeRun(r), key,
                        [action |-> "reject", passes |-> TRUE, artifact |-> TRUE,
                         evidence |-> TRUE, final |-> FALSE])
       IN  Pay(FALSE, r, event) /\ Decide(p, PlanFor(r, event))

\* completionMeasurementEffect: an accepted phase closes its own measurement.
MeasurementRunning(r) == measured[r] = run[r].step

\* The criteria a completion may not touch: code and review work against the
\* frozen ones; the plan freezes the document it is bound to, which names no
\* retired criterion and has no box ticked.
PlanFreezes(r) ==
    /\ tasks.declared # <<>>
    /\ tasks.checked = {}
    /\ Declared(tasks) \cap run[r].retired = {}

CriteriaAllow(r) ==
    CASE run[r].step = "plan" -> PlanFreezes(r)
      [] run[r].step \in {"code", "review"} ->
            /\ Baseline(r) # <<>>
            /\ compareCriteriaSnapshot(run[r].step, Baseline(r), tasks, verdict[r])
                 = "unchanged"
      [] OTHER -> TRUE

\* The bytes a completed phase may be bound to: the document of the phase, new
\* work, or work an earlier completion of the phase was bound to.
ArtifactsOf(r) ==
    CASE run[r].step = "prd"  -> {[of |-> "prd", version |-> docs.prd]}
      [] run[r].step = "spec" -> {[of |-> "spec", version |-> docs.spec]}
      [] run[r].step = "plan" -> {TasksDigest(tasks.declared)}
      [] OTHER -> {[of |-> run[r].step, version |-> run[r].revision]}
                    \cup {n.digest : n \in {m \in lineage[r] : m.digest.of = run[r].step}}

lineageParents(digest) == DocumentDigests(docs) \ {digest}

LineageNode(r, digest) ==
    {[at |-> run[r].revision, digest |-> digest, parents |-> lineageParents(digest)]}

\* workflowDecision: what an accepted or completed transition writes besides
\* its event.
Completion(r, event, digest, freeze) ==
    IF event.reason \in {"accepted", "completed"}
    THEN [PlanFor(r, event) EXCEPT !.node = LineageNode(r, digest), !.freeze = freeze]
    ELSE PlanFor(r, event)

continueComplete(p, r, key) ==
    /\ SelectedRun(r)
    /\ run[r].step # "none"
    /\ CriteriaAllow(r)
    /\ \E digest \in ArtifactsOf(r) :
         LET event == decideContinueWorkflow(observeRun(r), key,
                          [action |-> "complete", passes |-> evaluateGates(r),
                           artifact |-> digest.version # 0,
                           evidence |-> observeEvidence(r), final |-> FALSE])
         IN  /\ event.reason = "accepted" => MeasurementRunning(r)
             /\ Pay(event.reason = "accepted", r, event)
             /\ Decide(p, Completion(r, event, digest,
                              CASE run[r].step = "plan" -> tasks.declared
                                [] run[r].step \in {"code", "review"} -> Baseline(r)
                                [] OTHER -> <<>>))

\* decideDone: the last phase completes on a final approval of this revision,
\* with every criterion passed on evidence that still holds.
decideDone(r) ==
    /\ run[r].step = "acceptance"
    /\ tasks.declared # <<>>
    /\ CriteriaComplete(r)
    /\ evaluateGates(r)
    /\ validApproval(r, "final-acceptance")

done(p, r, key) ==
    /\ SelectedRun(r)
    /\ run[r].step # "none"
    /\ \E digest \in ArtifactsOf(r) :
         LET event == decideContinueWorkflow(observeRun(r), key,
                          [action |-> "complete", passes |-> decideDone(r),
                           artifact |-> TRUE, evidence |-> observeEvidence(r),
                           final |-> TRUE])
         IN  /\ event.reason = "completed" => MeasurementRunning(r)
             /\ Pay(event.reason = "completed", r, event)
             /\ Decide(p, Completion(r, event, digest, <<>>))

\* The criteria an agent's output is accepted against.
AgentCriteriaAllow(r) ==
    /\ run[r].step \in {"code", "review", "acceptance"} => Baseline(r) # <<>>
    /\ frozen[r] # <<>> =>
         compareCriteriaSnapshot(run[r].step, frozen[r], tasks, verdict[r]) # "refused"

\* agent record, for any phase but acceptance.
agentRecord(p, r, key) ==
    /\ SelectedRun(r)
    /\ run[r].step \in PhaseSet \ {"acceptance"}
    /\ AgentCriteriaAllow(r)
    /\ LET event == decideRecordFact(observeRun(r), key)
       IN  /\ Pay(FALSE, r, event)
           /\ Decide(p, [PlanFor(r, event) EXCEPT
                           !.freeze = IF run[r].step \in {"code", "review"}
                                      THEN Baseline(r) ELSE <<>>])

\* gaps record, gaps resolve, gaps waive, gates record: facts of the gates.
recordGateFact(p, r, key) ==
    /\ SelectedRun(r)
    /\ LET event == decideRecordFact(observeRun(r), key)
       IN  /\ Pay(FALSE, r, event)
           /\ Decide(p, [PlanFor(r, event) EXCEPT !.kind = "fact", !.facts = ~factsClear])

\* The verdicts an acceptance agent may report, with a fault for each
\* criterion that trips the ceiling.
Reports ==
    {rep \in [outcomes : [Criteria -> Outcomes], faults : [Criteria -> Faults]] :
        \A c \in Criteria : rep.faults[c] # "none" => rep.outcomes[c] = "failed"}

PassedBy(outcomes) == {c \in Criteria : outcomes[c] = "passed"}

\* What goes with the event of a verdict: the verdicts, the stops, the criteria
\* snapshot when it grew, the ticked task document and the agent output.
VerdictPlan(r, key, rep, change) ==
    [PlanFor(r, AcceptanceEvent(run[r], key, rep.outcomes, rep.faults)) EXCEPT
        !.kind = "verdict",
        !.verdict = rep.outcomes,
        !.freeze = IF change = "append" THEN tasks.declared ELSE Baseline(r),
        !.tasks = [declared |-> tasks.declared, checked |-> PassedBy(rep.outcomes)]]

recordAcceptance(p, r, key) ==
    LET w == observeRun(r)
        s == run[r]
        change == compareCriteriaSnapshot("acceptance", Baseline(r), tasks, verdict[r])
    IN  /\ SelectedRun(r)
        /\ w.kind = "present"
        /\ s.step = "acceptance" /\ s.policy = "v2"
        /\ ~hasOperation(w, "acceptance", key)
        /\ AgentCriteriaAllow(r)
        /\ change # "refused"
        /\ \E rep \in Reports :
             LET accepted == PassedBy(rep.outcomes) = Declared(tasks)
             IN  /\ decideAcceptanceVerdict(tasks, rep.outcomes, accepted, observeEvidence(r))
                 /\ accepted \/ \E c \in Criteria : rep.outcomes[c] \in {"passed", "failed"}
                 /\ decideRepairLoop(s, rep.outcomes, rep.faults) # "refused"
                 /\ Pay(/\ accepted => verdict[r] # rep.outcomes
                        /\ \A c \in Criteria : rep.outcomes[c] # "not-run",
                        r, Event("acceptance", "acceptance", key))
                 /\ Decide(p, VerdictPlan(r, key, rep, change))

\* repair resolve: a specification resolution also opens its successor.
repairResolve(p, r, criterion, next, key) ==
    LET event == decideResolveRepairStop(observeRun(r), key, criterion, next)
    IN  /\ Pay(TRUE, r, event)
        /\ \E ceiling \in IF next = NoRun THEN {0} ELSE Ceilings :
              Decide(p, [PlanFor(r, event) EXCEPT !.next = next, !.ceiling = ceiling])

\* approval record: no event; the approval names what the command observed.
recordApproval(p, r, gate) ==
    /\ SelectedRun(r)
    /\ observeRun(r).kind = "present"
    /\ ~validApproval(r, gate)
    /\ IF IF gate = "spec" THEN run[r].step = "plan"
          ELSE run[r].step = "acceptance" /\ CriteriaComplete(r)
       THEN Free ELSE Spend
    /\ cmd[p].kind = "idle"
    /\ cmd' = [cmd EXCEPT ![p] = [PlanFor(r, NoPayload) EXCEPT !.kind = "approval",
                                                             !.gate = gate]]
    /\ UNCHANGED <<run, snapshot, activeRun, delivered>>
    /\ UNCHANGED files

\* repair: rewrite a snapshot that diverges from the replay.
planSnapshotRepair(p, r) ==
    /\ SelectedRun(r)
    /\ observeRun(r).kind = "present"
    /\ snapshot[r] = "divergent"
    /\ Free
    /\ cmd[p].kind = "idle"
    /\ cmd' = [cmd EXCEPT ![p] = [PlanFor(r, NoPayload) EXCEPT !.kind = "repair"]]
    /\ UNCHANGED <<run, snapshot, activeRun, delivered>>
    /\ UNCHANGED files

-----------------------------------------------------------------------------
(* Commit *)

\* assertPreparedAppendIsFresh and prepareEventAppend: the stream and its
\* snapshot are the ones observed, agree with each other, and accept the event.
AppendIsFresh(r, at, event) ==
    /\ run[r].revision = at
    /\ snapshot[r] = IF at = 0 THEN "missing" ELSE "consistent"
    /\ Replays(run[r], event)

\* The successor's first event, in the same transaction.
SuccessorEvent(plan) ==
    StartFromSpec(plan.run, {h.criterion : h \in run[plan.run].history},
                  plan.event.key, plan.ceiling)

\* The preconditions the transaction checks: only files of the plan that carry
\* an expectation.
PreconditionsHold(plan) ==
    /\ AppendIsFresh(plan.run, plan.at, plan.event)
    /\ plan.next # NoRun => AppendIsFresh(plan.next, 0, SuccessorEvent(plan))
    /\ plan.node # {} => measured[plan.run] = plan.measured

Committed(plan) ==
    LET one == [run EXCEPT ![plan.run] = reduceWorkflow(@, plan.event)]
    IN  IF plan.next = NoRun THEN one
        ELSE [one EXCEPT ![plan.next] = reduceWorkflow(@, SuccessorEvent(plan))]

Counted(plan) ==
    [delivered EXCEPT ![plan.run] =
        [op \in Operations |-> IF op = <<plan.event.kind, plan.event.key>>
                               THEN @[op] + 1 ELSE @[op]]]

Done(p) == cmd' = [cmd EXCEPT ![p] = NoPlan]

commitEvent(p) ==
    LET plan == cmd[p]
        r == plan.run
    IN  /\ plan.kind \in {"event", "verdict", "fact"}
        /\ PreconditionsHold(plan)
        /\ run' = Committed(plan)
        /\ snapshot' = [x \in Runs |-> IF x \in {r, plan.next} THEN "consistent"
                                       ELSE snapshot[x]]
        /\ activeRun' = CASE plan.event.reason = "started" -> r
                          [] plan.next # NoRun             -> plan.next
                          [] OTHER                         -> activeRun
        /\ sealed' = [x \in Runs |-> IF x = plan.next \/ (x = r /\ plan.at = 0)
                                     THEN plan.docs ELSE sealed[x]]
        /\ frozen' = IF plan.freeze # <<>> THEN [frozen EXCEPT ![r] = plan.freeze]
                     ELSE frozen
        /\ lineage' = [lineage EXCEPT ![r] = @ \cup plan.node]
        /\ measured' = IF plan.node # {} THEN [measured EXCEPT ![r] = "none"] ELSE measured
        /\ IF plan.kind = "verdict"
           THEN verdict' = [verdict EXCEPT ![r] = plan.verdict] /\ tasks' = plan.tasks
           ELSE UNCHANGED <<verdict, tasks>>
        /\ factsClear' = IF plan.kind = "fact" THEN plan.facts ELSE factsClear
        /\ delivered' = Counted(plan)
        /\ Done(p)
        /\ UNCHANGED <<docs, approvals, evidence, spare>>

commitApproval(p) ==
    LET plan == cmd[p]
    IN  /\ plan.kind = "approval"
        /\ approvals' = approvals \cup
              {[run |-> plan.run, gate |-> plan.gate, docs |-> plan.docs,
                revision |-> approvalRevision(plan.gate, plan.at)]}
        /\ Done(p)
        /\ UNCHANGED <<run, snapshot, activeRun, docs, tasks, sealed, evidence, frozen,
                       verdict, lineage, measured, factsClear, spare, delivered>>

\* A repair holds only for the preview it showed.
PreviewHolds(plan) ==
    run[plan.run].revision = plan.at /\ snapshot[plan.run] = "divergent"

commitRepair(p) ==
    LET plan == cmd[p]
    IN  /\ plan.kind = "repair"
        /\ PreviewHolds(plan)
        /\ snapshot' = [snapshot EXCEPT ![plan.run] = "consistent"]
        /\ Done(p)
        /\ UNCHANGED <<run, activeRun, spare, delivered>>
        /\ UNCHANGED files

\* A precondition no longer holds.  (A process that dies before its transaction
\* begins leaves what one that never observed leaves.)
refuse(p) ==
    /\ cmd[p].kind # "idle"
    /\ cmd[p].kind # "approval"
    /\ IF cmd[p].kind = "repair" THEN ~PreviewHolds(cmd[p]) ELSE ~PreconditionsHold(cmd[p])
    /\ Done(p)
    /\ UNCHANGED <<run, snapshot, activeRun, spare, delivered>>
    /\ UNCHANGED files

-----------------------------------------------------------------------------
(* What happens around the commands *)

\* evidence record, and the user changing or restoring the file it attests.
recordEvidence(r) ==
    /\ SelectedRun(r)
    /\ observeRun(r).kind = "present"
    /\ evidence[r] = "none"
    /\ IF run[r].step \in {"prd", "spec"} \/ run[r].policy = "v1" THEN Free ELSE Spend
    /\ evidence' = [evidence EXCEPT ![r] = "valid"]
    /\ UNCHANGED <<run, snapshot, activeRun, docs, tasks, sealed, approvals, frozen,
                   verdict, lineage, measured, factsClear, cmd, delivered>>

editEvidence(r) ==
    /\ evidence[r] # "none"
    /\ Spend
    /\ evidence' = [evidence EXCEPT ![r] = IF @ = "valid" THEN "changed" ELSE "valid"]
    /\ UNCHANGED <<run, snapshot, activeRun, docs, tasks, sealed, approvals, frozen,
                   verdict, lineage, measured, factsClear, cmd, delivered>>

editDocs ==
    /\ Spend
    /\ docs' \in {v \in Versions : v # docs /\ (v.prd = docs.prd \/ v.spec = docs.spec)}
    /\ UNCHANGED <<run, snapshot, activeRun, tasks, sealed, approvals, evidence, frozen,
                   verdict, lineage, measured, factsClear, cmd, delivered>>

editTasks ==
    /\ Spend
    /\ \E i \in DOMAIN TaskLists :
         \E checked \in SUBSET {TaskLists[i][j] : j \in 1..Len(TaskLists[i])} :
            /\ tasks' = [declared |-> TaskLists[i], checked |-> checked]
            /\ tasks' # tasks
    /\ UNCHANGED <<run, snapshot, activeRun, docs, sealed, approvals, evidence, frozen,
                   verdict, lineage, measured, factsClear, cmd, delivered>>

\* state.json edited or mangled outside the runtime.
tamper(r) ==
    /\ snapshot[r] = "consistent"
    /\ Spend
    /\ \E damage \in {"divergent", "unreadable"} :
          snapshot' = [snapshot EXCEPT ![r] = damage]
    /\ UNCHANGED <<run, activeRun, cmd, delivered>>
    /\ UNCHANGED files

\* The host's phase.start and session.end hooks, as far as a completion reads
\* them: the measurement of the current phase runs, or was interrupted.
phaseStart(r) ==
    /\ activeRun = r
    /\ run[r].step # "none"
    /\ measured[r] # run[r].step
    /\ measured' = [measured EXCEPT ![r] = run[r].step]
    /\ UNCHANGED <<run, snapshot, activeRun, docs, tasks, sealed, approvals, evidence,
                   frozen, verdict, lineage, factsClear, cmd, spare, delivered>>

sessionEnd(r) ==
    /\ measured[r] # "none"
    /\ Spend
    /\ measured' = [measured EXCEPT ![r] = "none"]
    /\ UNCHANGED <<run, snapshot, activeRun, docs, tasks, sealed, approvals, evidence,
                   frozen, verdict, lineage, factsClear, cmd, delivered>>

-----------------------------------------------------------------------------

\* A project whose documents are written; no run yet, or one of the first
\* policy version whose plan was accepted from the task document on disk.
Init ==
    /\ docs = [prd |-> 1, spec |-> 1]
    /\ tasks = [declared |-> TaskLists[1], checked |-> {}]
    /\ \E legacy \in Runs \cup {NoRun} :
         /\ run = [r \in Runs |-> IF r = legacy THEN LegacyRun ELSE workflowSeed]
         /\ snapshot = [r \in Runs |-> IF r = legacy THEN "consistent" ELSE "missing"]
         /\ activeRun = legacy
         /\ sealed = [r \in Runs |-> IF r = legacy THEN docs ELSE [prd |-> 0, spec |-> 0]]
         /\ lineage = [r \in Runs |->
                IF r # legacy THEN {}
                ELSE {[at |-> 3, digest |-> TasksDigest(tasks.declared),
                       parents |-> DocumentDigests(docs)]}]
         /\ approvals = IF legacy = NoRun THEN {}
                        ELSE {[run |-> legacy, gate |-> "spec", docs |-> docs,
                               revision |-> 0]}
    /\ evidence = [r \in Runs |-> "none"]
    /\ frozen = [r \in Runs |-> <<>>]
    /\ verdict = [r \in Runs |-> NoVerdict]
    /\ measured = [r \in Runs |-> "none"]
    /\ factsClear = TRUE
    /\ cmd = [p \in Procs |-> NoPlan]
    /\ spare = MaxSpare
    /\ delivered = [r \in Runs |-> [op \in Operations |-> 0]]

Command(p) ==
    \/ \E r \in Runs, key \in Keys \cup {Fresh} :
         \/ start(p, r, key)
         \/ continueResume(p, r, key)
         \/ continueReject(p, r, key)
         \/ continueComplete(p, r, key)
         \/ done(p, r, key)
         \/ agentRecord(p, r, key)
         \/ recordGateFact(p, r, key)
         \/ recordAcceptance(p, r, key)
         \/ \E criterion \in Criteria, next \in Runs \cup {NoRun} :
               repairResolve(p, r, criterion, next, key)
    \/ \E r \in Runs : planSnapshotRepair(p, r) \/ \E gate \in Gates : recordApproval(p, r, gate)
    \/ commitEvent(p)
    \/ commitApproval(p)
    \/ commitRepair(p)
    \/ refuse(p)

Surroundings ==
    \/ editDocs
    \/ editTasks
    \/ \E r \in Runs : \/ recordEvidence(r) \/ editEvidence(r) \/ tamper(r)
                       \/ phaseStart(r) \/ sessionEnd(r)

Next == (\E p \in Procs : Command(p)) \/ Surroundings

Spec == Init /\ [][Next]_vars

-----------------------------------------------------------------------------
(* Properties *)

\* A completed run was approved, finally, at exactly the state it completed
\* from: nothing was recorded between the approval and the completion.
CompletedIsApproved ==
    \A r \in Runs : run[r].status = "completed" =>
        \E a \in approvals : /\ a.run = r /\ a.gate = "final-acceptance"
                             /\ a.revision + 1 = run[r].revision

\* Past the plan, a run has a specification approval of its own: a successor
\* does not live on its source's.
PlanWasApproved ==
    Enforced => \A r \in Runs :
        run[r].step \in {"code", "review", "acceptance"} \/ run[r].status = "completed"
        => \E a \in approvals : a.run = r /\ a.gate = "spec"

\* Rejections are counted exactly: a criterion is at the ceiling when, and only
\* when, its stop is in force or was answered by a specification restart.
AttemptsMatchStops ==
    \A r \in Runs, c \in Criteria :
        LET s == run[r]
        IN  /\ s.ceiling # 0 => s.attempts[c] <= s.ceiling
            /\ (s.ceiling # 0 /\ s.attempts[c] = s.ceiling) <=>
                  \/ \E st \in s.stops : st.criterion = c
                  \/ \E res \in s.resolutions : res.criterion = c
                                               /\ res.class = "specification"

\* A run gives way to a successor and the successor exists, or neither: the
\* two streams, whatever interleaves, agree on who took over from whom and on
\* the criteria that may not come back.
HandoffIsAtomic ==
    /\ \A r \in Runs : run[r].restart # NoRun =>
          /\ run[run[r].restart].from = r
          /\ run[run[r].restart].retired = {h.criterion : h \in run[r].history}
          /\ run[r].status = "blocked"
    /\ \A r \in Runs : run[r].from # NoRun => run[run[r].from].restart = r

\* A correlated operation is recorded once, however often it is delivered and
\* whatever is recorded in between.
DeliveredOnce == \A r \in Runs, op \in Operations : delivered[r][op] <= 1

\* A stop in force ends only by its own resolution, one at a time, and the run
\* does not move until none is left.
HeldUntilResolved ==
    [][\A r \in Runs : Held(run[r]) =>
          LET ended == run[r].stops \ run'[r].stops
          IN  /\ ended # {} => \E st \in ended :
                    /\ ended = {st}
                    /\ \E res \in run'[r].resolutions :
                          res.criterion = st.criterion /\ res.at = st.at
              /\ Held(run'[r]) => run'[r].step = run[r].step /\ run'[r].status = "blocked"
              /\ run[r].restart # NoRun => run'[r].restart = run[r].restart]_vars

\* The frozen criteria only ever grow at the end; those a run was planned
\* with are never dropped, reordered or exchanged.
CriteriaOnlyGrow ==
    [][\A r \in Runs : /\ Len(frozen[r]) <= Len(frozen'[r])
                       /\ \A i \in 1..Len(frozen[r]) : frozen'[r][i] = frozen[r][i]]_vars

\* Files nobody else touched read back as the run the runtime recorded.
ReadsBack ==
    (\A r \in Runs : snapshot[r] \in {"missing", "consistent"}) =>
        \A r \in Runs : observeRun(r).kind # "corrupt"

\* A run completes only with every criterion it froze passed.
EveryCriterionPassed ==
    \A r \in Runs : run[r].status = "completed" =>
        \A i \in 1..Len(frozen[r]) : verdict[r][frozen[r][i]] = "passed"
=============================================================================
