------------------------------ MODULE RunPolicy ------------------------------
(* The pure policy of a feature run: what each command decides from an       *)
(* observed run (domain/workflow/decision.ts), how a recorded event folds    *)
(* into the replayed state (domain/workflow/reducer.ts), the repair loop of  *)
(* a rejected acceptance (domain/repair-loop), and the frozen acceptance     *)
(* criteria (domain/acceptance-criteria).                                    *)
(*                                                                           *)
(* Refusals are one value: the model keeps when a command is refused, not    *)
(* the reason code it prints.  A digest-bound artifact is named by the       *)
(* revision of the event that wrote it, which no other artifact of the run   *)
(* shares.                                                                   *)
EXTENDS Naturals, Sequences, FiniteSets

CONSTANTS
    Runs,          \* run identifiers
    Criteria,      \* acceptance criterion identifiers
    Keys,          \* correlation identifiers a caller may deliver again
    NoRun,         \* no run
    Fresh          \* a correlation identifier nobody uses a second time

ASSUME RunsAssumption == NoRun \notin Runs /\ Fresh \notin Keys
ASSUME CriteriaAssumption == IsFiniteSet(Criteria) /\ Criteria # {}

-----------------------------------------------------------------------------
(* Phases, events and the replayed state *)

RunPhases == <<"prd", "spec", "plan", "code", "review", "acceptance">>

PhaseSet == {RunPhases[i] : i \in 1..Len(RunPhases)}

\* Mutant: a phase the run state does not know.
NextPhaseMisnamed(step) ==
    CASE step = "prd"    -> "spec"
      [] step = "spec"   -> "tasks"
      [] step = "tasks"  -> "code"
      [] step = "code"   -> "review"
      [] step = "review" -> "acceptance"
      [] OTHER           -> "none"

\* The phase after step; "none" after the last one.
NextPhase(step) ==
    CASE step = "prd"    -> "spec"
      [] step = "spec"   -> "plan"
      [] step = "plan"   -> "code"
      [] step = "code"   -> "review"
      [] step = "review" -> "acceptance"
      [] OTHER           -> "none"

Outcomes == {"unreported", "passed", "failed", "not-run"}
Faults == {"none", "code", "specification"}
Stops == [criterion : Criteria, class : Faults \ {"none"}, at : Nat]
Resolutions == [criterion : Criteria, class : Faults \ {"none"}, at : Nat,
                next : Runs \cup {NoRun}, key : Keys \cup {Fresh}]
OperationKinds == {"start", "continue", "fact", "acceptance", "resolve", "restart"}
Operations == OperationKinds \X Keys

RunStates ==
    [status : {"idle", "active", "blocked", "completed"},
     step : PhaseSet \cup {"none"},
     revision : Nat,
     operations : SUBSET Operations,
     policy : {"none", "v1", "v2"},
     ceiling : Nat,                            \* 0 while no limit is frozen
     attempts : [Criteria -> Nat],             \* rejections that still count
     stops : SUBSET Stops,                     \* activeRepairStops
     history : SUBSET Stops,                   \* repairStopHistory
     resolutions : SUBSET Resolutions,
     restart : Runs \cup {NoRun},              \* specificationRestart.nextRunId
     retired : SUBSET Criteria,
     from : Runs \cup {NoRun}]                 \* startedFromSpec.sourceRunId

NoAttempts == [c \in Criteria |-> 0]

workflowSeed ==
    [status |-> "idle", step |-> "none", revision |-> 0, operations |-> {},
     policy |-> "none", ceiling |-> 0, attempts |-> NoAttempts, stops |-> {},
     history |-> {}, resolutions |-> {}, restart |-> NoRun, retired |-> {},
     from |-> NoRun]

\* An event: its reason, the operation it is recorded under, and the payload
\* its reason carries (the rest at the values of NoPayload).
NoPayload ==
    [reason |-> "none", kind |-> "fact", key |-> Fresh, ceiling |-> 0,
     attempts |-> NoAttempts, faults |-> [c \in Criteria |-> "none"],
     resolution |-> [criterion |-> CHOOSE c \in Criteria : TRUE, class |-> "code",
                     at |-> 0, next |-> NoRun, key |-> Fresh],
     source |-> NoRun, retired |-> {}]

Event(reason, kind, key) ==
    [NoPayload EXCEPT !.reason = reason, !.kind = kind, !.key = key]

\* A run its repair stops or its specification restart hold still.
Held(s) == s.stops # {} \/ s.restart # NoRun

-----------------------------------------------------------------------------
(* The reducer.  Replays(s, e) is the absence of a throw.                     *)

\* The stops an acceptance event of these faults puts in force; the artifact
\* of a stop is written by the event itself.
StopsOf(s, e) ==
    {[criterion |-> c, class |-> e.faults[c], at |-> s.revision + 1] :
        c \in {d \in Criteria : e.faults[d] # "none"}}

mergeAttempts(s, e) ==
    [c \in Criteria |-> IF e.attempts[c] # 0 THEN e.attempts[c] ELSE s.attempts[c]]

\* Only the first stop of a criterion is kept.
mergeRepairStopHistory(s, stops) ==
    s.history \cup
        {st \in stops : \A h \in s.history : h.criterion # st.criterion}

hasCanonicalAcceptanceDecision(s, e) ==
    LET failed   == {c \in Criteria : e.attempts[c] # 0}
        tripping == {c \in failed : e.attempts[c] = s.ceiling}
        stopping == {c \in Criteria : e.faults[c] # "none"}
    IN  /\ s.ceiling # 0
        /\ s.step = "acceptance"
        /\ s.stops = {}
        /\ \A c \in failed : /\ e.attempts[c] = s.attempts[c] + 1
                             /\ e.attempts[c] <= s.ceiling
        /\ CASE e.reason = "acceptance.passed" -> failed = {} /\ stopping = {}
             [] e.reason = "acceptance.repair" ->
                    failed # {} /\ tripping = {} /\ stopping = {}
             [] OTHER -> tripping # {} /\ stopping = tripping

\* A run written by the first policy version and never touched by a newer one.
CleanLegacy(s) ==
    /\ s.policy = "v1"
    /\ s.ceiling = 0
    /\ s.attempts = NoAttempts
    /\ s.stops = {} /\ s.history = {} /\ s.resolutions = {}
    /\ s.restart = NoRun /\ s.retired = {} /\ s.from = NoRun

\* Reasons both reducers know.
ReplaysKnownReason(s, e) ==
    /\ Held(s) => e.reason \notin {"resumed", "accepted", "completed"}
    /\ CASE e.reason = "started"   -> s.revision = 0
         [] e.reason = "resumed"   -> s.status # "completed"
         [] e.reason = "accepted"  -> s.step # "none" /\ NextPhase(s.step) # "none"
         [] e.reason = "rejected"  -> s.step # "none"
         [] e.reason = "fact"      -> s.step # "none"
         [] e.reason = "completed" -> s.step = "acceptance"
         [] OTHER                  -> FALSE

StopToResolve(s, e) ==
    {st \in s.stops : /\ st.criterion = e.resolution.criterion
                      /\ st.class = e.resolution.class}

ReplaysResolution(s, e) ==
    LET remaining == {st \in s.stops : st.criterion # e.resolution.criterion}
    IN  /\ s.status = "blocked"
        /\ s.restart = NoRun
        /\ StopToResolve(s, e) # {}
        /\ IF e.resolution.class = "specification"
           THEN /\ \A st \in remaining : st.class # "code"
                /\ e.resolution.next # NoRun
           ELSE e.resolution.next = NoRun

Replays(s, e) ==
    CASE e.reason = "upgraded" -> s.revision # 0 /\ CleanLegacy(s) /\ e.ceiling # 0
      [] e.reason = "started"  -> ReplaysKnownReason(s, e) /\ e.ceiling # 0
      [] e.reason = "started_from_spec" ->
            s.revision = 0 /\ e.ceiling # 0 /\ e.retired # {}
      [] e.reason \in {"acceptance.passed", "acceptance.repair", "stop_loss"} ->
            hasCanonicalAcceptanceDecision(s, e)
      [] e.reason = "resolved" -> s.ceiling # 0 /\ ReplaysResolution(s, e)
      [] OTHER -> s.ceiling # 0 /\ ReplaysKnownReason(s, e)

\* What every event does to the state.
Recorded(s, e) ==
    [s EXCEPT !.revision = @ + 1,
              !.operations = IF e.key = Fresh THEN @ ELSE @ \cup {<<e.kind, e.key>>},
              !.policy = "v2"]

reduceKnownWorkflowReason(s, e) ==
    [Recorded(s, e) EXCEPT
        !.status = CASE e.reason \in {"started", "accepted", "resumed"} -> "active"
                     [] e.reason = "rejected"  -> "blocked"
                     [] e.reason = "completed" -> "completed"
                     [] OTHER                  -> @,
        !.step = CASE e.reason = "started"   -> RunPhases[1]
                   [] e.reason = "accepted"  -> NextPhase(@)
                   [] e.reason = "completed" -> "none"
                   [] OTHER                  -> @]

reduceAcceptance(s, e) ==
    CASE e.reason = "acceptance.passed" -> Recorded(s, e)
      [] e.reason = "acceptance.repair" ->
            [Recorded(s, e) EXCEPT !.status = "active", !.step = "code",
                                   !.attempts = mergeAttempts(s, e)]
      [] OTHER ->
            [Recorded(s, e) EXCEPT !.status = "blocked",
                                   !.attempts = mergeAttempts(s, e),
                                   !.stops = StopsOf(s, e),
                                   !.history = mergeRepairStopHistory(s, StopsOf(s, e))]

\* Mutant: one resolution answers every stop.
reduceResolutionAnswersAll(s, e) ==
    [Recorded(s, e) EXCEPT !.stops = {}, !.resolutions = @ \cup {e.resolution},
        !.restart = e.resolution.next,
        !.status = IF e.resolution.next = NoRun THEN "active" ELSE "blocked",
        !.step = IF e.resolution.next = NoRun THEN "code" ELSE @]

reduceResolution(s, e) ==
    LET remaining == {st \in s.stops : st.criterion # e.resolution.criterion}
        common == [Recorded(s, e) EXCEPT !.stops = remaining,
                                         !.resolutions = @ \cup {e.resolution}]
    IN  IF e.resolution.class = "specification"
        THEN [common EXCEPT !.restart = e.resolution.next]
        ELSE [common EXCEPT
                !.status = IF remaining = {} THEN "active" ELSE "blocked",
                !.step = IF remaining = {} THEN "code" ELSE @,
                !.attempts = [@ EXCEPT ![e.resolution.criterion] = 0]]

reduceWorkflow(s, e) ==
    CASE e.reason = "upgraded" -> [Recorded(s, e) EXCEPT !.ceiling = e.ceiling]
      [] e.reason = "started" ->
            [reduceKnownWorkflowReason(s, e) EXCEPT !.ceiling = e.ceiling]
      [] e.reason = "started_from_spec" ->
            [Recorded(s, e) EXCEPT !.status = "active", !.step = "spec",
                                   !.ceiling = e.ceiling, !.retired = e.retired,
                                   !.from = e.source]
      [] e.reason \in {"acceptance.passed", "acceptance.repair", "stop_loss"} ->
            reduceAcceptance(s, e)
      [] e.reason = "resolved" -> reduceResolution(s, e)
      [] OTHER -> reduceKnownWorkflowReason(s, e)

-----------------------------------------------------------------------------
(* Decisions.  An observed run is [kind, state]; a decision is an event to    *)
(* append, or NoPayload when the command is refused or changes nothing.       *)

Refused == NoPayload
Unchanged == NoPayload

\* Mutant: deliveries are not recognised.
hasOperationNever(w, kind, key) == FALSE

hasOperation(w, kind, key) == w.kind = "present" /\ <<kind, key>> \in w.state.operations

\* A run of the current policy that is still open at the revision read.
OpenUnderPolicy(w) ==
    /\ w.kind = "present"
    /\ w.state.status # "completed"
    /\ w.state.policy = "v2"
    /\ w.state.ceiling # 0

policyUpgradeEvent(key, ceiling) ==
    [Event("upgraded", "start", key) EXCEPT !.ceiling = ceiling]

decideStartWorkflow(w, key, ready, ceiling) ==
    CASE w.kind = "corrupt" \/ ~ready -> Refused
      [] w.kind = "absent" -> [Event("started", "start", key) EXCEPT !.ceiling = ceiling]
      [] w.kind = "present" /\ ready ->
            CASE hasOperation(w, "start", key) \/ w.state.status = "completed" -> Unchanged
              [] ~hasOperation(w, "start", key) /\ CleanLegacy(w.state)
                    /\ w.state.status # "completed" -> policyUpgradeEvent(key, ceiling)
              [] ~hasOperation(w, "start", key) /\ OpenUnderPolicy(w) /\ ~Held(w.state) ->
                    Event("resumed", "start", key)
              [] OTHER -> Refused

\* The run a specification resolution opens.
StartFromSpec(source, retired, key, ceiling) ==
    [Event("started_from_spec", "restart", key) EXCEPT
        !.ceiling = ceiling, !.source = source, !.retired = retired]

\* request: the action, whether the observed gates let the phase go, whether
\* an artifact and valid evidence are bound to it, and whether the command may
\* complete the last phase.
decideContinueWorkflow(w, key, request) ==
    LET ask(reason) == Event(reason, "continue", key)
    IN  IF \/ ~OpenUnderPolicy(w)
           \/ hasOperation(w, "continue", key)
           \/ request.action # "reject" /\ Held(w.state)
        THEN Refused
        ELSE CASE request.action = "resume" -> ask("resumed")
               [] request.action = "reject" -> ask("rejected")
               [] OTHER ->
                    IF \/ ~request.passes \/ ~request.artifact \/ ~request.evidence
                       \/ w.state.step = "acceptance" /\ ~request.final
                    THEN ask("rejected")
                    ELSE ask(IF w.state.step = "acceptance" THEN "completed" ELSE "accepted")

\* Recording a fact the gates read: a gap, a gate observation, an agent output.
decideRecordFact(w, key) ==
    IF OpenUnderPolicy(w) /\ ~hasOperation(w, "fact", key)
    THEN Event("fact", "fact", key) ELSE Refused

\* A stop is resolved as it was classified; a specification stop only once no
\* code stop is left, and only by naming the run that takes over.
decideResolveRepairStop(w, key, criterion, next) ==
    LET stop == CHOOSE st \in w.state.stops : st.criterion = criterion
    IN  IF \/ w.kind # "present"
           \/ hasOperation(w, "resolve", key)
           \/ w.state.policy # "v2" \/ w.state.status # "blocked"
           \/ w.state.restart # NoRun
           \/ \A st \in w.state.stops : st.criterion # criterion
        THEN Refused
        ELSE IF \/ (stop.class = "specification") # (next # NoRun)
                \/ /\ stop.class = "specification"
                   /\ \E st \in w.state.stops : st.class = "code"
             THEN Refused
             ELSE [Event("resolved", "resolve", key) EXCEPT
                     !.resolution = [criterion |-> criterion, class |-> stop.class,
                                     at |-> stop.at, next |-> next, key |-> key]]

-----------------------------------------------------------------------------
(* The repair loop: one complete acceptance verdict.                          *)

\* The criteria whose next rejection reaches the ceiling.
Tripping(s, failed) == {c \in failed : s.attempts[c] + 1 >= s.ceiling}

\* A fault report is owed for exactly the criteria that trip.
validFault(s, failed, faults) ==
    {c \in Criteria : faults[c] # "none"} = Tripping(s, failed)

decideRepairLoop(s, outcomes, faults) ==
    LET failed == {c \in Criteria : outcomes[c] = "failed"}
    IN  IF \/ s.ceiling = 0
           \/ \E c \in Criteria : s.attempts[c] >= s.ceiling
           \/ ~validFault(s, failed, faults)
        THEN "refused"
        ELSE CASE failed = {}                                 -> "passed"
               [] failed # {} /\ Tripping(s, failed) = {}     -> "repair"
               [] failed # {} /\ Tripping(s, failed) # {}     -> "stopped"

\* The event an acceptance verdict becomes.
AcceptanceEvent(s, key, outcomes, faults) ==
    LET decision == decideRepairLoop(s, outcomes, faults)
    IN  [Event(CASE decision = "passed" -> "acceptance.passed"
                 [] decision = "repair" -> "acceptance.repair"
                 [] OTHER               -> "stop_loss", "acceptance", key)
            EXCEPT !.attempts = [c \in Criteria |->
                                   IF outcomes[c] = "failed" THEN s.attempts[c] + 1 ELSE 0],
                   !.faults = faults]

-----------------------------------------------------------------------------
(* Acceptance criteria frozen when the plan was completed.  The task document *)
(* is [declared: a sequence of criteria, checked: the ticked ones].           *)

Declared(doc) == {doc.declared[i] : i \in 1..Len(doc.declared)}

\* Mutant: in acceptance every change counts as an addition.
compareCriteriaSnapshotAppends(phase, frozen, doc, verdict) ==
    CASE doc.declared = frozen -> "unchanged"
      [] OTHER -> IF phase = "acceptance" THEN "append" ELSE "refused"

\* Whether the document still says what was frozen, and its boxes what the
\* latest verdicts said; declarations may be appended in acceptance only.
compareCriteriaSnapshot(phase, frozen, doc, verdict) ==
    LET shared == Len(frozen) <= Len(doc.declared)
                    /\ \A i \in 1..Len(frozen) : doc.declared[i] = frozen[i]
        boxes == \A c \in Declared(doc) : (c \in doc.checked) <=> (verdict[c] = "passed")
    IN  CASE ~shared \/ ~boxes                                    -> "refused"
          [] shared /\ boxes /\ Len(doc.declared) = Len(frozen)   -> "unchanged"
          [] OTHER -> IF phase = "acceptance" THEN "append" ELSE "refused"

\* Every declared criterion is reported once, each on valid evidence, and the
\* overall verdict is "accepted" exactly when all of them passed.
decideAcceptanceVerdict(doc, outcomes, accepted, evidenceValid) ==
    /\ evidenceValid
    /\ \A c \in Criteria : (c \in Declared(doc)) <=> (outcomes[c] # "unreported")
    /\ accepted <=> \A c \in Declared(doc) : outcomes[c] = "passed"

\* No two nodes of one digest, every parent a root or a node.
validateLineageDag(nodes, roots) ==
    /\ \A m, n \in nodes : m.digest = n.digest => m = n
    /\ \A n \in nodes : n.parents \subseteq roots \cup {m.digest : m \in nodes}
=============================================================================
