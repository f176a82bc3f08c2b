--------------------------- MODULE WorkflowProofs ---------------------------
(* What Workflow promises, for any number of runs, criteria, keys and         *)
(* commands in flight.                                                        *)
(*                                                                           *)
(* A command decides on a run it observed and commits later, when other      *)
(* commands may have committed.  The argument is that a plan is worth         *)
(* something only while its run stands at the revision it was decided on:    *)
(* PlanCurrent states what the plan's command had seen, PlansSound that it    *)
(* still holds whenever the revision is still the plan's.  Every commit adds  *)
(* one to the revision, so it takes that away from all other plans at once.  *)
(* RunSound states what the reducer keeps true of each recorded run.          *)
(*                                                                           *)
(* The proofs follow the code's layers: the reducer field by field, what an  *)
(* event that replays does to a sound run, the decisions, the plans, and      *)
(* then one lemma per action.                                                 *)
EXTENDS Workflow, TLAPS

-----------------------------------------------------------------------------
(* The inductive invariant *)

AcceptanceReasons == {"acceptance.passed", "acceptance.repair", "stop_loss"}
PlainReasons == {"none", "started", "upgraded", "started_from_spec", "resumed", "accepted",
                 "rejected", "fact", "completed"}
Reasons == PlainReasons \cup AcceptanceReasons \cup {"resolved"}

\* The events commands decide on.
Events ==
    [reason : Reasons, kind : OperationKinds, key : Keys \cup {Fresh}, ceiling : Nat,
     attempts : [Criteria -> Nat], faults : [Criteria -> Faults],
     resolution : Resolutions, source : Runs \cup {NoRun}, retired : SUBSET Criteria]

TaskDocuments ==
    [declared : {TaskLists[i] : i \in DOMAIN TaskLists}, checked : SUBSET Criteria]

AppendKinds == {"event", "verdict", "fact"}

Plans ==
    [kind : AppendKinds \cup {"idle", "approval", "repair"}, run : Runs \cup {NoRun},
     at : Nat, event : Events, next : Runs \cup {NoRun}, freeze : Seq(Criteria),
     verdict : [Criteria -> Outcomes],
     tasks : [declared : Seq(Criteria), checked : SUBSET Criteria],
     node : SUBSET Nodes, docs : Versions, measured : PhaseSet \cup {"none"},
     gate : Gates, facts : BOOLEAN, ceiling : Nat]

\* The types, with those of the plans in flight.
Typed ==
    /\ TypeOK
    /\ tasks \in TaskDocuments
    /\ lineage \in [Runs -> SUBSET Nodes]
    /\ cmd \in [Procs -> Plans]
    /\ \A p \in Procs :
        /\ cmd[p].kind # "idle" => cmd[p].run \in Runs
        /\ cmd[p].kind = "verdict" => cmd[p].tasks \in TaskDocuments

\* A recorded run: untouched until its first event; over once completed; held
\* still by each stop in force and by a restart, whose criterion is at the
\* ceiling; one stop for a criterion.
RunSound(s) ==
    /\ s.revision = 0 => s = workflowSeed
    /\ s.status = "completed" => s.step = "none" /\ s.policy = "v2"
    /\ Held(s) => s.status = "blocked"
    /\ \A st \in s.stops : s.attempts[st.criterion] >= s.ceiling
    /\ \A st, su \in s.stops : st.criterion = su.criterion => st = su
    /\ s.restart # NoRun => \E c \in Criteria : s.attempts[c] >= s.ceiling

RunsSound == \A r \in Runs : RunSound(run[r])

\* old, with something added at the end.
Extends(new, old) ==
    Len(old) <= Len(new) /\ \A i \in 1..Len(old) : new[i] = old[i]

\* Nothing is frozen before the plan is accepted.
FrozenSound ==
    \A r \in Runs :
        run[r].revision = 0 \/ run[r].step \in {"prd", "spec", "plan"} => frozen[r] = <<>>

\* What was delivered is on record.
CountedOnce ==
    \A r \in Runs, op \in Operations :
        /\ delivered[r][op] <= 1
        /\ delivered[r][op] = 1 => op \in run[r].operations

\* What the event's command saw, as far as the reducer does not check it.
Grounded(s, e) ==
    /\ e.reason = "resolved" =>
         \E st \in s.stops : /\ st.criterion = e.resolution.criterion
                             /\ st.at = e.resolution.at
    /\ e.reason \in AcceptanceReasons =>
         \A c \in Criteria : s.attempts[c] < s.ceiling

\* The operation of the event is new to the run.
NotRecorded(s, e) == e.key # Fresh => <<e.kind, e.key>> \notin s.operations

\* The criteria a plan freezes go on from the frozen ones, past the plan phase.
Freezes(plan) ==
    plan.freeze # <<>> =>
        /\ Extends(plan.freeze, frozen[plan.run])
        /\ run[plan.run].revision # 0
        /\ run[plan.run].step \in {"plan", "code", "review", "acceptance"}
        /\ run[plan.run].step = "plan" => plan.event.reason = "accepted"

ApprovedAt(r, revision) ==
    \E a \in approvals : /\ a.run = r /\ a.gate = "final-acceptance"
                         /\ a.revision = revision

\* What a plan knows as long as its run has not moved.
PlanCurrent(plan) ==
    /\ NotRecorded(run[plan.run], plan.event)
    /\ Grounded(run[plan.run], plan.event)
    /\ plan.event.reason = "completed" => ApprovedAt(plan.run, plan.at)
    /\ Freezes(plan)
    /\ plan.next # NoRun => plan.event.reason = "resolved"

PlansSound ==
    \A p \in Procs : cmd[p].kind \in AppendKinds =>
        /\ cmd[p].at <= run[cmd[p].run].revision
        /\ cmd[p].at = run[cmd[p].run].revision => PlanCurrent(cmd[p])

Inv == Typed /\ RunsSound /\ FrozenSound /\ CountedOnce /\ PlansSound /\ CompletedIsApproved

-----------------------------------------------------------------------------
(* The reducer, field by field. *)

LEMMA Phases == PhaseSet = {"prd", "spec", "plan", "code", "review", "acceptance"}
BY DEF PhaseSet, RunPhases

LEMMA SeedTyped == workflowSeed \in RunStates
BY Phases, RunsAssumption DEF workflowSeed, RunStates, NoAttempts

\* What every event does to the state it is recorded on.
Carries(t, s, e) ==
    /\ t \in RunStates
    /\ t.revision = s.revision + 1
    /\ t.operations = IF e.key = Fresh THEN s.operations
                      ELSE s.operations \cup {<<e.kind, e.key>>}
    /\ t.policy = "v2"

LEMMA RecordedFields ==
    ASSUME NEW s \in RunStates, NEW e \in Events, NEW t, t = Recorded(s, e)
    PROVE  /\ Carries(t, s, e)
           /\ t.status = s.status /\ t.step = s.step /\ t.ceiling = s.ceiling
           /\ t.attempts = s.attempts /\ t.stops = s.stops /\ t.history = s.history
           /\ t.resolutions = s.resolutions /\ t.restart = s.restart
           /\ t.retired = s.retired /\ t.from = s.from
<1> DEFINE ops == IF e.key = Fresh THEN s.operations ELSE s.operations \cup {<<e.kind, e.key>>}
           n == s.revision + 1
<1>1. e.key # Fresh => <<e.kind, e.key>> \in Operations
  BY DEF Events, Operations
<1>2. ops \in SUBSET Operations /\ n \in Nat
  BY <1>1 DEF RunStates
<1>3. t = [s EXCEPT !.revision = n, !.operations = ops, !.policy = "v2"]
  BY DEF Recorded
<1> HIDE DEF ops, n
<1>4. t \in RunStates
  BY <1>2, <1>3 DEF RunStates
<1>5. t.revision = n /\ t.operations = ops
  BY <1>3 DEF RunStates
<1>6. QED
  BY <1>3, <1>4, <1>5 DEF RunStates, Carries, ops, n

\* Status and step after an event of a reason both reducers know.
StatusAfter(s, e) ==
    CASE e.reason \in {"started", "accepted", "resumed"} -> "active"
      [] e.reason = "rejected"  -> "blocked"
      [] e.reason = "completed" -> "completed"
      [] OTHER                  -> s.status

StepAfter(s, e) ==
    CASE e.reason = "started"   -> "prd"
      [] e.reason = "accepted"  -> NextPhase(s.step)
      [] e.reason = "completed" -> "none"
      [] OTHER                  -> s.step

LEMMA AfterTyped ==
    ASSUME NEW s \in RunStates, NEW e \in Events
    PROVE  /\ StatusAfter(s, e) \in {"idle", "active", "blocked", "completed"}
           /\ StepAfter(s, e) \in PhaseSet \cup {"none"}
<1>1. s.status \in {"idle", "active", "blocked", "completed"} /\ s.step \in PhaseSet \cup {"none"}
  BY DEF RunStates
<1>2. NextPhase(s.step) \in PhaseSet \cup {"none"}
  BY Phases DEF NextPhase
<1>3. QED
  BY <1>1, <1>2, Phases DEF StatusAfter, StepAfter

LEMMA KnownFields ==
    ASSUME NEW s \in RunStates, NEW e \in Events, NEW u, u = reduceKnownWorkflowReason(s, e)
    PROVE  /\ Carries(u, s, e)
           /\ u.status = StatusAfter(s, e) /\ u.step = StepAfter(s, e)
           /\ u.ceiling = s.ceiling /\ u.attempts = s.attempts /\ u.stops = s.stops
           /\ u.history = s.history /\ u.resolutions = s.resolutions
           /\ u.restart = s.restart /\ u.retired = s.retired /\ u.from = s.from
<1> DEFINE t == Recorded(s, e)
           status == StatusAfter(s, e)
           step == StepAfter(s, e)
<1>1. /\ Carries(t, s, e)
      /\ t.status = s.status /\ t.step = s.step /\ t.ceiling = s.ceiling
      /\ t.attempts = s.attempts /\ t.stops = s.stops /\ t.history = s.history
      /\ t.resolutions = s.resolutions /\ t.restart = s.restart
      /\ t.retired = s.retired /\ t.from = s.from
  BY RecordedFields
<1>2. u = [t EXCEPT !.status = StatusAfter(t, e), !.step = StepAfter(t, e)]
  BY DEF reduceKnownWorkflowReason, StatusAfter, StepAfter, RunPhases
<1>3. StatusAfter(t, e) = status /\ StepAfter(t, e) = step
  BY <1>1 DEF StatusAfter, StepAfter
<1>4. /\ status \in {"idle", "active", "blocked", "completed"}
      /\ step \in PhaseSet \cup {"none"}
  BY AfterTyped
<1> HIDE DEF t, status, step
<1>5. u = [t EXCEPT !.status = status, !.step = step]
  BY <1>2, <1>3
<1>6. u \in RunStates
  BY <1>1, <1>4, <1>5 DEF RunStates, Carries
<1>7. u.status = status /\ u.step = step
  BY <1>1, <1>5 DEF RunStates, Carries
<1>8. QED
  BY <1>1, <1>5, <1>6, <1>7 DEF RunStates, Carries, status, step

LEMMA UpgradedFields ==
    ASSUME NEW s \in RunStates, NEW e \in Events, e.reason = "upgraded",
           NEW u, u = reduceWorkflow(s, e)
    PROVE  /\ Carries(u, s, e)
           /\ u.status = s.status /\ u.step = s.step
           /\ u.ceiling = e.ceiling /\ u.attempts = s.attempts /\ u.stops = s.stops
           /\ u.history = s.history /\ u.resolutions = s.resolutions
           /\ u.restart = s.restart /\ u.retired = s.retired /\ u.from = s.from
<1> DEFINE t == Recorded(s, e)
<1>1. /\ Carries(t, s, e)
      /\ t.status = s.status /\ t.step = s.step /\ t.ceiling = s.ceiling
      /\ t.attempts = s.attempts /\ t.stops = s.stops /\ t.history = s.history
      /\ t.resolutions = s.resolutions /\ t.restart = s.restart
      /\ t.retired = s.retired /\ t.from = s.from
  BY RecordedFields
<1>2. u = [t EXCEPT !.ceiling = e.ceiling]
  BY DEF reduceWorkflow
<1> HIDE DEF t
<1>3. e.ceiling \in Nat
  BY DEF Events
<1>4. u \in RunStates
  BY <1>1, <1>2, <1>3 DEF RunStates, Carries
<1>5. QED
  BY <1>1, <1>2, <1>4 DEF RunStates, Carries

LEMMA StartedFields ==
    ASSUME NEW s \in RunStates, NEW e \in Events, e.reason = "started",
           NEW u, u = reduceWorkflow(s, e)
    PROVE  /\ Carries(u, s, e)
           /\ u.status = "active" /\ u.step = "prd"
           /\ u.ceiling = e.ceiling /\ u.attempts = s.attempts /\ u.stops = s.stops
           /\ u.history = s.history /\ u.resolutions = s.resolutions
           /\ u.restart = s.restart /\ u.retired = s.retired /\ u.from = s.from
<1> DEFINE t == reduceKnownWorkflowReason(s, e)
<1>1. /\ Carries(t, s, e)
      /\ t.status = StatusAfter(s, e) /\ t.step = StepAfter(s, e)
      /\ t.attempts = s.attempts /\ t.stops = s.stops /\ t.history = s.history
      /\ t.resolutions = s.resolutions /\ t.restart = s.restart
      /\ t.retired = s.retired /\ t.from = s.from
  BY KnownFields
<1>2. u = [t EXCEPT !.ceiling = e.ceiling]
  BY DEF reduceWorkflow
<1> HIDE DEF t
<1>3. e.ceiling \in Nat
  BY DEF Events
<1>4. u \in RunStates
  BY <1>1, <1>2, <1>3 DEF RunStates, Carries
<1>5. StatusAfter(s, e) = "active" /\ StepAfter(s, e) = "prd"
  BY DEF StatusAfter, StepAfter
<1>6. QED
  BY <1>1, <1>2, <1>4, <1>5 DEF RunStates, Carries

LEMMA StartedFromSpecFields ==
    ASSUME NEW s \in RunStates, NEW e \in Events, e.reason = "started_from_spec",
           NEW u, u = reduceWorkflow(s, e)
    PROVE  /\ Carries(u, s, e)
           /\ u.status = "active" /\ u.step = "spec"
           /\ u.ceiling = e.ceiling /\ u.attempts = s.attempts /\ u.stops = s.stops
           /\ u.history = s.history /\ u.resolutions = s.resolutions
           /\ u.restart = s.restart /\ u.retired = e.retired /\ u.from = e.source
<1> DEFINE t == Recorded(s, e)
<1>1. /\ Carries(t, s, e)
      /\ t.attempts = s.attempts /\ t.stops = s.stops /\ t.history = s.history
      /\ t.resolutions = s.resolutions /\ t.restart = s.restart
  BY RecordedFields
<1>2. u = [t EXCEPT !.status = "active", !.step = "spec", !.ceiling = e.ceiling,
                    !.retired = e.retired, !.from = e.source]
  BY DEF reduceWorkflow
<1> HIDE DEF t
<1>3. e.ceiling \in Nat /\ e.retired \in SUBSET Criteria /\ e.source \in Runs \cup {NoRun}
  BY DEF Events
<1>4. u \in RunStates
  BY <1>1, <1>2, <1>3, Phases DEF RunStates, Carries
<1>5. QED
  BY <1>1, <1>2, <1>4 DEF RunStates, Carries

LEMMA PassedFields ==
    ASSUME NEW s \in RunStates, NEW e \in Events, e.reason = "acceptance.passed",
           NEW u, u = reduceWorkflow(s, e)
    PROVE  /\ Carries(u, s, e)
           /\ u.status = s.status /\ u.step = s.step
           /\ u.ceiling = s.ceiling /\ u.attempts = s.attempts /\ u.stops = s.stops
           /\ u.history = s.history /\ u.resolutions = s.resolutions
           /\ u.restart = s.restart /\ u.retired = s.retired /\ u.from = s.from
<1>1. u = Recorded(s, e)
  BY DEF reduceWorkflow, reduceAcceptance
<1>2. QED
  BY <1>1, RecordedFields

LEMMA MergeTyped ==
    ASSUME NEW s \in RunStates, NEW e \in Events
    PROVE  mergeAttempts(s, e) \in [Criteria -> Nat]
BY DEF mergeAttempts, RunStates, Events

LEMMA RepairFields ==
    ASSUME NEW s \in RunStates, NEW e \in Events, e.reason = "acceptance.repair",
           NEW u, u = reduceWorkflow(s, e)
    PROVE  /\ Carries(u, s, e)
           /\ u.status = "active" /\ u.step = "code"
           /\ u.ceiling = s.ceiling /\ u.attempts = mergeAttempts(s, e) /\ u.stops = s.stops
           /\ u.history = s.history /\ u.resolutions = s.resolutions
           /\ u.restart = s.restart /\ u.retired = s.retired /\ u.from = s.from
<1> DEFINE t == Recorded(s, e)
           merged == mergeAttempts(s, e)
<1>1. /\ Carries(t, s, e)
      /\ t.ceiling = s.ceiling /\ t.stops = s.stops /\ t.history = s.history
      /\ t.resolutions = s.resolutions /\ t.restart = s.restart
      /\ t.retired = s.retired /\ t.from = s.from
  BY RecordedFields
<1>2. u = [t EXCEPT !.status = "active", !.step = "code", !.attempts = merged]
  BY DEF reduceWorkflow, reduceAcceptance
<1>3. merged \in [Criteria -> Nat]
  BY MergeTyped
<1> HIDE DEF t, merged
<1>4. u \in RunStates
  BY <1>1, <1>2, <1>3, Phases DEF RunStates, Carries
<1>5. u.attempts = merged
  BY <1>1, <1>2 DEF RunStates, Carries
<1>6. QED
  BY <1>1, <1>2, <1>4, <1>5 DEF RunStates, Carries, merged

LEMMA StopsTyped ==
    ASSUME NEW s \in RunStates, NEW e \in Events
    PROVE  /\ StopsOf(s, e) \in SUBSET Stops
           /\ mergeRepairStopHistory(s, StopsOf(s, e)) \in SUBSET Stops
<1>1. s.revision + 1 \in Nat /\ s.history \in SUBSET Stops
  BY DEF RunStates
<1>2. e.faults \in [Criteria -> Faults]
  BY DEF Events
<1>3. ASSUME NEW c \in Criteria, e.faults[c] # "none"
      PROVE  [criterion |-> c, class |-> e.faults[c], at |-> s.revision + 1] \in Stops
  BY <1>1, <1>2, <1>3 DEF Stops
<1>4. StopsOf(s, e) \in SUBSET Stops
  BY <1>3 DEF StopsOf
<1>5. QED
  BY <1>1, <1>4 DEF mergeRepairStopHistory

LEMMA StopLossFields ==
    ASSUME NEW s \in RunStates, NEW e \in Events, e.reason = "stop_loss",
           NEW u, u = reduceWorkflow(s, e)
    PROVE  /\ Carries(u, s, e)
           /\ u.status = "blocked" /\ u.step = s.step
           /\ u.ceiling = s.ceiling /\ u.attempts = mergeAttempts(s, e)
           /\ u.stops = StopsOf(s, e)
           /\ u.history = mergeRepairStopHistory(s, StopsOf(s, e))
           /\ u.resolutions = s.resolutions
           /\ u.restart = s.restart /\ u.retired = s.retired /\ u.from = s.from
<1> DEFINE t == Recorded(s, e)
           merged == mergeAttempts(s, e)
           stops == StopsOf(s, e)
           history == mergeRepairStopHistory(s, StopsOf(s, e))
<1>1. /\ Carries(t, s, e)
      /\ t.step = s.step /\ t.ceiling = s.ceiling
      /\ t.resolutions = s.resolutions /\ t.restart = s.restart
      /\ t.retired = s.retired /\ t.from = s.from
  BY RecordedFields
<1>2. u = [t EXCEPT !.status = "blocked", !.attempts = merged, !.stops = stops,
                    !.history = history]
  BY DEF reduceWorkflow, reduceAcceptance
<1>3. merged \in [Criteria -> Nat] /\ stops \in SUBSET Stops /\ history \in SUBSET Stops
  BY MergeTyped, StopsTyped
<1> HIDE DEF t, merged, stops, history
<1>4. u \in RunStates
  BY <1>1, <1>2, <1>3 DEF RunStates, Carries
<1>5. u.attempts = merged /\ u.stops = stops /\ u.history = history
  BY <1>1, <1>2 DEF RunStates, Carries
<1>6. QED
  BY <1>1, <1>2, <1>4, <1>5 DEF RunStates, Carries, merged, stops, history

\* The stops a resolution leaves in force.
Remaining(s, e) == {st \in s.stops : st.criterion # e.resolution.criterion}

LEMMA ResolvedFields ==
    ASSUME NEW s \in RunStates, NEW e \in Events, e.reason = "resolved",
           NEW u, u = reduceWorkflow(s, e)
    PROVE  /\ Carries(u, s, e)
           /\ u.stops = Remaining(s, e)
           /\ u.resolutions = s.resolutions \cup {e.resolution}
           /\ u.ceiling = s.ceiling /\ u.history = s.history
           /\ u.retired = s.retired /\ u.from = s.from
           /\ e.resolution.class = "specification" =>
                /\ u.restart = e.resolution.next
                /\ u.status = s.status /\ u.step = s.step /\ u.attempts = s.attempts
           /\ e.resolution.class # "specification" =>
                /\ u.restart = s.restart
                /\ u.status = IF Remaining(s, e) = {} THEN "active" ELSE "blocked"
                /\ u.step = IF Remaining(s, e) = {} THEN "code" ELSE s.step
                /\ u.attempts = [s.attempts EXCEPT ![e.resolution.criterion] = 0]
<1> DEFINE t == Recorded(s, e)
           remaining == Remaining(s, e)
           resolutions == s.resolutions \cup {e.resolution}
           common == [t EXCEPT !.stops = remaining, !.resolutions = resolutions]
           status == IF remaining = {} THEN "active" ELSE "blocked"
           step == IF remaining = {} THEN "code" ELSE s.step
           attempts == [s.attempts EXCEPT ![e.resolution.criterion] = 0]
           next == e.resolution.next
<1>1. /\ Carries(t, s, e)
      /\ t.status = s.status /\ t.step = s.step /\ t.ceiling = s.ceiling
      /\ t.attempts = s.attempts /\ t.stops = s.stops /\ t.history = s.history
      /\ t.resolutions = s.resolutions /\ t.restart = s.restart
      /\ t.retired = s.retired /\ t.from = s.from
  BY RecordedFields
<1>2. /\ e.resolution \in Resolutions /\ next \in Runs \cup {NoRun}
      /\ e.resolution.criterion \in Criteria
  BY DEF Events, Resolutions
<1>3. /\ remaining \in SUBSET Stops /\ resolutions \in SUBSET Resolutions
      /\ status \in {"idle", "active", "blocked", "completed"}
      /\ step \in PhaseSet \cup {"none"}
      /\ attempts \in [Criteria -> Nat]
  BY <1>2, Phases DEF RunStates, Remaining
<1>4. u = IF e.resolution.class = "specification"
          THEN [common EXCEPT !.restart = next]
          ELSE [common EXCEPT
                !.status = status,
                !.step = IF remaining = {} THEN "code" ELSE common.step,
                !.attempts = [common.attempts EXCEPT ![e.resolution.criterion] = 0]]
  BY <1>1 DEF reduceWorkflow, reduceResolution, Remaining
<1>5. /\ Carries(common, s, e)
      /\ common.status = s.status /\ common.step = s.step /\ common.ceiling = s.ceiling
      /\ common.attempts = s.attempts /\ common.history = s.history
      /\ common.restart = s.restart /\ common.retired = s.retired /\ common.from = s.from
      /\ common.stops = remaining /\ common.resolutions = resolutions
  <2> HIDE DEF t, remaining, resolutions
  <2>1. common \in RunStates
    BY <1>1, <1>3 DEF RunStates, Carries
  <2>2. QED
    BY <1>1, <2>1 DEF RunStates, Carries
<1> HIDE DEF common, t, remaining, resolutions, status, step, attempts, next
<1>6. CASE e.resolution.class = "specification"
  <2>1. u = [common EXCEPT !.restart = next]
    BY <1>4, <1>6
  <2>2. u \in RunStates
    BY <1>2, <1>5, <2>1 DEF RunStates, Carries
  <2>3. QED
    BY <1>5, <1>6, <2>1, <2>2 DEF RunStates, Carries, remaining, resolutions, next
<1>7. CASE e.resolution.class # "specification"
  <2>1. u = [common EXCEPT !.status = status, !.step = step, !.attempts = attempts]
    BY <1>4, <1>5, <1>7 DEF step, attempts
  <2>2. u \in RunStates
    BY <1>3, <1>5, <2>1 DEF RunStates, Carries
  <2>3. /\ Carries(u, s, e)
        /\ u.stops = remaining /\ u.resolutions = resolutions
        /\ u.ceiling = s.ceiling /\ u.history = s.history
        /\ u.retired = s.retired /\ u.from = s.from /\ u.restart = s.restart
        /\ u.status = status /\ u.step = step /\ u.attempts = attempts
    BY <1>5, <2>1, <2>2 DEF RunStates, Carries
  <2>4. QED
    BY <1>7, <2>3 DEF remaining, resolutions, status, step, attempts
<1>8. QED
  BY <1>6, <1>7

-----------------------------------------------------------------------------
(* What an event that replays does to a sound run. *)

\* What a held run may do in a step (the body of HeldUntilResolved).
HeldStep(s, u) ==
    Held(s) =>
        LET ended == s.stops \ u.stops
        IN  /\ ended # {} => \E st \in ended :
                  /\ ended = {st}
                  /\ \E res \in u.resolutions :
                        res.criterion = st.criterion /\ res.at = st.at
            /\ Held(u) => u.step = s.step /\ u.status = "blocked"
            /\ s.restart # NoRun => u.restart = s.restart

Unfrozen == {"prd", "spec", "plan"}

\* No phase before the code is entered again, and a completed run is over.
Onward(s, e, u) ==
    /\ u.status = "completed" => e.reason = "completed"
    /\ s.revision # 0 /\ u.step \in Unfrozen => s.step \in Unfrozen
    /\ s.step = "plan" /\ e.reason = "accepted" => u.step = "code"

\* What the reducer makes of a sound run and an event that replays on it.
Advances(s, e, u) ==
    Carries(u, s, e) /\ RunSound(u) /\ HeldStep(s, u) /\ Onward(s, e, u)

LEMMA StepTyped ==
    ASSUME NEW s \in RunStates
    PROVE  /\ s.revision \in Nat /\ s.ceiling \in Nat /\ s.attempts \in [Criteria -> Nat]
           /\ s.stops \in SUBSET Stops
           /\ \A st \in s.stops : st.criterion \in Criteria
BY DEF RunStates, Stops

LEMMA KnownAdvances ==
    ASSUME NEW s \in RunStates, NEW e \in Events, RunSound(s),
           ReplaysKnownReason(s, e), e.reason # "started",
           NEW u, u = reduceKnownWorkflowReason(s, e)
    PROVE  Advances(s, e, u)
<1>1. /\ Carries(u, s, e)
      /\ u.status = StatusAfter(s, e) /\ u.step = StepAfter(s, e)
      /\ u.ceiling = s.ceiling /\ u.attempts = s.attempts /\ u.stops = s.stops
      /\ u.restart = s.restart
  BY KnownFields
<1>2. e.reason \in {"resumed", "accepted", "rejected", "fact", "completed"}
  BY DEF ReplaysKnownReason
<1>3. Held(u) = Held(s) /\ (Held(s) => s.status = "blocked")
  BY <1>1 DEF Held, RunSound
<1>4. s.status # "completed" \/ e.reason # "fact"
  BY DEF RunSound, ReplaysKnownReason
<1>5. u.status = "completed" => e.reason = "completed"
  BY <1>1, <1>2, <1>4 DEF StatusAfter
<1>6. Held(s) => e.reason \in {"rejected", "fact"}
  BY <1>2 DEF ReplaysKnownReason
<1>7. Held(s) => u.status = "blocked" /\ u.step = s.step
  BY <1>1, <1>3, <1>6 DEF StatusAfter, StepAfter
<1>8. RunSound(u)
  <2>1. u.revision # 0
    BY <1>1, StepTyped DEF Carries
  <2>2. u.status = "completed" => u.step = "none" /\ u.policy = "v2"
    BY <1>1, <1>5 DEF StepAfter, Carries
  <2>3. QED
    BY <1>1, <1>3, <1>7, <2>1, <2>2 DEF RunSound
<1>9. HeldStep(s, u)
  BY <1>1, <1>7 DEF HeldStep
<1>10. Onward(s, e, u)
  BY <1>1, <1>2, <1>5 DEF Onward, StepAfter, NextPhase, Unfrozen
<1>11. QED
  BY <1>1, <1>8, <1>9, <1>10 DEF Advances

LEMMA SeedIsFree ==
    /\ ~Held(workflowSeed) /\ workflowSeed.stops = {} /\ workflowSeed.restart = NoRun
    /\ workflowSeed.status = "idle" /\ workflowSeed.operations = {}
    /\ workflowSeed.step = "none" /\ workflowSeed.revision = 0
BY DEF Held, workflowSeed

LEMMA OpeningAdvances ==
    ASSUME NEW s \in RunStates, NEW e \in Events, RunSound(s), s.revision = 0,
           e.reason \in {"started", "started_from_spec"},
           NEW u, u = reduceWorkflow(s, e)
    PROVE  Advances(s, e, u) /\ u.status = "active"
<1>1. s = workflowSeed
  BY DEF RunSound
<1>2. /\ Carries(u, s, e) /\ u.status = "active"
      /\ u.stops = {} /\ u.restart = NoRun
  BY <1>1, SeedIsFree, StartedFields, StartedFromSpecFields
<1>3. ~Held(u) /\ ~Held(s)
  BY <1>1, <1>2, SeedIsFree DEF Held
<1>4. u.revision # 0
  BY <1>2, StepTyped DEF Carries
<1>5. RunSound(u)
  BY <1>2, <1>3, <1>4 DEF RunSound
<1>6. QED
  BY <1>1, <1>2, <1>3, <1>5, SeedIsFree DEF Advances, HeldStep, Onward

LEMMA UpgradedAdvances ==
    ASSUME NEW s \in RunStates, NEW e \in Events, RunSound(s), CleanLegacy(s),
           e.reason = "upgraded", NEW u, u = reduceWorkflow(s, e)
    PROVE  Advances(s, e, u)
<1>1. /\ Carries(u, s, e) /\ u.status = s.status /\ u.step = s.step
      /\ u.stops = {} /\ u.restart = NoRun
  BY UpgradedFields DEF CleanLegacy
<1>2. ~Held(u) /\ ~Held(s)
  BY <1>1 DEF Held, CleanLegacy
<1>3. u.revision # 0
  BY <1>1, StepTyped DEF Carries
<1>4. s.status # "completed"
  BY DEF RunSound, CleanLegacy
<1>5. RunSound(u)
  BY <1>1, <1>2, <1>3, <1>4 DEF RunSound
<1>6. QED
  BY <1>1, <1>2, <1>4, <1>5 DEF Advances, HeldStep, Onward

LEMMA AcceptanceAdvances ==
    ASSUME NEW s \in RunStates, NEW e \in Events, RunSound(s), Grounded(s, e),
           e.reason \in AcceptanceReasons, hasCanonicalAcceptanceDecision(s, e),
           NEW u, u = reduceWorkflow(s, e)
    PROVE  Advances(s, e, u)
<1>1. s.stops = {} /\ s.step = "acceptance" /\ s.ceiling # 0
  BY DEF hasCanonicalAcceptanceDecision
<1>2. s.restart = NoRun
  BY StepTyped DEF RunSound, Grounded
<1>3. ~Held(s) /\ s.status # "completed"
  BY <1>1, <1>2 DEF Held, RunSound
<1>4. Carries(u, s, e) /\ u.revision # 0
  BY PassedFields, RepairFields, StopLossFields, StepTyped DEF AcceptanceReasons, Carries
<1>5. CASE e.reason = "acceptance.passed"
  <2>1. /\ u.status = s.status /\ u.step = s.step /\ u.stops = {} /\ u.restart = NoRun
    BY <1>1, <1>2, <1>5, PassedFields
  <2>2. ~Held(u)
    BY <2>1 DEF Held
  <2>3. QED
    BY <1>1, <1>3, <1>4, <2>1, <2>2 DEF Advances, RunSound, HeldStep, Onward, Unfrozen
<1>6. CASE e.reason = "acceptance.repair"
  <2>1. /\ u.status = "active" /\ u.step = "code" /\ u.stops = {} /\ u.restart = NoRun
    BY <1>1, <1>2, <1>6, RepairFields
  <2>2. ~Held(u)
    BY <2>1 DEF Held
  <2>3. QED
    BY <1>3, <1>4, <2>1, <2>2 DEF Advances, RunSound, HeldStep, Onward, Unfrozen
<1>7. CASE e.reason = "stop_loss"
  <2>1. /\ u.status = "blocked" /\ u.step = s.step /\ u.stops = StopsOf(s, e)
        /\ u.restart = NoRun /\ u.ceiling = s.ceiling /\ u.attempts = mergeAttempts(s, e)
    BY <1>2, <1>7, StopLossFields
  <2>2. ASSUME NEW c \in Criteria, e.faults[c] # "none"
        PROVE  mergeAttempts(s, e)[c] = s.ceiling
    <3>1. e.attempts[c] # 0 /\ e.attempts[c] = s.ceiling
      BY <1>7, <2>2 DEF hasCanonicalAcceptanceDecision
    <3>2. QED
      BY <3>1 DEF mergeAttempts
  <2>3. \A st \in u.stops : u.attempts[st.criterion] >= u.ceiling
    BY <2>1, <2>2, StepTyped DEF StopsOf
  <2>4. \A st, su \in u.stops : st.criterion = su.criterion => st = su
    BY <2>1 DEF StopsOf
  <2>5. RunSound(u)
    BY <1>4, <2>1, <2>3, <2>4 DEF RunSound
  <2>6. QED
    BY <1>1, <1>3, <1>4, <1>7, <2>1, <2>5 DEF Advances, HeldStep, Onward, Unfrozen
<1>8. QED
  BY <1>5, <1>6, <1>7 DEF AcceptanceReasons

LEMMA ResolvedAdvances ==
    ASSUME NEW s \in RunStates, NEW e \in Events, RunSound(s), Grounded(s, e),
           e.reason = "resolved", ReplaysResolution(s, e),
           NEW u, u = reduceWorkflow(s, e)
    PROVE  Advances(s, e, u)
<1>1. /\ Carries(u, s, e)
      /\ u.stops = Remaining(s, e)
      /\ u.resolutions = s.resolutions \cup {e.resolution}
      /\ u.ceiling = s.ceiling
      /\ e.resolution.class = "specification" =>
           /\ u.restart = e.resolution.next
           /\ u.status = s.status /\ u.step = s.step /\ u.attempts = s.attempts
      /\ e.resolution.class # "specification" =>
           /\ u.restart = s.restart
           /\ u.status = IF Remaining(s, e) = {} THEN "active" ELSE "blocked"
           /\ u.step = IF Remaining(s, e) = {} THEN "code" ELSE s.step
           /\ u.attempts = [s.attempts EXCEPT ![e.resolution.criterion] = 0]
  BY ResolvedFields
<1>2. s.status = "blocked" /\ s.restart = NoRun
  BY DEF ReplaysResolution
<1>3. u.revision # 0
  BY <1>1, StepTyped DEF Carries
<1>4. PICK st \in s.stops : st.criterion = e.resolution.criterion /\ st.at = e.resolution.at
  BY DEF Grounded
<1>5. \A su \in s.stops : su.criterion = st.criterion => su = st
  BY <1>4 DEF RunSound
<1>6. s.stops \ u.stops = {st}
  BY <1>1, <1>4, <1>5 DEF Remaining
<1>7. s.attempts[st.criterion] >= s.ceiling /\ st.criterion \in Criteria
  BY <1>4, StepTyped DEF RunSound
<1>8. Held(u) => u.status = "blocked" /\ u.step = s.step
  BY <1>1, <1>2 DEF Held
<1>9. u.status # "completed"
  BY <1>1, <1>2
<1>10. \A su \in u.stops : u.attempts[su.criterion] >= u.ceiling
  BY <1>1, StepTyped DEF RunSound, Remaining
<1>11. \A su, sv \in u.stops : su.criterion = sv.criterion => su = sv
  BY <1>1 DEF RunSound, Remaining
<1>12. u.restart # NoRun => \E c \in Criteria : u.attempts[c] >= u.ceiling
  BY <1>1, <1>2, <1>7
<1>13. RunSound(u)
  BY <1>3, <1>8, <1>9, <1>10, <1>11, <1>12 DEF RunSound
<1>14. HeldStep(s, u)
  BY <1>1, <1>2, <1>4, <1>6, <1>8 DEF HeldStep
<1>15. Onward(s, e, u)
  BY <1>1, <1>9 DEF Onward, Unfrozen
<1>16. QED
  BY <1>1, <1>13, <1>14, <1>15 DEF Advances

LEMMA ReplayAdvances ==
    ASSUME NEW s \in RunStates, NEW e \in Events, RunSound(s), Replays(s, e),
           Grounded(s, e), NEW u, u = reduceWorkflow(s, e)
    PROVE  Advances(s, e, u)
<1>1. CASE e.reason = "upgraded"
  BY <1>1, UpgradedAdvances DEF Replays
<1>2. CASE e.reason \in {"started", "started_from_spec"}
  <2>1. s.revision = 0
    BY <1>2 DEF Replays, ReplaysKnownReason
  <2>2. QED
    BY <1>2, <2>1, OpeningAdvances
<1>3. CASE e.reason \in AcceptanceReasons
  BY <1>3, AcceptanceAdvances DEF Replays, AcceptanceReasons
<1>4. CASE e.reason = "resolved"
  BY <1>4, ResolvedAdvances DEF Replays
<1>5. CASE e.reason \notin {"upgraded", "started", "started_from_spec", "resolved"}
                            \cup AcceptanceReasons
  <2>1. u = reduceKnownWorkflowReason(s, e) /\ ReplaysKnownReason(s, e)
    BY <1>5 DEF reduceWorkflow, Replays, AcceptanceReasons
  <2>2. QED
    BY <1>5, <2>1, KnownAdvances
<1>6. QED
  BY <1>1, <1>2, <1>3, <1>4, <1>5 DEF AcceptanceReasons

-----------------------------------------------------------------------------
(* The decisions. *)

LEMMA PayloadTyped == NoPayload \in Events
<1>1. (CHOOSE c \in Criteria : TRUE) \in Criteria
  BY CriteriaAssumption
<1>2. QED
  BY <1>1, RunsAssumption
     DEF NoPayload, Events, Reasons, PlainReasons, OperationKinds, NoAttempts, Faults, Resolutions

LEMMA EventTyped ==
    ASSUME NEW reason \in Reasons, NEW kind \in OperationKinds, NEW key \in Keys \cup {Fresh}
    PROVE  /\ Event(reason, kind, key) \in Events
           /\ Event(reason, kind, key).reason = reason
           /\ Event(reason, kind, key).kind = kind
           /\ Event(reason, kind, key).key = key
BY PayloadTyped DEF Event, Events

\* What a decision taken on state s is worth: an event of its type, under an
\* operation s has not recorded, with what the reducer takes for granted.
Decided(s, e) == e \in Events /\ NotRecorded(s, e) /\ Grounded(s, e)

LEMMA NothingDecided ==
    ASSUME NEW s
    PROVE  Decided(s, NoPayload) /\ NoPayload.reason = "none"
BY PayloadTyped DEF Decided, NotRecorded, Grounded, NoPayload, AcceptanceReasons

LEMMA PlainReason ==
    ASSUME NEW reason \in PlainReasons
    PROVE  reason \in Reasons /\ reason # "resolved" /\ reason \notin AcceptanceReasons
BY DEF PlainReasons, Reasons, AcceptanceReasons

LEMMA PlainDecided ==
    ASSUME NEW s, NEW reason \in PlainReasons,
           NEW kind \in OperationKinds, NEW key \in Keys \cup {Fresh},
           <<kind, key>> \notin s.operations
    PROVE  Decided(s, Event(reason, kind, key))
BY EventTyped, PlainReason DEF Decided, NotRecorded, Grounded

LEMMA ObservedState ==
    ASSUME NEW r PROVE /\ observeRun(r).state = run[r]
                       /\ observeRun(r).kind \in {"absent", "present", "corrupt"}
                       /\ observeRun(r).kind = "absent" <=> run[r].revision = 0
BY DEF observeRun

LEMMA StartDecided ==
    ASSUME NEW w, NEW s, w.state = s, w.kind \in {"absent", "present", "corrupt"},
           w.kind = "absent" => s.operations = {},
           NEW key \in Keys \cup {Fresh}, NEW ceiling \in Nat,
           NEW e, e = decideStartWorkflow(w, key, TRUE, ceiling)
    PROVE  Decided(s, e) /\ e.reason # "completed"
<1>1. \/ e = NoPayload
      \/ /\ <<"start", key>> \notin s.operations
         /\ \/ e = [Event("started", "start", key) EXCEPT !.ceiling = ceiling]
            \/ e = [Event("upgraded", "start", key) EXCEPT !.ceiling = ceiling]
            \/ e = Event("resumed", "start", key)
  <2>1. CASE w.kind = "absent"
    BY <2>1 DEF decideStartWorkflow
  <2>2. CASE w.kind = "present"
    <3> DEFINE known == hasOperation(w, "start", key)
    <3>1. known <=> <<"start", key>> \in s.operations
      BY <2>2 DEF hasOperation
    <3> HIDE DEF known
    <3>2. e = CASE known \/ s.status = "completed" -> NoPayload
                [] ~known /\ CleanLegacy(s) /\ s.status # "completed" ->
                      policyUpgradeEvent(key, ceiling)
                [] ~known /\ OpenUnderPolicy(w) /\ ~Held(s) -> Event("resumed", "start", key)
                [] OTHER -> NoPayload
      BY <2>2 DEF decideStartWorkflow, Refused, Unchanged, known
    <3>3. QED
      BY <3>1, <3>2 DEF policyUpgradeEvent
  <2>3. CASE w.kind \notin {"absent", "present"}
    BY <2>3 DEF decideStartWorkflow, Refused
  <2>4. QED
    BY <2>1, <2>2, <2>3
<1>2. "start" \in OperationKinds
  BY DEF OperationKinds
<1>3. CASE e = NoPayload
  BY <1>3, NothingDecided
<1>4. ASSUME <<"start", key>> \notin s.operations, NEW reason \in {"started", "upgraded"},
             e = [Event(reason, "start", key) EXCEPT !.ceiling = ceiling]
      PROVE  Decided(s, e) /\ e.reason # "completed"
  <2>1. reason \in PlainReasons
    BY DEF PlainReasons
  <2> DEFINE base == Event(reason, "start", key)
  <2>2. base = Event(reason, "start", key) /\ e = [base EXCEPT !.ceiling = ceiling]
    BY <1>4
  <2>3. base \in Events /\ base.reason = reason /\ base.kind = "start" /\ base.key = key
    BY <1>2, <2>1, EventTyped, PlainReason
  <2> HIDE DEF base
  <2>4. e \in Events /\ e.reason = reason /\ e.kind = "start" /\ e.key = key
    BY <2>2, <2>3 DEF Events
  <2>5. QED
    BY <1>4, <2>1, <2>4, PlainReason DEF Decided, NotRecorded, Grounded
<1>5. CASE <<"start", key>> \notin s.operations /\ e = Event("resumed", "start", key)
  <2>1. "resumed" \in PlainReasons
    BY DEF PlainReasons
  <2>2. Decided(s, Event("resumed", "start", key))
    BY <1>2, <1>5, <2>1, PlainDecided
  <2>3. Event("resumed", "start", key).reason = "resumed"
    BY <1>2, <2>1, PlainReason, EventTyped
  <2>4. QED
    BY <1>5, <2>2, <2>3
<1>6. QED
  BY <1>1, <1>3, <1>4, <1>5

LEMMA ContinueDecided ==
    ASSUME NEW w, NEW s, w.state = s, NEW key \in Keys \cup {Fresh}, NEW request,
           NEW e, e = decideContinueWorkflow(w, key, request)
    PROVE  /\ Decided(s, e)
           /\ e.reason = "completed" => /\ request.passes /\ request.final
                                        /\ s.step = "acceptance"
           /\ e.reason = "accepted" => s.step # "acceptance" /\ w.kind = "present"
<1>1. \/ e = NoPayload
      \/ /\ <<"continue", key>> \notin s.operations /\ w.kind = "present"
         /\ \/ e = Event("resumed", "continue", key)
            \/ e = Event("rejected", "continue", key)
            \/ e = Event("accepted", "continue", key) /\ s.step # "acceptance"
            \/ e = Event("completed", "continue", key) /\ s.step = "acceptance"
               /\ request.passes /\ request.final
  BY DEF decideContinueWorkflow, Refused, hasOperation, OpenUnderPolicy
<1>2. "continue" \in OperationKinds
  BY DEF OperationKinds
<1>3. CASE e = NoPayload
  BY <1>3, NothingDecided
<1>4. ASSUME <<"continue", key>> \notin s.operations,
             NEW reason \in {"resumed", "rejected", "accepted", "completed"},
             e = Event(reason, "continue", key)
      PROVE  Decided(s, e) /\ e.reason = reason
  <2>1. reason \in PlainReasons
    BY DEF PlainReasons
  <2>2. QED
    BY <1>2, <1>4, <2>1, PlainDecided, PlainReason, EventTyped
<1>5. QED
  BY <1>1, <1>3, <1>4

LEMMA FactDecided ==
    ASSUME NEW w, NEW s, w.state = s, NEW key \in Keys \cup {Fresh},
           NEW e, e = decideRecordFact(w, key)
    PROVE  Decided(s, e) /\ e.reason # "completed"
           /\ (e # NoPayload => w.kind = "present")
<1>1. \/ e = NoPayload
      \/ /\ <<"fact", key>> \notin s.operations /\ w.kind = "present"
         /\ e = Event("fact", "fact", key)
  BY DEF decideRecordFact, Refused, hasOperation, OpenUnderPolicy
<1>2. "fact" \in OperationKinds /\ "fact" \in PlainReasons
  BY DEF OperationKinds, PlainReasons
<1>3. CASE e = NoPayload
  BY <1>3, NothingDecided
<1>4. QED
  BY <1>1, <1>2, <1>3, PlainDecided, PlainReason, EventTyped

LEMMA ResolveDecided ==
    ASSUME NEW w, NEW s \in RunStates, w.state = s, NEW key \in Keys \cup {Fresh},
           NEW criterion \in Criteria, NEW next \in Runs \cup {NoRun},
           NEW e, e = decideResolveRepairStop(w, key, criterion, next)
    PROVE  Decided(s, e) /\ (e # NoPayload => e.reason = "resolved")
<1> DEFINE stop == CHOOSE st \in s.stops : st.criterion = criterion
           res == [criterion |-> criterion, class |-> stop.class, at |-> stop.at,
                   next |-> next, key |-> key]
           base == Event("resolved", "resolve", key)
<1>1. \/ e = NoPayload
      \/ /\ <<"resolve", key>> \notin s.operations
         /\ \E st \in s.stops : st.criterion = criterion
         /\ e = [base EXCEPT !.resolution = res]
  BY DEF decideResolveRepairStop, Refused, hasOperation
<1>2. CASE e = NoPayload
  BY <1>2, NothingDecided
<1>3. CASE /\ <<"resolve", key>> \notin s.operations
           /\ \E st \in s.stops : st.criterion = criterion
           /\ e = [base EXCEPT !.resolution = res]
  <2>1. stop \in s.stops /\ stop.criterion = criterion
    BY <1>3
  <2>2. stop \in Stops
    BY <2>1, StepTyped
  <2>3. res \in Resolutions /\ res.criterion = criterion /\ res.at = stop.at
    BY <2>2 DEF Stops, Resolutions
  <2>4. base \in Events /\ base.reason = "resolved" /\ base.kind = "resolve" /\ base.key = key
    <3>1. "resolved" \in Reasons /\ "resolve" \in OperationKinds
      BY DEF Reasons, OperationKinds
    <3>2. QED
      BY <3>1, EventTyped
  <2> HIDE DEF stop, res, base
  <2>5. /\ e \in Events /\ e.reason = "resolved" /\ e.kind = "resolve" /\ e.key = key
        /\ e.resolution = res
    BY <1>3, <2>3, <2>4 DEF Events
  <2>6. QED
    BY <1>3, <2>1, <2>3, <2>5 DEF Decided, NotRecorded, Grounded, AcceptanceReasons
<1>4. QED
  BY <1>1, <1>2, <1>3

LEMMA AcceptanceDecided ==
    ASSUME NEW s \in RunStates, NEW key \in Keys \cup {Fresh},
           NEW outcomes, NEW faults \in [Criteria -> Faults],
           <<"acceptance", key>> \notin s.operations,
           decideRepairLoop(s, outcomes, faults) # "refused",
           NEW e, e = AcceptanceEvent(s, key, outcomes, faults)
    PROVE  Decided(s, e) /\ e.reason \in AcceptanceReasons
<1> DEFINE decision == decideRepairLoop(s, outcomes, faults)
           reason == CASE decision = "passed" -> "acceptance.passed"
                       [] decision = "repair" -> "acceptance.repair"
                       [] OTHER               -> "stop_loss"
           attempts == [c \in Criteria |-> IF outcomes[c] = "failed" THEN s.attempts[c] + 1 ELSE 0]
           base == Event(reason, "acceptance", key)
<1>1. reason \in AcceptanceReasons /\ reason \in Reasons /\ "acceptance" \in OperationKinds
  BY DEF AcceptanceReasons, Reasons, OperationKinds
<1>2. attempts \in [Criteria -> Nat]
  BY DEF RunStates
<1>3. e = [base EXCEPT !.attempts = attempts, !.faults = faults]
  BY DEF AcceptanceEvent
<1>4. \A c \in Criteria : s.attempts[c] < s.ceiling
  <2>1. ~\E c \in Criteria : s.attempts[c] >= s.ceiling
    BY DEF decideRepairLoop
  <2>2. QED
    BY <2>1, StepTyped
<1> HIDE DEF reason, attempts
<1>5. base \in Events /\ base.reason = reason /\ base.kind = "acceptance" /\ base.key = key
  BY <1>1, EventTyped
<1> HIDE DEF base
<1>6. e \in Events /\ e.reason = reason /\ e.kind = "acceptance" /\ e.key = key
  BY <1>2, <1>3, <1>5 DEF Events
<1>7. QED
  BY <1>1, <1>4, <1>6 DEF Decided, NotRecorded, Grounded, AcceptanceReasons

-----------------------------------------------------------------------------
(* The plans. *)

\* A plan as its command leaves it: addressed to a run at the revision read.
Ready(plan) ==
    /\ plan \in Plans
    /\ plan.run \in Runs
    /\ plan.kind \in AppendKinds
    /\ plan.at = run[plan.run].revision
    /\ plan.kind = "verdict" => plan.tasks \in TaskDocuments
    /\ PlanCurrent(plan)

\* The step in which a command that will append decides.
Deciding(p) ==
    /\ spare' \in 0..MaxSpare
    /\ \E plan : Ready(plan) /\ Decide(p, plan)

LEMMA NoPlanTyped == NoPlan \in Plans /\ NoPlan.kind = "idle"
<1>1. NoPayload \in Events
  BY PayloadTyped
<1>2. <<>> \in Seq(Criteria) /\ NoVerdict \in [Criteria -> Outcomes]
  BY DEF NoVerdict, Outcomes
<1>3. [prd |-> 0, spec |-> 0] \in Versions
  BY BoundsAssumption DEF Versions
<1>4. QED
  BY <1>1, <1>2, <1>3 DEF NoPlan, Plans, Gates

LEMMA PlanForTyped ==
    ASSUME Typed, NEW r \in Runs, NEW e \in Events, NEW plan, plan = PlanFor(r, e)
    PROVE  /\ plan \in Plans
           /\ plan.kind = "event" /\ plan.run = r /\ plan.at = run[r].revision
           /\ plan.event = e /\ plan.next = NoRun /\ plan.freeze = <<>>
           /\ plan.docs = docs
<1> DEFINE at == run[r].revision
           measure == measured[r]
<1>1. at \in Nat /\ measure \in PhaseSet \cup {"none"} /\ docs \in Versions
  BY DEF Typed, TypeOK, RunStates
<1>2. plan = [NoPlan EXCEPT !.kind = "event", !.run = r, !.at = at, !.event = e,
                            !.docs = docs, !.measured = measure]
  BY DEF PlanFor
<1>3. NoPlan.next = NoRun /\ NoPlan.freeze = <<>>
  BY DEF NoPlan
<1> HIDE DEF at, measure
<1>4. plan \in Plans
  BY <1>1, <1>2, NoPlanTyped DEF Plans, AppendKinds
<1>5. /\ plan.kind = "event" /\ plan.run = r /\ plan.at = at
      /\ plan.event = e /\ plan.next = NoRun /\ plan.freeze = <<>> /\ plan.docs = docs
  BY <1>2, <1>3, NoPlanTyped DEF Plans
<1>6. QED
  BY <1>4, <1>5 DEF at

LEMMA PlainPlan ==
    ASSUME Typed, NEW r \in Runs, NEW e, Decided(run[r], e),
           e.reason = "completed" => ApprovedAt(r, run[r].revision)
    PROVE  Ready(PlanFor(r, e))
<1> DEFINE plan == PlanFor(r, e)
<1>1. e \in Events
  BY DEF Decided
<1>2. /\ plan \in Plans
      /\ plan.kind = "event" /\ plan.run = r /\ plan.at = run[r].revision
      /\ plan.event = e /\ plan.next = NoRun /\ plan.freeze = <<>>
  BY <1>1, PlanForTyped
<1> HIDE DEF plan
<1>3. PlanCurrent(plan)
  BY <1>2 DEF PlanCurrent, Decided, Freezes
<1>4. Ready(plan)
  BY <1>2, <1>3 DEF Ready, AppendKinds
<1>5. QED
  BY <1>4 DEF plan

LEMMA Spending == ASSUME TypeOK PROVE /\ Spend => spare' \in 0..MaxSpare
                                      /\ Free => spare' \in 0..MaxSpare
BY BoundsAssumption DEF TypeOK, Spend, Free

LEMMA Paying ==
    ASSUME TypeOK, NEW free, NEW r, NEW e, Pay(free, r, e)
    PROVE  spare' \in 0..MaxSpare
BY Spending DEF Pay

LEMMA TasksTyped ==
    ASSUME Typed
    PROVE  /\ tasks.declared \in Seq(Criteria)
           /\ tasks.checked \in SUBSET Criteria
           /\ TasksDigest(tasks.declared) \in Digests
<1>1. /\ tasks.declared \in {TaskLists[i] : i \in DOMAIN TaskLists}
      /\ tasks.checked \in SUBSET Criteria
  BY DEF Typed, TaskDocuments
<1>2. PICK i \in DOMAIN TaskLists : tasks.declared = TaskLists[i]
  BY <1>1
<1>3. DOMAIN TaskLists = 1..Len(TaskLists) /\ Len(TaskLists) \in Nat
  BY TaskListsAssumption
<1>4. (CHOOSE j \in DOMAIN TaskLists : TaskLists[j] = tasks.declared) \in DOMAIN TaskLists
  BY <1>2
<1>5. (CHOOSE j \in DOMAIN TaskLists : TaskLists[j] = tasks.declared) \in Nat
  BY <1>3, <1>4
<1>6. TasksDigest(tasks.declared) \in Digests
  BY <1>5, Phases DEF TasksDigest, Digests
<1>7. QED
  BY <1>1, <1>2, <1>6, TaskListsAssumption

LEMMA BaselineExtends ==
    ASSUME Typed, NEW r \in Runs
    PROVE  Baseline(r) \in Seq(Criteria) /\ Extends(Baseline(r), frozen[r])
<1>1. frozen[r] \in Seq(Criteria) /\ tasks.declared \in Seq(Criteria)
  BY TasksTyped DEF Typed, TypeOK
<1>2. CASE frozen[r] # <<>>
  <2>1. Baseline(r) = frozen[r]
    BY <1>2 DEF Baseline
  <2>2. QED
    BY <1>1, <2>1 DEF Extends
<1>3. CASE frozen[r] = <<>>
  <2>1. Baseline(r) \in Seq(Criteria)
    BY <1>1, <1>3 DEF Baseline, bootstrapSnapshot
  <2>2. QED
    BY <1>3, <2>1 DEF Extends
<1>4. QED
  BY <1>2, <1>3

LEMMA DocumentDigestsTyped ==
    ASSUME NEW v \in Versions PROVE DocumentDigests(v) \subseteq Digests
<1>1. v.prd \in Nat /\ v.spec \in Nat
  BY BoundsAssumption DEF Versions
<1>2. QED
  BY <1>1, Phases DEF DocumentDigests, Digests

LEMMA NodeTyped ==
    ASSUME Typed, NEW r \in Runs, NEW digest \in Digests
    PROVE  LineageNode(r, digest) \in SUBSET Nodes
<1>1. run[r].revision \in Nat /\ docs \in Versions
  BY DEF Typed, TypeOK, RunStates
<1>2. lineageParents(digest) \in SUBSET Digests
  BY <1>1, DocumentDigestsTyped DEF lineageParents
<1>3. QED
  BY <1>1, <1>2 DEF LineageNode, Nodes

LEMMA ArtifactsTyped ==
    ASSUME Typed, NEW r \in Runs, run[r].step # "none"
    PROVE  ArtifactsOf(r) \subseteq Digests
<1>1. /\ run[r].step \in PhaseSet /\ run[r].revision \in Nat
      /\ docs \in Versions /\ lineage[r] \in SUBSET Nodes
  BY DEF Typed, TypeOK, RunStates
<1>2. docs.prd \in Nat /\ docs.spec \in Nat
  BY <1>1, BoundsAssumption DEF Versions
<1>3. \A n \in lineage[r] : n.digest \in Digests
  BY <1>1 DEF Nodes
<1>4. QED
  BY <1>1, <1>2, <1>3, TasksTyped, Phases DEF ArtifactsOf, Digests

LEMMA CompletionReady ==
    ASSUME Typed, NEW r \in Runs, NEW e, Decided(run[r], e),
           e.reason = "completed" => ApprovedAt(r, run[r].revision),
           NEW digest \in Digests, NEW freeze \in Seq(Criteria),
           e.reason \in {"accepted", "completed"} /\ freeze # <<>> =>
             /\ Extends(freeze, frozen[r])
             /\ run[r].revision # 0
             /\ run[r].step \in {"plan", "code", "review", "acceptance"}
             /\ run[r].step = "plan" => e.reason = "accepted"
    PROVE  Ready(Completion(r, e, digest, freeze))
<1>1. CASE e.reason \notin {"accepted", "completed"}
  BY <1>1, PlainPlan DEF Completion
<1>2. CASE e.reason \in {"accepted", "completed"}
  <2> DEFINE base == PlanFor(r, e)
             node == LineageNode(r, digest)
             plan == [base EXCEPT !.node = node, !.freeze = freeze]
  <2>1. e \in Events /\ node \in SUBSET Nodes
    BY NodeTyped DEF Decided
  <2>2. /\ base \in Plans
        /\ base.kind = "event" /\ base.run = r /\ base.at = run[r].revision
        /\ base.event = e /\ base.next = NoRun
    BY <2>1, PlanForTyped
  <2>3. Completion(r, e, digest, freeze) = plan
    BY <1>2 DEF Completion
  <2> HIDE DEF base, node
  <2>4. plan \in Plans
    BY <2>1, <2>2 DEF Plans
  <2>5. /\ plan.kind = "event" /\ plan.run = r /\ plan.at = run[r].revision
        /\ plan.event = e /\ plan.next = NoRun /\ plan.freeze = freeze
    BY <2>2 DEF Plans
  <2> HIDE DEF plan
  <2>6. PlanCurrent(plan)
    BY <1>2, <2>5 DEF PlanCurrent, Decided, Freezes
  <2>7. QED
    BY <2>3, <2>4, <2>5, <2>6 DEF Ready, AppendKinds
<1>3. QED
  BY <1>1, <1>2

-----------------------------------------------------------------------------
(* Each command, up to its decision. *)

LEMMA AbsentIsSeed ==
    ASSUME RunsSound, NEW r \in Runs
    PROVE  /\ observeRun(r).state = run[r]
           /\ observeRun(r).kind \in {"absent", "present", "corrupt"}
           /\ observeRun(r).kind = "absent" => run[r].operations = {}
           /\ observeRun(r).kind = "present" => run[r].revision # 0
BY ObservedState, SeedIsFree DEF RunsSound, RunSound

LEMMA StateTyped == ASSUME Typed, NEW r \in Runs PROVE run[r] \in RunStates
BY DEF Typed, TypeOK

LEMMA StartDecides ==
    ASSUME Inv, NEW p \in Procs, NEW r \in Runs, NEW key \in Keys \cup {Fresh},
           start(p, r, key)
    PROVE  Deciding(p)
<1>1. PICK ceiling \in Ceilings :
         /\ Pay(decideStartWorkflow(observeRun(r), key, TRUE, ceiling).reason # "resumed", r,
                decideStartWorkflow(observeRun(r), key, TRUE, ceiling))
         /\ Decide(p, PlanFor(r, decideStartWorkflow(observeRun(r), key, TRUE, ceiling)))
  BY DEF start
<1> DEFINE e == decideStartWorkflow(observeRun(r), key, TRUE, ceiling)
<1>2. ceiling \in Nat /\ RunsSound /\ Typed
  BY CeilingAssumption DEF Inv
<1>3. Decided(run[r], e) /\ e.reason # "completed"
  BY <1>2, AbsentIsSeed, StartDecided
<1>4. Ready(PlanFor(r, e))
  BY <1>2, <1>3, PlainPlan
<1>5. spare' \in 0..MaxSpare
  BY <1>1, <1>2, Paying DEF Typed
<1>6. QED
  BY <1>1, <1>4, <1>5 DEF Deciding

LEMMA ContinueDecides ==
    ASSUME Inv, NEW p \in Procs, NEW r \in Runs, NEW key \in Keys \cup {Fresh},
           continueResume(p, r, key) \/ continueReject(p, r, key)
    PROVE  Deciding(p)
<1>1. PICK action \in {"resume", "reject"} :
         LET e == decideContinueWorkflow(observeRun(r), key,
                      [action |-> action, passes |-> TRUE, artifact |-> TRUE,
                       evidence |-> TRUE, final |-> FALSE])
         IN  Pay(FALSE, r, e) /\ Decide(p, PlanFor(r, e))
  BY DEF continueResume, continueReject
<1> DEFINE request == [action |-> action, passes |-> TRUE, artifact |-> TRUE,
                       evidence |-> TRUE, final |-> FALSE]
           e == decideContinueWorkflow(observeRun(r), key, request)
<1>2. Pay(FALSE, r, e) /\ Decide(p, PlanFor(r, e))
  BY <1>1
<1>3. RunsSound /\ Typed /\ request.final = FALSE
  BY DEF Inv
<1> HIDE DEF request
<1>4. Decided(run[r], e) /\ e.reason # "completed"
  BY <1>3, AbsentIsSeed, ContinueDecided
<1>5. Ready(PlanFor(r, e))
  BY <1>3, <1>4, PlainPlan
<1>6. spare' \in 0..MaxSpare
  BY <1>2, <1>3, Paying DEF Typed
<1>7. QED
  BY <1>2, <1>5, <1>6 DEF Deciding

LEMMA CompleteDecides ==
    ASSUME Inv, NEW p \in Procs, NEW r \in Runs, NEW key \in Keys \cup {Fresh},
           continueComplete(p, r, key)
    PROVE  Deciding(p)
<1> DEFINE freeze == CASE run[r].step = "plan" -> tasks.declared
                       [] run[r].step \in {"code", "review"} -> Baseline(r)
                       [] OTHER -> <<>>
           request(digest) == [action |-> "complete", passes |-> evaluateGates(r),
                               artifact |-> digest.version # 0,
                               evidence |-> observeEvidence(r), final |-> FALSE]
           e(digest) == decideContinueWorkflow(observeRun(r), key, request(digest))
<1>1. run[r].step # "none" /\ RunsSound /\ Typed /\ FrozenSound
  BY DEF continueComplete, Inv
<1>2. PICK digest \in ArtifactsOf(r) :
         /\ Pay(e(digest).reason = "accepted", r, e(digest))
         /\ Decide(p, Completion(r, e(digest), digest, freeze))
  BY DEF continueComplete
<1>3. digest \in Digests
  BY <1>1, <1>2, ArtifactsTyped
<1>4. request(digest).final = FALSE
  OBVIOUS
<1> HIDE DEF request
<1>5. /\ Decided(run[r], e(digest)) /\ e(digest).reason # "completed"
      /\ e(digest).reason = "accepted" => observeRun(r).kind = "present"
  <2> DEFINE w == observeRun(r)
             q == request(digest)
             f == decideContinueWorkflow(w, key, q)
  <2>1. w.state = run[r] /\ q.final = FALSE
    BY <1>1, <1>4, AbsentIsSeed
  <2> HIDE DEF w, q
  <2>2. /\ Decided(run[r], f) /\ f.reason # "completed"
        /\ f.reason = "accepted" => w.kind = "present"
    BY <2>1, ContinueDecided
  <2>3. QED
    BY <2>2 DEF w, q
<1> HIDE DEF e
<1>6. freeze \in Seq(Criteria)
  BY <1>1, BaselineExtends, TasksTyped
<1>7. e(digest).reason = "accepted" /\ freeze # <<>> =>
        /\ Extends(freeze, frozen[r])
        /\ run[r].revision # 0
        /\ run[r].step \in {"plan", "code", "review", "acceptance"}
  <2>1. SUFFICES ASSUME e(digest).reason = "accepted", freeze # <<>>
                 PROVE  /\ Extends(freeze, frozen[r])
                        /\ run[r].revision # 0
                        /\ run[r].step \in {"plan", "code", "review", "acceptance"}
    OBVIOUS
  <2>2. run[r].step \in {"plan", "code", "review"}
    BY <2>1
  <2>3. run[r].revision # 0
    BY <1>1, <1>5, <2>1, AbsentIsSeed
  <2>4. CASE run[r].step = "plan"
    <3>1. frozen[r] = <<>> /\ freeze \in Seq(Criteria)
      BY <1>1, <1>6, <2>4 DEF FrozenSound
    <3>2. QED
      BY <2>3, <2>4, <3>1 DEF Extends
  <2>5. CASE run[r].step \in {"code", "review"}
    BY <1>1, <2>3, <2>5, BaselineExtends
  <2>6. QED
    BY <2>2, <2>4, <2>5
<1> HIDE DEF freeze
<1>8. Ready(Completion(r, e(digest), digest, freeze))
  BY <1>1, <1>3, <1>5, <1>6, <1>7, CompletionReady
<1>9. spare' \in 0..MaxSpare
  BY <1>1, <1>2, Paying DEF Typed
<1>10. QED
  BY <1>2, <1>8, <1>9 DEF Deciding

LEMMA DoneDecides ==
    ASSUME Inv, NEW p \in Procs, NEW r \in Runs, NEW key \in Keys \cup {Fresh},
           done(p, r, key)
    PROVE  Deciding(p)
<1> DEFINE request == [action |-> "complete", passes |-> decideDone(r), artifact |-> TRUE,
                       evidence |-> observeEvidence(r), final |-> TRUE]
           e == decideContinueWorkflow(observeRun(r), key, request)
<1>1. run[r].step # "none" /\ RunsSound /\ Typed
  BY DEF done, Inv
<1>2. PICK digest \in ArtifactsOf(r) :
         /\ Pay(e.reason = "completed", r, e)
         /\ Decide(p, Completion(r, e, digest, <<>>))
  BY DEF done
<1>3. digest \in Digests /\ <<>> \in Seq(Criteria)
  BY <1>1, <1>2, ArtifactsTyped
<1>4. request.passes = decideDone(r)
  OBVIOUS
<1> HIDE DEF request
<1>5. Decided(run[r], e) /\ (e.reason = "completed" => decideDone(r))
  BY <1>1, <1>4, AbsentIsSeed, ContinueDecided
<1> HIDE DEF e
<1>6. e.reason = "completed" => ApprovedAt(r, run[r].revision)
  BY <1>5 DEF decideDone, validApproval, approvalRevision, ApprovedAt
<1>7. Ready(Completion(r, e, digest, <<>>))
  BY <1>1, <1>3, <1>5, <1>6, CompletionReady
<1>8. spare' \in 0..MaxSpare
  BY <1>1, <1>2, Paying DEF Typed
<1>9. QED
  BY <1>2, <1>7, <1>8 DEF Deciding

LEMMA AgentRecordDecides ==
    ASSUME Inv, NEW p \in Procs, NEW r \in Runs, NEW key \in Keys \cup {Fresh},
           agentRecord(p, r, key)
    PROVE  Deciding(p)
<1> DEFINE e == decideRecordFact(observeRun(r), key)
           freeze == IF run[r].step \in {"code", "review"} THEN Baseline(r) ELSE <<>>
           base == PlanFor(r, e)
           plan == [base EXCEPT !.freeze = freeze]
<1>1. Pay(FALSE, r, e) /\ Decide(p, plan) /\ RunsSound /\ Typed
  BY DEF agentRecord, Inv
<1>2. /\ Decided(run[r], e) /\ e.reason # "completed"
      /\ e # NoPayload => run[r].revision # 0
  BY <1>1, AbsentIsSeed, FactDecided
<1>3. freeze \in Seq(Criteria) /\ Extends(Baseline(r), frozen[r])
  BY <1>1, BaselineExtends
<1>4. /\ base \in Plans
      /\ base.kind = "event" /\ base.run = r /\ base.at = run[r].revision
      /\ base.event = e /\ base.next = NoRun
  BY <1>1, <1>2, PlanForTyped DEF Decided
<1> HIDE DEF base, e
<1>5. /\ plan \in Plans
      /\ plan.kind = "event" /\ plan.run = r /\ plan.at = run[r].revision
      /\ plan.event = e /\ plan.next = NoRun /\ plan.freeze = freeze
  <2> HIDE DEF freeze
  <2>1. plan \in Plans
    BY <1>3, <1>4 DEF Plans
  <2>2. QED
    BY <1>4, <2>1 DEF Plans
<1>6. e # NoPayload
  BY <1>1, <1>5 DEF Decide
<1> HIDE DEF plan
<1>7. Freezes(plan)
  BY <1>2, <1>3, <1>5, <1>6 DEF Freezes
<1>8. PlanCurrent(plan)
  BY <1>2, <1>5, <1>7 DEF PlanCurrent, Decided
<1>9. Ready(plan)
  BY <1>5, <1>8 DEF Ready, AppendKinds
<1>10. spare' \in 0..MaxSpare
  BY <1>1, Paying DEF Typed
<1>11. QED
  BY <1>1, <1>9, <1>10 DEF Deciding

LEMMA GateFactDecides ==
    ASSUME Inv, NEW p \in Procs, NEW r \in Runs, NEW key \in Keys \cup {Fresh},
           recordGateFact(p, r, key)
    PROVE  Deciding(p)
<1> DEFINE e == decideRecordFact(observeRun(r), key)
           base == PlanFor(r, e)
           facts == ~factsClear
           plan == [base EXCEPT !.kind = "fact", !.facts = facts]
<1>1. Pay(FALSE, r, e) /\ Decide(p, plan) /\ RunsSound /\ Typed
  BY DEF recordGateFact, Inv
<1>2. Decided(run[r], e) /\ e.reason # "completed"
  BY <1>1, AbsentIsSeed, FactDecided
<1>3. facts \in BOOLEAN
  OBVIOUS
<1>4. /\ base \in Plans
      /\ base.run = r /\ base.at = run[r].revision
      /\ base.event = e /\ base.next = NoRun /\ base.freeze = <<>>
  BY <1>1, <1>2, PlanForTyped DEF Decided
<1> HIDE DEF base, e, facts
<1>5. /\ plan \in Plans
      /\ plan.kind = "fact" /\ plan.run = r /\ plan.at = run[r].revision
      /\ plan.event = e /\ plan.next = NoRun /\ plan.freeze = <<>>
  <2>1. plan \in Plans
    BY <1>3, <1>4 DEF Plans, AppendKinds
  <2>2. QED
    BY <1>4, <2>1 DEF Plans
<1> HIDE DEF plan
<1>6. PlanCurrent(plan)
  BY <1>2, <1>5 DEF PlanCurrent, Decided, Freezes
<1>7. Ready(plan)
  BY <1>5, <1>6 DEF Ready, AppendKinds
<1>8. spare' \in 0..MaxSpare
  BY <1>1, Paying DEF Typed
<1>9. QED
  BY <1>1, <1>7, <1>8 DEF Deciding

LEMMA AppendExtends ==
    ASSUME Typed, NEW r \in Runs,
           NEW change,
           change = compareCriteriaSnapshot("acceptance", Baseline(r), tasks, verdict[r]),
           change # "refused",
           NEW freeze, freeze = IF change = "append" THEN tasks.declared ELSE Baseline(r)
    PROVE  freeze \in Seq(Criteria) /\ Extends(freeze, frozen[r])
<1> DEFINE base == Baseline(r)
<1>1. /\ base \in Seq(Criteria) /\ Extends(base, frozen[r])
      /\ tasks.declared \in Seq(Criteria) /\ frozen[r] \in Seq(Criteria)
  BY BaselineExtends, TasksTyped DEF Typed, TypeOK
<1> HIDE DEF base
<1>2. Len(base) <= Len(tasks.declared) /\ \A i \in 1..Len(base) : tasks.declared[i] = base[i]
  BY DEF compareCriteriaSnapshot, base
<1>3. Extends(tasks.declared, frozen[r])
  BY <1>1, <1>2 DEF Extends
<1>4. QED
  BY <1>1, <1>3 DEF base

LEMMA AcceptanceDecides ==
    ASSUME Inv, NEW p \in Procs, NEW r \in Runs, NEW key \in Keys \cup {Fresh},
           recordAcceptance(p, r, key)
    PROVE  Deciding(p)
<1> DEFINE change == compareCriteriaSnapshot("acceptance", Baseline(r), tasks, verdict[r])
           e(rep) == AcceptanceEvent(run[r], key, rep.outcomes, rep.faults)
           base(rep) == PlanFor(r, e(rep))
           freeze == IF change = "append" THEN tasks.declared ELSE Baseline(r)
           ticked(rep) == [declared |-> tasks.declared, checked |-> PassedBy(rep.outcomes)]
           plan(rep) == [base(rep) EXCEPT !.kind = "verdict", !.verdict = rep.outcomes,
                                          !.freeze = freeze, !.tasks = ticked(rep)]
<1>1. /\ observeRun(r).kind = "present" /\ run[r].step = "acceptance" /\ change # "refused"
      /\ <<"acceptance", key>> \notin run[r].operations
      /\ RunsSound /\ Typed
  BY ObservedState DEF recordAcceptance, hasOperation, Inv
<1>2. PICK rep \in Reports :
        /\ decideRepairLoop(run[r], rep.outcomes, rep.faults) # "refused"
        /\ spare' \in 0..MaxSpare
        /\ Decide(p, VerdictPlan(r, key, rep, change))
  BY <1>1, Paying DEF recordAcceptance, Typed
<1>3. VerdictPlan(r, key, rep, change) = plan(rep)
  BY DEF VerdictPlan
<1>4. rep.outcomes \in [Criteria -> Outcomes] /\ rep.faults \in [Criteria -> Faults]
  BY <1>2 DEF Reports
<1>5. Decided(run[r], e(rep)) /\ e(rep).reason \in AcceptanceReasons
  BY <1>1, <1>2, <1>4, StateTyped, AcceptanceDecided
<1>6. freeze \in Seq(Criteria) /\ Extends(freeze, frozen[r])
  BY <1>1, AppendExtends
<1>7. ticked(rep) \in TaskDocuments
  BY <1>1 DEF Typed, TaskDocuments, PassedBy
<1>8. ticked(rep) \in [declared : Seq(Criteria), checked : SUBSET Criteria]
  BY <1>1, TasksTyped DEF PassedBy
<1>9. /\ base(rep) \in Plans
      /\ base(rep).run = r /\ base(rep).at = run[r].revision
      /\ base(rep).event = e(rep) /\ base(rep).next = NoRun
  BY <1>1, <1>5, PlanForTyped DEF Decided
<1> HIDE DEF base, e, freeze, ticked, change
<1>10. /\ plan(rep) \in Plans
       /\ plan(rep).kind = "verdict" /\ plan(rep).run = r /\ plan(rep).at = run[r].revision
       /\ plan(rep).event = e(rep) /\ plan(rep).next = NoRun
       /\ plan(rep).freeze = freeze /\ plan(rep).tasks = ticked(rep)
  <2>1. plan(rep) \in Plans
    BY <1>4, <1>6, <1>8, <1>9 DEF Plans, AppendKinds
  <2>2. QED
    BY <1>9, <2>1 DEF Plans
<1> HIDE DEF plan
<1>11. run[r].revision # 0
  BY <1>1, AbsentIsSeed
<1>12. Freezes(plan(rep))
  BY <1>1, <1>6, <1>10, <1>11 DEF Freezes
<1>13. PlanCurrent(plan(rep))
  BY <1>5, <1>10, <1>12 DEF PlanCurrent, Decided, AcceptanceReasons
<1>14. Ready(plan(rep))
  BY <1>7, <1>10, <1>13 DEF Ready, AppendKinds
<1>15. QED
  BY <1>2, <1>3, <1>14 DEF Deciding

LEMMA ResolveDecides ==
    ASSUME Inv, NEW p \in Procs, NEW r \in Runs, NEW key \in Keys \cup {Fresh},
           NEW criterion \in Criteria, NEW next \in Runs \cup {NoRun},
           repairResolve(p, r, criterion, next, key)
    PROVE  Deciding(p)
<1> DEFINE e == decideResolveRepairStop(observeRun(r), key, criterion, next)
           base == PlanFor(r, e)
           plan(c) == [base EXCEPT !.next = next, !.ceiling = c]
<1>1. PICK ceiling \in IF next = NoRun THEN {0} ELSE Ceilings :
        Pay(TRUE, r, e) /\ Decide(p, plan(ceiling))
  BY DEF repairResolve
<1>2. ceiling \in Nat /\ RunsSound /\ Typed
  BY <1>1, CeilingAssumption DEF Inv
<1>3. Decided(run[r], e) /\ (e # NoPayload => e.reason = "resolved")
  BY <1>2, AbsentIsSeed, StateTyped, ResolveDecided
<1>4. /\ base \in Plans /\ base.kind = "event"
      /\ base.run = r /\ base.at = run[r].revision
      /\ base.event = e /\ base.freeze = <<>>
  BY <1>2, <1>3, PlanForTyped DEF Decided
<1> HIDE DEF base, e
<1>5. /\ plan(ceiling) \in Plans
      /\ plan(ceiling).kind = "event" /\ plan(ceiling).run = r
      /\ plan(ceiling).at = run[r].revision
      /\ plan(ceiling).event = e /\ plan(ceiling).freeze = <<>>
  <2>1. plan(ceiling) \in Plans
    BY <1>2, <1>4 DEF Plans
  <2>2. QED
    BY <1>4, <2>1 DEF Plans
<1>6. e # NoPayload
  BY <1>1, <1>5 DEF Decide
<1> HIDE DEF plan
<1>7. PlanCurrent(plan(ceiling))
  BY <1>3, <1>5, <1>6 DEF PlanCurrent, Decided, Freezes
<1>8. Ready(plan(ceiling))
  BY <1>5, <1>7 DEF Ready, AppendKinds
<1>9. spare' \in 0..MaxSpare
  BY <1>1, <1>2, Paying DEF Typed
<1>10. QED
  BY <1>1, <1>8, <1>9 DEF Deciding

-----------------------------------------------------------------------------
(* The steps. *)

\* What a step may do to the recorded runs and to the frozen criteria.
StepSafe ==
    \A r \in Runs : HeldStep(run[r], run'[r]) /\ Extends(frozen'[r], frozen[r])

LEMMA StillSafe ==
    ASSUME Inv, run' = run, frozen' = frozen
    PROVE  StepSafe
<1>1. SUFFICES ASSUME NEW r \in Runs
               PROVE  HeldStep(run[r], run[r]) /\ Extends(frozen[r], frozen[r])
  BY DEF StepSafe
<1>2. frozen[r] \in Seq(Criteria) /\ RunSound(run[r])
  BY DEF Inv, Typed, TypeOK, RunsSound
<1>3. QED
  BY <1>2 DEF HeldStep, Extends, RunSound

\* A step that leaves the runs, their frozen criteria and the plans alone.
LEMMA PlansStay ==
    ASSUME Inv, Typed', run' = run, frozen' = frozen, delivered' = delivered,
           approvals \subseteq approvals',
           \A p \in Procs : cmd'[p] = cmd[p] \/ cmd'[p].kind \notin AppendKinds
    PROVE  Inv' /\ StepSafe
<1>1. RunsSound' /\ FrozenSound' /\ CountedOnce'
  BY DEF Inv, RunsSound, FrozenSound, CountedOnce
<1>2. CompletedIsApproved'
  BY DEF Inv, CompletedIsApproved
<1>3. ASSUME NEW p \in Procs, cmd'[p].kind \in AppendKinds
      PROVE  /\ cmd'[p].at <= run'[cmd'[p].run].revision
             /\ cmd'[p].at = run'[cmd'[p].run].revision => PlanCurrent(cmd[p])'
  <2>1. cmd'[p] = cmd[p]
    BY <1>3
  <2>2. /\ cmd[p].at <= run[cmd[p].run].revision
        /\ cmd[p].at = run[cmd[p].run].revision => PlanCurrent(cmd[p])
    BY <1>3, <2>1 DEF Inv, PlansSound
  <2>3. PlanCurrent(cmd[p]) => PlanCurrent(cmd[p])'
    BY <2>1 DEF PlanCurrent, Freezes, ApprovedAt
  <2>4. QED
    BY <2>1, <2>2, <2>3
<1>4. PlansSound'
  BY <1>3 DEF PlansSound
<1>5. QED
  BY <1>1, <1>2, <1>4, StillSafe DEF Inv

LEMMA DecideStep ==
    ASSUME Inv, NEW p \in Procs, Deciding(p)
    PROVE  Inv' /\ StepSafe
<1>1. PICK plan : Ready(plan) /\ Decide(p, plan)
  BY DEF Deciding
<1>2. /\ run' = run /\ snapshot' = snapshot /\ activeRun' = activeRun
      /\ delivered' = delivered /\ docs' = docs /\ tasks' = tasks /\ sealed' = sealed
      /\ approvals' = approvals /\ evidence' = evidence /\ frozen' = frozen
      /\ verdict' = verdict /\ lineage' = lineage /\ measured' = measured
      /\ factsClear' = factsClear
      /\ cmd' = [cmd EXCEPT ![p] = plan]
  BY <1>1 DEF Decide, files
<1>3. cmd \in [Procs -> Plans] /\ cmd' \in [Procs -> Plans]
  BY <1>1, <1>2 DEF Inv, Typed, Ready
<1>4. /\ cmd'[p] = plan
      /\ \A q \in Procs : q # p => cmd'[q] = cmd[q]
  BY <1>2, <1>3
<1>5. TypeOK'
  BY <1>2, <1>3 DEF Inv, Typed, TypeOK, Deciding
<1>6. Typed'
  <2>1. tasks' \in TaskDocuments /\ lineage' \in [Runs -> SUBSET Nodes]
    BY <1>2 DEF Inv, Typed
  <2>2. \A q \in Procs :
          /\ cmd'[q].kind # "idle" => cmd'[q].run \in Runs
          /\ cmd'[q].kind = "verdict" => cmd'[q].tasks \in TaskDocuments
    BY <1>1, <1>4 DEF Inv, Typed, Ready
  <2>3. QED
    BY <1>3, <1>5, <2>1, <2>2 DEF Typed, TaskDocuments
<1>7. RunsSound' /\ FrozenSound' /\ CountedOnce' /\ CompletedIsApproved'
  BY <1>2 DEF Inv, RunsSound, FrozenSound, CountedOnce, CompletedIsApproved
<1>8. ASSUME NEW q \in Procs, cmd'[q].kind \in AppendKinds
      PROVE  /\ cmd'[q].at <= run'[cmd'[q].run].revision
             /\ cmd'[q].at = run'[cmd'[q].run].revision => PlanCurrent(cmd[q])'
  <2>1. CASE q = p
    <3>1. /\ cmd'[q] = plan /\ plan.run \in Runs
          /\ plan.at = run[plan.run].revision /\ PlanCurrent(plan)
      BY <1>1, <1>4, <2>1 DEF Ready
    <3>2. PlanCurrent(cmd[q])'
      BY <1>2, <3>1 DEF PlanCurrent, Freezes, ApprovedAt
    <3>3. plan.at \in Nat
      BY <1>1 DEF Ready, Plans
    <3>4. QED
      BY <1>2, <3>1, <3>2, <3>3
  <2>2. CASE q # p
    <3>1. cmd'[q] = cmd[q]
      BY <1>4, <2>2
    <3>2. /\ cmd[q].at <= run[cmd[q].run].revision
          /\ cmd[q].at = run[cmd[q].run].revision => PlanCurrent(cmd[q])
      BY <1>8, <3>1 DEF Inv, PlansSound
    <3>3. PlanCurrent(cmd[q]) => PlanCurrent(cmd[q])'
      BY <1>2, <3>1 DEF PlanCurrent, Freezes, ApprovedAt
    <3>4. QED
      BY <1>2, <3>1, <3>2, <3>3
  <2>3. QED
    BY <2>1, <2>2
<1>9. PlansSound'
  BY <1>8 DEF PlansSound
<1>10. QED
  BY <1>2, <1>6, <1>7, <1>9, StillSafe DEF Inv

\* A command that plans no event, gives up, or finishes.
LEMMA CmdTyped ==
    ASSUME Typed, NEW p \in Procs, NEW plan \in Plans, cmd' = [cmd EXCEPT ![p] = plan],
           plan.kind # "idle" => plan.run \in Runs, plan.kind \notin AppendKinds
    PROVE  /\ cmd' \in [Procs -> Plans]
           /\ \A q \in Procs :
                /\ cmd'[q] = cmd[q] \/ cmd'[q].kind \notin AppendKinds
                /\ cmd'[q].kind # "idle" => cmd'[q].run \in Runs
                /\ cmd'[q].kind = "verdict" => cmd'[q].tasks \in TaskDocuments
<1>1. cmd \in [Procs -> Plans]
  BY DEF Typed
<1>2. /\ cmd' \in [Procs -> Plans] /\ cmd'[p] = plan
      /\ \A q \in Procs : q # p => cmd'[q] = cmd[q]
  BY <1>1
<1>3. QED
  BY <1>2 DEF Typed, AppendKinds

LEMMA ApprovalStep ==
    ASSUME Inv, NEW p \in Procs, NEW r \in Runs, NEW gate \in Gates, recordApproval(p, r, gate)
    PROVE  Inv' /\ StepSafe
<1> DEFINE base == PlanFor(r, NoPayload)
           plan == [base EXCEPT !.kind = "approval", !.gate = gate]
<1>1. Typed /\ TypeOK
  BY DEF Inv, Typed
<1>2. base \in Plans /\ base.run = r
  BY <1>1, PayloadTyped, PlanForTyped
<1>3. /\ run' = run /\ snapshot' = snapshot /\ activeRun' = activeRun
      /\ delivered' = delivered /\ docs' = docs /\ tasks' = tasks /\ sealed' = sealed
      /\ approvals' = approvals /\ evidence' = evidence /\ frozen' = frozen
      /\ verdict' = verdict /\ lineage' = lineage /\ measured' = measured
      /\ factsClear' = factsClear
      /\ cmd' = [cmd EXCEPT ![p] = plan]
      /\ spare' \in 0..MaxSpare
  BY <1>1, Spending DEF recordApproval, files
<1> HIDE DEF base
<1>4. plan \in Plans /\ plan.run = r /\ plan.kind = "approval"
  <2>1. plan \in Plans
    BY <1>2 DEF Plans
  <2>2. QED
    BY <1>2, <2>1 DEF Plans
<1> HIDE DEF plan
<1>5. plan.kind \notin AppendKinds
  BY <1>4 DEF AppendKinds
<1>6. /\ cmd' \in [Procs -> Plans]
      /\ \A q \in Procs :
           /\ cmd'[q] = cmd[q] \/ cmd'[q].kind \notin AppendKinds
           /\ cmd'[q].kind # "idle" => cmd'[q].run \in Runs
           /\ cmd'[q].kind = "verdict" => cmd'[q].tasks \in TaskDocuments
  BY <1>1, <1>3, <1>4, <1>5, CmdTyped
<1>7. Typed'
  BY <1>1, <1>3, <1>6 DEF Typed, TypeOK, TaskDocuments
<1>8. QED
  BY <1>3, <1>6, <1>7, PlansStay

LEMMA RepairPlanStep ==
    ASSUME Inv, NEW p \in Procs, NEW r \in Runs, planSnapshotRepair(p, r)
    PROVE  Inv' /\ StepSafe
<1> DEFINE base == PlanFor(r, NoPayload)
           plan == [base EXCEPT !.kind = "repair"]
<1>1. Typed /\ TypeOK
  BY DEF Inv, Typed
<1>2. base \in Plans /\ base.run = r
  BY <1>1, PayloadTyped, PlanForTyped
<1>3. /\ run' = run /\ snapshot' = snapshot /\ activeRun' = activeRun
      /\ delivered' = delivered /\ docs' = docs /\ tasks' = tasks /\ sealed' = sealed
      /\ approvals' = approvals /\ evidence' = evidence /\ frozen' = frozen
      /\ verdict' = verdict /\ lineage' = lineage /\ measured' = measured
      /\ factsClear' = factsClear
      /\ cmd' = [cmd EXCEPT ![p] = plan]
      /\ spare' = spare
  BY DEF planSnapshotRepair, files, Free
<1> HIDE DEF base
<1>4. plan \in Plans /\ plan.run = r /\ plan.kind = "repair"
  <2>1. plan \in Plans
    BY <1>2 DEF Plans
  <2>2. QED
    BY <1>2, <2>1 DEF Plans
<1> HIDE DEF plan
<1>5. plan.kind \notin AppendKinds
  BY <1>4 DEF AppendKinds
<1>6. /\ cmd' \in [Procs -> Plans]
      /\ \A q \in Procs :
           /\ cmd'[q] = cmd[q] \/ cmd'[q].kind \notin AppendKinds
           /\ cmd'[q].kind # "idle" => cmd'[q].run \in Runs
           /\ cmd'[q].kind = "verdict" => cmd'[q].tasks \in TaskDocuments
  BY <1>1, <1>3, <1>4, <1>5, CmdTyped
<1>7. Typed'
  BY <1>1, <1>3, <1>6 DEF Typed, TypeOK, TaskDocuments
<1>8. QED
  BY <1>3, <1>6, <1>7, PlansStay

LEMMA Dismissed ==
    ASSUME Typed, NEW p \in Procs, Done(p)
    PROVE  /\ cmd' \in [Procs -> Plans]
           /\ cmd'[p] = NoPlan /\ \A q \in Procs : q # p => cmd'[q] = cmd[q]
           /\ \A q \in Procs :
                /\ cmd'[q] = cmd[q] \/ cmd'[q].kind \notin AppendKinds
                /\ cmd'[q].kind # "idle" => cmd'[q].run \in Runs
                /\ cmd'[q].kind = "verdict" => cmd'[q].tasks \in TaskDocuments
<1>1. NoPlan.kind \notin AppendKinds
  BY NoPlanTyped DEF AppendKinds
<1>2. cmd \in [Procs -> Plans]
  BY DEF Typed
<1>3. QED
  BY <1>1, <1>2, NoPlanTyped, CmdTyped DEF Done

LEMMA RefuseStep ==
    ASSUME Inv, NEW p \in Procs, refuse(p)
    PROVE  Inv' /\ StepSafe
<1>1. Typed /\ Done(p)
  BY DEF Inv, refuse
<1>2. /\ run' = run /\ snapshot' = snapshot /\ activeRun' = activeRun
      /\ delivered' = delivered /\ docs' = docs /\ tasks' = tasks /\ sealed' = sealed
      /\ approvals' = approvals /\ evidence' = evidence /\ frozen' = frozen
      /\ verdict' = verdict /\ lineage' = lineage /\ measured' = measured
      /\ factsClear' = factsClear /\ spare' = spare
  BY DEF refuse, files
<1>3. Typed'
  BY <1>1, <1>2, Dismissed DEF Typed, TypeOK, TaskDocuments
<1>4. QED
  BY <1>1, <1>2, <1>3, Dismissed, PlansStay

LEMMA CommitApprovalStep ==
    ASSUME Inv, NEW p \in Procs, commitApproval(p)
    PROVE  Inv' /\ StepSafe
<1> DEFINE plan == cmd[p]
           granted == [run |-> plan.run, gate |-> plan.gate, docs |-> plan.docs,
                       revision |-> approvalRevision(plan.gate, plan.at)]
<1>1. Typed /\ Done(p)
  BY DEF Inv, commitApproval
<1>2. /\ run' = run /\ snapshot' = snapshot /\ activeRun' = activeRun
      /\ delivered' = delivered /\ docs' = docs /\ tasks' = tasks /\ sealed' = sealed
      /\ approvals' = approvals \cup {granted} /\ evidence' = evidence
      /\ frozen' = frozen /\ verdict' = verdict /\ lineage' = lineage
      /\ measured' = measured /\ factsClear' = factsClear /\ spare' = spare
  BY DEF commitApproval
<1>3. granted \in Approvals
  <2>1. plan \in Plans /\ plan.run \in Runs
    BY <1>1 DEF Typed, commitApproval
  <2>2. approvalRevision(plan.gate, plan.at) \in Nat
    BY <2>1 DEF approvalRevision, Plans
  <2>3. QED
    BY <2>1, <2>2 DEF Approvals, Plans
<1> HIDE DEF granted
<1>4. Typed'
  BY <1>1, <1>2, <1>3, Dismissed DEF Typed, TypeOK, TaskDocuments
<1>5. QED
  BY <1>1, <1>2, <1>4, Dismissed, PlansStay

LEMMA CommitRepairStep ==
    ASSUME Inv, NEW p \in Procs, commitRepair(p)
    PROVE  Inv' /\ StepSafe
<1>1. Typed /\ Done(p)
  BY DEF Inv, commitRepair
<1>2. /\ run' = run /\ activeRun' = activeRun
      /\ snapshot' = [snapshot EXCEPT ![cmd[p].run] = "consistent"]
      /\ delivered' = delivered /\ docs' = docs /\ tasks' = tasks /\ sealed' = sealed
      /\ approvals' = approvals /\ evidence' = evidence /\ frozen' = frozen
      /\ verdict' = verdict /\ lineage' = lineage /\ measured' = measured
      /\ factsClear' = factsClear /\ spare' = spare
  BY DEF commitRepair, files
<1>3. Typed'
  BY <1>1, <1>2, Dismissed DEF Typed, TypeOK, TaskDocuments
<1>4. QED
  BY <1>1, <1>2, <1>3, Dismissed, PlansStay

LEMMA SurroundingsStep ==
    ASSUME Inv, Surroundings
    PROVE  Inv' /\ StepSafe
<1>1. Typed /\ TypeOK
  BY DEF Inv, Typed
<1>2. /\ run' = run /\ frozen' = frozen /\ delivered' = delivered
      /\ approvals' = approvals /\ cmd' = cmd
  BY DEF Surroundings, editDocs, editTasks, recordEvidence, editEvidence, tamper,
         phaseStart, sessionEnd, files
<1>3. Typed'
  <2>1. CASE editDocs
    BY <1>1, <2>1, Spending DEF Typed, TypeOK, TaskDocuments, editDocs
  <2>2. CASE editTasks
    <3>1. PICK i \in DOMAIN TaskLists :
            \E checked \in SUBSET {TaskLists[i][j] : j \in 1..Len(TaskLists[i])} :
               tasks' = [declared |-> TaskLists[i], checked |-> checked]
      BY <2>2 DEF editTasks
    <3>2. TaskLists[i] \in Seq(Criteria)
      BY <3>1, TaskListsAssumption
    <3>3. tasks' \in TaskDocuments
      BY <3>1, <3>2 DEF TaskDocuments
    <3>4. tasks'.declared \in Seq(Criteria) /\ tasks'.checked \subseteq Criteria
      BY <3>1, <3>2
    <3>5. QED
      BY <1>1, <1>2, <2>2, <3>3, <3>4, Spending DEF Typed, TypeOK, TaskDocuments, editTasks
  <2>3. ASSUME NEW r \in Runs, recordEvidence(r) PROVE Typed'
    BY <1>1, <2>3, Spending DEF Typed, TypeOK, TaskDocuments, recordEvidence
  <2>4. ASSUME NEW r \in Runs, editEvidence(r) PROVE Typed'
    BY <1>1, <2>4, Spending DEF Typed, TypeOK, TaskDocuments, editEvidence
  <2>5. ASSUME NEW r \in Runs, tamper(r) PROVE Typed'
    BY <1>1, <2>5, Spending DEF Typed, TypeOK, TaskDocuments, tamper, files
  <2>6. ASSUME NEW r \in Runs, phaseStart(r) PROVE Typed'
    <3>1. run[r].step \in PhaseSet
      BY <1>1, <2>6, StateTyped DEF RunStates, phaseStart
    <3>2. QED
      BY <1>1, <2>6, <3>1 DEF Typed, TypeOK, TaskDocuments, phaseStart
  <2>7. ASSUME NEW r \in Runs, sessionEnd(r) PROVE Typed'
    BY <1>1, <2>7, Spending DEF Typed, TypeOK, TaskDocuments, sessionEnd
  <2>8. QED
    BY <2>1, <2>2, <2>3, <2>4, <2>5, <2>6, <2>7 DEF Surroundings
<1>4. QED
  BY <1>2, <1>3, PlansStay

\* The two streams a commit extends: the run of the plan, and its successor.
LEMMA CommitRuns ==
    ASSUME Inv, NEW p \in Procs, commitEvent(p), NEW plan, plan = cmd[p]
    PROVE  /\ plan \in Plans /\ plan.run \in Runs
           /\ plan.at = run[plan.run].revision /\ PlanCurrent(plan)
           /\ plan.next # NoRun => plan.next # plan.run /\ run[plan.next].revision = 0
           /\ run' \in [Runs -> RunStates]
           /\ Advances(run[plan.run], plan.event, run'[plan.run])
           /\ plan.next # NoRun => /\ Advances(run[plan.next], SuccessorEvent(plan), run'[plan.next])
                                   /\ run'[plan.next].status = "active"
           /\ \A x \in Runs : x \notin {plan.run, plan.next} => run'[x] = run[x]
<1> DEFINE r == plan.run
           s == run[plan.run]
<1>1. /\ plan.kind \in AppendKinds /\ PreconditionsHold(plan) /\ run' = Committed(plan)
  BY DEF commitEvent, AppendKinds
<1>2. /\ Typed /\ RunsSound /\ PlansSound /\ run \in [Runs -> RunStates]
  BY DEF Inv, Typed, TypeOK
<1>3. plan \in Plans /\ r \in Runs
  BY <1>1, <1>2 DEF Typed, AppendKinds
<1>4. plan.at = s.revision /\ Replays(s, plan.event)
  BY <1>1 DEF PreconditionsHold, AppendIsFresh
<1>5. PlanCurrent(plan)
  BY <1>1, <1>2, <1>4 DEF PlansSound
<1>6. s \in RunStates /\ plan.event \in Events /\ RunSound(s) /\ Grounded(s, plan.event)
  BY <1>2, <1>3, <1>5 DEF Plans, PlanCurrent, RunsSound
<1>7. Advances(s, plan.event, reduceWorkflow(s, plan.event))
  BY <1>4, <1>6, ReplayAdvances
<1>8. reduceWorkflow(s, plan.event) \in RunStates
  BY <1>7 DEF Advances, Carries
<1>9. CASE plan.next = NoRun
  <2>1. run' = [run EXCEPT ![r] = reduceWorkflow(s, plan.event)]
    BY <1>1, <1>9 DEF Committed
  <2>2. QED
    BY <1>2, <1>3, <1>4, <1>5, <1>7, <1>8, <1>9, <2>1, RunsAssumption
<1>10. CASE plan.next # NoRun
  <2> DEFINE n == plan.next
             e == SuccessorEvent(plan)
             u == reduceWorkflow(s, plan.event)
  <2>1. n \in Runs /\ run[n] \in RunStates /\ RunSound(run[n])
    BY <1>2, <1>3, <1>10 DEF Plans, RunsSound
  <2>2. run[n].revision = 0
    BY <1>1, <1>10 DEF PreconditionsHold, AppendIsFresh
  <2>3. plan.event.reason = "resolved"
    BY <1>5, <1>10 DEF PlanCurrent
  <2>4. s.status = "blocked"
    BY <1>4, <2>3 DEF Replays, ReplaysResolution
  <2>5. n # r
    BY <2>1, <2>2, <2>4, SeedIsFree DEF RunSound
  <2>6. e \in Events /\ e.reason = "started_from_spec"
    <3> DEFINE base == Event("started_from_spec", "restart", plan.event.key)
               retired == {h.criterion : h \in s.history}
               ceiling == plan.ceiling
               source == plan.run
    <3>1. "started_from_spec" \in Reasons /\ "restart" \in OperationKinds
      BY DEF Reasons, PlainReasons, OperationKinds
    <3>2. plan.event.key \in Keys \cup {Fresh} /\ ceiling \in Nat
      BY <1>3, <1>6 DEF Events, Plans
    <3>3. base \in Events /\ base.reason = "started_from_spec"
      BY <3>1, <3>2, EventTyped
    <3>4. retired \in SUBSET Criteria
      BY <1>6 DEF RunStates, Stops
    <3>5. e = [base EXCEPT !.ceiling = ceiling, !.source = source, !.retired = retired]
      BY DEF SuccessorEvent, StartFromSpec
    <3>6. source \in Runs \cup {NoRun}
      BY <1>3
    <3> HIDE DEF base, retired, ceiling, source, e
    <3>7. QED
      BY <3>2, <3>3, <3>4, <3>5, <3>6 DEF Events
  <2> HIDE DEF e
  <2>7. Advances(run[n], e, reduceWorkflow(run[n], e)) /\ reduceWorkflow(run[n], e).status = "active"
    BY <2>1, <2>2, <2>6, OpeningAdvances
  <2>8. reduceWorkflow(run[n], e) \in RunStates
    BY <2>7 DEF Advances, Carries
  <2>9. run' = [[run EXCEPT ![r] = u] EXCEPT ![n] = reduceWorkflow(@, e)]
    BY <1>1, <1>10 DEF Committed, e
  <2> HIDE DEF u
  <2>10. /\ run' \in [Runs -> RunStates] /\ run'[r] = u
         /\ run'[n] = reduceWorkflow(run[n], e)
         /\ \A x \in Runs : x \notin {r, n} => run'[x] = run[x]
    <3>1. DEFINE one == [run EXCEPT ![r] = u]
    <3>2. one \in [Runs -> RunStates] /\ one[n] = run[n] /\ one[r] = u
          /\ \A x \in Runs : x # r => one[x] = run[x]
      BY <1>2, <1>3, <1>8, <2>1, <2>5 DEF u
    <3>3. run' = [one EXCEPT ![n] = reduceWorkflow(run[n], e)]
      BY <2>9, <3>2
    <3> HIDE DEF one
    <3>4. QED
      BY <1>3, <2>1, <2>5, <2>8, <3>2, <3>3
  <2>11. QED
    BY <1>3, <1>4, <1>5, <1>7, <2>2, <2>5, <2>7, <2>10 DEF e, u
<1>11. QED
  BY <1>9, <1>10

LEMMA CommitTyped ==
    ASSUME Inv, NEW p \in Procs, commitEvent(p)
    PROVE  Typed'
<1> DEFINE plan == cmd[p]
           r == plan.run
<1>1. Typed /\ Done(p) /\ plan.kind \in AppendKinds
  BY DEF Inv, commitEvent, AppendKinds
<1>2. plan \in Plans /\ r \in Runs /\ run' \in [Runs -> RunStates]
  BY CommitRuns
<1>3. /\ plan.docs \in Versions /\ plan.node \in SUBSET Nodes /\ plan.facts \in BOOLEAN
      /\ plan.freeze \in Seq(Criteria) /\ plan.verdict \in [Criteria -> Outcomes]
      /\ plan.next \in Runs \cup {NoRun}
  BY <1>2 DEF Plans
<1>4. snapshot' \in [Runs -> {"missing", "consistent", "divergent", "unreadable"}]
  BY <1>1 DEF commitEvent, Typed, TypeOK
<1>5. activeRun' \in Runs \cup {NoRun}
  BY <1>1, <1>2, <1>3 DEF commitEvent, Typed, TypeOK
<1>6. sealed' \in [Runs -> Versions]
  BY <1>1, <1>3 DEF commitEvent, Typed, TypeOK
<1>7. frozen' \in [Runs -> Seq(Criteria)]
  BY <1>1, <1>2, <1>3 DEF commitEvent, Typed, TypeOK
<1>8. lineage' \in [Runs -> SUBSET Nodes]
  BY <1>1, <1>2, <1>3 DEF commitEvent, Typed
<1>9. measured' \in [Runs -> PhaseSet \cup {"none"}]
  BY <1>1 DEF commitEvent, Typed, TypeOK
<1>10. verdict' \in [Runs -> [Criteria -> Outcomes]]
  BY <1>1, <1>2, <1>3 DEF commitEvent, Typed, TypeOK
<1>11. tasks' \in TaskDocuments
  BY <1>1 DEF commitEvent, Typed
<1>12. tasks'.declared \in Seq(Criteria) /\ tasks'.checked \subseteq Criteria
  BY <1>11, TaskListsAssumption DEF TaskDocuments
<1>13. factsClear' \in BOOLEAN
  BY <1>1, <1>3 DEF commitEvent, Typed, TypeOK
<1>14. delivered' \in [Runs -> [Operations -> Nat]]
  BY <1>1, <1>2 DEF commitEvent, Counted, Typed, TypeOK
<1>15. docs' = docs /\ approvals' = approvals /\ evidence' = evidence /\ spare' = spare
  BY DEF commitEvent
<1>16. cmd' \in [Procs -> Plans]
  BY <1>1, Dismissed
<1>17. TypeOK'
  BY <1>1, <1>2, <1>4, <1>5, <1>6, <1>7, <1>8, <1>9, <1>10, <1>12, <1>13, <1>14, <1>15,
     <1>16 DEF Typed, TypeOK
<1>18. QED
  BY <1>1, <1>8, <1>11, <1>16, <1>17, Dismissed DEF Typed, TaskDocuments

LEMMA CommitEventStep ==
    ASSUME Inv, NEW p \in Procs, commitEvent(p)
    PROVE  Inv' /\ StepSafe
<1> DEFINE plan == cmd[p]
           r == plan.run
           n == plan.next
<1>1. /\ plan \in Plans /\ r \in Runs
      /\ plan.at = run[r].revision /\ PlanCurrent(plan)
      /\ n # NoRun => n # r /\ run[n].revision = 0
      /\ Advances(run[r], plan.event, run'[r])
      /\ n # NoRun => /\ Advances(run[n], SuccessorEvent(plan), run'[n])
                      /\ run'[n].status = "active"
      /\ \A x \in Runs : x \notin {r, n} => run'[x] = run[x]
  BY CommitRuns
<1>2. /\ Typed /\ RunsSound /\ FrozenSound /\ CountedOnce /\ PlansSound
      /\ CompletedIsApproved /\ Done(p) /\ approvals' = approvals
      /\ n \in Runs \cup {NoRun}
      /\ \A x \in Runs : run[x].revision \in Nat /\ frozen[x] \in Seq(Criteria)
  BY <1>1 DEF Inv, Typed, TypeOK, RunStates, commitEvent, Plans
<1>3. ASSUME NEW x \in Runs
      PROVE  \/ x \notin {r, n} /\ run'[x] = run[x]
             \/ x = r /\ Advances(run[x], plan.event, run'[x])
             \/ /\ x = n /\ x # r /\ Advances(run[x], SuccessorEvent(plan), run'[x])
                /\ run'[x].status = "active" /\ run[x].revision = 0
  BY <1>1, RunsAssumption
<1>4. ASSUME NEW x \in Runs, x \in {r, n}
      PROVE  /\ run'[x].revision = run[x].revision + 1
             /\ run[x].operations \subseteq run'[x].operations
  BY <1>3, <1>4 DEF Advances, Carries
<1>5. /\ frozen'[r] = IF plan.freeze # <<>> THEN plan.freeze ELSE frozen[r]
      /\ \A x \in Runs : x # r => frozen'[x] = frozen[x]
  BY <1>1, <1>2 DEF commitEvent, Typed, TypeOK
<1>6. RunsSound'
  BY <1>2, <1>3 DEF RunsSound, Advances
<1>7. FrozenSound'
  <2>1. SUFFICES ASSUME NEW x \in Runs,
                        run'[x].revision = 0 \/ run'[x].step \in {"prd", "spec", "plan"}
                 PROVE  frozen'[x] = <<>>
    BY DEF FrozenSound
  <2>2. CASE x \notin {r, n}
    BY <1>2, <1>3, <1>5, <2>1, <2>2 DEF FrozenSound
  <2>3. CASE x = n /\ x # r
    BY <1>1, <1>2, <1>5, <2>3, RunsAssumption DEF FrozenSound
  <2>4. CASE x = r
    <3>1. run'[r].step \in Unfrozen
      BY <1>2, <1>4, <2>1, <2>4 DEF Unfrozen
    <3>2. run[r].revision # 0 => run[r].step \in Unfrozen
      BY <1>1, <3>1 DEF Advances, Onward
    <3>3. frozen[r] = <<>>
      BY <1>1, <1>2, <3>2 DEF FrozenSound, Unfrozen
    <3>4. plan.freeze = <<>>
      <4>1. SUFFICES ASSUME plan.freeze # <<>> PROVE FALSE
        OBVIOUS
      <4>2. /\ run[r].revision # 0 /\ run[r].step \in {"plan", "code", "review", "acceptance"}
            /\ run[r].step = "plan" => plan.event.reason = "accepted"
        BY <1>1, <4>1 DEF PlanCurrent, Freezes
      <4>3. run[r].step = "plan"
        BY <3>2, <4>2 DEF Unfrozen
      <4>4. QED
        BY <1>1, <3>1, <4>2, <4>3 DEF Advances, Onward, Unfrozen
    <3>5. QED
      BY <1>5, <2>4, <3>3, <3>4
  <2>5. QED
    BY <2>2, <2>3, <2>4
<1>8. CountedOnce'
  <2>1. SUFFICES ASSUME NEW x \in Runs, NEW op \in Operations
                 PROVE  /\ delivered'[x][op] <= 1
                        /\ delivered'[x][op] = 1 => op \in run'[x].operations
    BY DEF CountedOnce
  <2>2. /\ delivered[x][op] \in Nat /\ delivered[x][op] <= 1
        /\ delivered[x][op] = 1 => op \in run[x].operations
    BY <1>2 DEF CountedOnce, Typed, TypeOK
  <2>3. delivered'[x][op] = IF x = r /\ op = <<plan.event.kind, plan.event.key>>
                            THEN delivered[x][op] + 1 ELSE delivered[x][op]
    BY <1>1, <1>2 DEF commitEvent, Counted, Typed, TypeOK
  <2>4. run[x].operations \subseteq run'[x].operations
    BY <1>3, <1>4
  <2>5. CASE x = r /\ op = <<plan.event.kind, plan.event.key>>
    <3>1. plan.event.key # Fresh
      BY <2>5, RunsAssumption DEF Operations
    <3>2. op \notin run[r].operations
      BY <1>1, <2>5, <3>1 DEF PlanCurrent, NotRecorded
    <3>3. op \in run'[r].operations
      BY <1>1, <2>5, <3>1 DEF Advances, Carries
    <3>4. QED
      BY <2>2, <2>3, <2>5, <3>2, <3>3
  <2>6. CASE ~(x = r /\ op = <<plan.event.kind, plan.event.key>>)
    BY <2>2, <2>3, <2>4, <2>6
  <2>7. QED
    BY <2>5, <2>6
<1>9. PlansSound'
  <2>1. SUFFICES ASSUME NEW q \in Procs, cmd'[q].kind \in AppendKinds
                 PROVE  /\ cmd'[q].at <= run'[cmd'[q].run].revision
                        /\ cmd'[q].at = run'[cmd'[q].run].revision => PlanCurrent(cmd[q])'
    BY DEF PlansSound
  <2>2. cmd'[q] = cmd[q]
    BY <1>2, <2>1, Dismissed
  <2>3. /\ cmd[q].at <= run[cmd[q].run].revision /\ cmd[q].at \in Nat /\ cmd[q].run \in Runs
        /\ cmd[q].at = run[cmd[q].run].revision => PlanCurrent(cmd[q])
    BY <1>2, <2>1, <2>2 DEF PlansSound, Typed, Plans, AppendKinds
  <2>4. CASE cmd[q].run \in {r, n}
    BY <1>2, <1>4, <2>2, <2>3, <2>4
  <2>5. CASE cmd[q].run \notin {r, n}
    <3>1. run'[cmd[q].run] = run[cmd[q].run] /\ frozen'[cmd[q].run] = frozen[cmd[q].run]
      BY <1>3, <1>5, <2>3, <2>5
    <3>2. PlanCurrent(cmd[q]) => PlanCurrent(cmd[q])'
      BY <1>2, <2>2, <3>1 DEF PlanCurrent, Freezes, ApprovedAt
    <3>3. QED
      BY <2>2, <2>3, <3>1, <3>2
  <2>6. QED
    BY <2>4, <2>5
<1>10. CompletedIsApproved'
  <2>1. SUFFICES ASSUME NEW x \in Runs, run'[x].status = "completed"
                 PROVE  \E a \in approvals : /\ a.run = x /\ a.gate = "final-acceptance"
                                             /\ a.revision + 1 = run'[x].revision
    BY <1>2 DEF CompletedIsApproved
  <2>2. CASE x \notin {r, n}
    BY <1>2, <1>3, <2>1, <2>2 DEF CompletedIsApproved
  <2>3. CASE x = r
    <3>1. plan.event.reason = "completed"
      BY <1>1, <2>1, <2>3 DEF Advances, Onward
    <3>2. ApprovedAt(r, run[r].revision)
      BY <1>1, <3>1 DEF PlanCurrent
    <3>3. QED
      BY <1>4, <2>3, <3>2 DEF ApprovedAt
  <2>4. QED
    BY <1>3, <2>1, <2>2, <2>3
<1>11. StepSafe
  <2>1. SUFFICES ASSUME NEW x \in Runs
                 PROVE  HeldStep(run[x], run'[x]) /\ Extends(frozen'[x], frozen[x])
    BY DEF StepSafe
  <2>2. HeldStep(run[x], run'[x])
    <3>1. HeldStep(run[x], run[x])
      BY <1>2 DEF RunsSound, RunSound, HeldStep
    <3>2. QED
      BY <1>3, <3>1 DEF Advances
  <2>3. Extends(frozen[x], frozen[x])
    BY <1>2 DEF Extends
  <2>4. Extends(frozen'[x], frozen[x])
    BY <1>1, <1>5, <2>3 DEF PlanCurrent, Freezes
  <2>5. QED
    BY <2>2, <2>4
<1>12. QED
  BY <1>6, <1>7, <1>8, <1>9, <1>10, <1>11, CommitTyped DEF Inv

-----------------------------------------------------------------------------
(* The theorems. *)

LEMMA InitInv == ASSUME Init PROVE Inv
<1>1. PICK legacy \in Runs \cup {NoRun} :
        /\ run = [r \in Runs |-> IF r = legacy THEN LegacyRun ELSE workflowSeed]
        /\ snapshot = [r \in Runs |-> IF r = legacy THEN "consistent" ELSE "missing"]
        /\ activeRun = legacy
        /\ sealed = [r \in Runs |-> IF r = legacy THEN docs ELSE [prd |-> 0, spec |-> 0]]
        /\ lineage = [r \in Runs |->
               IF r # legacy THEN {}
               ELSE {[at |-> 3, digest |-> TasksDigest(tasks.declared),
                      parents |-> DocumentDigests(docs)]}]
        /\ approvals = IF legacy = NoRun THEN {}
                       ELSE {[run |-> legacy, gate |-> "spec", docs |-> docs,
                              revision |-> 0]}
  BY DEF Init
<1>2. /\ LegacyRun \in RunStates
      /\ LegacyRun.status = "active" /\ LegacyRun.step = "code" /\ LegacyRun.revision = 4
      /\ LegacyRun.stops = {} /\ LegacyRun.restart = NoRun
  <2>1. LegacyRun \in RunStates
    BY SeedTyped, Phases DEF LegacyRun, RunStates
  <2>2. QED
    BY <2>1, SeedTyped, SeedIsFree DEF LegacyRun, RunStates
<1>3. run \in [Runs -> RunStates] /\ \A r \in Runs : run[r] \in {LegacyRun, workflowSeed}
  BY <1>1, <1>2, SeedTyped
<1>4. tasks \in TaskDocuments /\ tasks.checked = {}
  <2>1. 1 \in DOMAIN TaskLists
    BY TaskListsAssumption
  <2>2. QED
    BY <2>1 DEF Init, TaskDocuments
<1>5. tasks.declared \in Seq(Criteria) /\ TasksDigest(tasks.declared) \in Digests
  <2>1. PICK i \in DOMAIN TaskLists : tasks.declared = TaskLists[i]
    BY <1>4 DEF TaskDocuments
  <2>2. DOMAIN TaskLists = 1..Len(TaskLists) /\ Len(TaskLists) \in Nat
    BY TaskListsAssumption
  <2>3. (CHOOSE j \in DOMAIN TaskLists : TaskLists[j] = tasks.declared) \in DOMAIN TaskLists
    BY <2>1
  <2>4. (CHOOSE j \in DOMAIN TaskLists : TaskLists[j] = tasks.declared) \in Nat
    BY <2>2, <2>3
  <2>5. QED
    BY <2>1, <2>4, TaskListsAssumption, Phases DEF TasksDigest, Digests
<1>6. docs \in Versions /\ [prd |-> 0, spec |-> 0] \in Versions
  BY BoundsAssumption DEF Init, Versions
<1>7. lineage \in [Runs -> SUBSET Nodes]
  <2>1. DocumentDigests(docs) \in SUBSET Digests
    BY <1>6, DocumentDigestsTyped
  <2>2. [at |-> 3, digest |-> TasksDigest(tasks.declared), parents |-> DocumentDigests(docs)]
          \in Nodes
    BY <1>5, <2>1 DEF Nodes
  <2>3. QED
    BY <1>1, <2>2
<1>8. approvals \subseteq Approvals
  BY <1>1, <1>6 DEF Approvals, Gates
<1>9. cmd \in [Procs -> Plans] /\ \A p \in Procs : cmd[p].kind = "idle"
  BY NoPlanTyped DEF Init
<1>10. TypeOK
  <2>1. NoVerdict \in [Criteria -> Outcomes] /\ <<>> \in Seq(Criteria)
    BY DEF NoVerdict, Outcomes
  <2>2. QED
    BY <1>1, <1>3, <1>4, <1>5, <1>6, <1>7, <1>8, <1>9, <2>1, BoundsAssumption
       DEF Init, TypeOK
<1>11. Typed
  BY <1>4, <1>7, <1>9, <1>10 DEF Typed
<1>12. RunSound(LegacyRun) /\ RunSound(workflowSeed)
  BY <1>2, SeedIsFree DEF RunSound, Held
<1>13. RunsSound
  BY <1>3, <1>12 DEF RunsSound
<1>14. FrozenSound
  BY DEF FrozenSound, Init
<1>15. CountedOnce
  BY DEF CountedOnce, Init
<1>16. PlansSound
  BY <1>9 DEF PlansSound, AppendKinds
<1>17. CompletedIsApproved
  BY <1>2, <1>3, SeedIsFree DEF CompletedIsApproved
<1>18. QED
  BY <1>11, <1>13, <1>14, <1>15, <1>16, <1>17 DEF Inv

LEMMA CommandStep ==
    ASSUME Inv, NEW p \in Procs, Command(p)
    PROVE  Inv' /\ StepSafe
<1>1. ASSUME NEW r \in Runs, NEW key \in Keys \cup {Fresh},
             \/ start(p, r, key)
             \/ continueResume(p, r, key)
             \/ continueReject(p, r, key)
             \/ continueComplete(p, r, key)
             \/ done(p, r, key)
             \/ agentRecord(p, r, key)
             \/ recordGateFact(p, r, key)
             \/ recordAcceptance(p, r, key)
             \/ \E criterion \in Criteria, next \in Runs \cup {NoRun} :
                   repairResolve(p, r, criterion, next, key)
      PROVE  Deciding(p)
  BY <1>1, StartDecides, ContinueDecides, CompleteDecides, DoneDecides, AgentRecordDecides,
     GateFactDecides, AcceptanceDecides, ResolveDecides
<1>2. ASSUME NEW r \in Runs, planSnapshotRepair(p, r) PROVE Inv' /\ StepSafe
  BY <1>2, RepairPlanStep
<1>3. ASSUME NEW r \in Runs, NEW gate \in Gates, recordApproval(p, r, gate)
      PROVE  Inv' /\ StepSafe
  BY <1>3, ApprovalStep
<1>4. CASE commitEvent(p)
  BY <1>4, CommitEventStep
<1>5. CASE commitApproval(p)
  BY <1>5, CommitApprovalStep
<1>6. CASE commitRepair(p)
  BY <1>6, CommitRepairStep
<1>7. CASE refuse(p)
  BY <1>7, RefuseStep
<1>8. QED
  BY <1>1, <1>2, <1>3, <1>4, <1>5, <1>6, <1>7, DecideStep DEF Command

LEMMA StutterStep == ASSUME Inv, UNCHANGED vars PROVE Inv' /\ StepSafe
<1>1. /\ run' = run /\ snapshot' = snapshot /\ activeRun' = activeRun
      /\ delivered' = delivered /\ docs' = docs /\ tasks' = tasks /\ sealed' = sealed
      /\ approvals' = approvals /\ evidence' = evidence /\ frozen' = frozen
      /\ verdict' = verdict /\ lineage' = lineage /\ measured' = measured
      /\ factsClear' = factsClear /\ cmd' = cmd /\ spare' = spare
  BY DEF vars
<1>2. Typed'
  BY <1>1 DEF Inv, Typed, TypeOK, TaskDocuments
<1>3. QED
  BY <1>1, <1>2, PlansStay

LEMMA NextStep == ASSUME Inv, [Next]_vars PROVE Inv' /\ StepSafe
BY CommandStep, SurroundingsStep, StutterStep DEF Next

\* The inductive invariant holds in every reachable state.
LEMMA Invariance == Spec => []Inv
<1>1. Init => Inv
  BY InitInv
<1>2. Inv /\ [Next]_vars => Inv'
  BY NextStep
<1>3. QED
  BY <1>1, <1>2, PTL DEF Spec

\* Every variable keeps its type, whatever the commands in flight had decided:
\* the reducer (domain/workflow/reducer.ts) takes a run state to a run state.
THEOREM TypeCorrect == Spec => []TypeOK
<1>1. Inv => TypeOK
  BY DEF Inv, Typed
<1>2. QED
  BY <1>1, Invariance, PTL

\* However often a correlated operation is delivered, and however many commands
\* that carry it are in flight together, it is recorded once: the second one
\* finds the operation on record or its revision gone
\* (domain/workflow/decision.ts hasOperation, composition/index.ts
\* assertPreparedAppendIsFresh).
THEOREM OperationsDeliveredOnce == Spec => []DeliveredOnce
<1>1. Inv => DeliveredOnce
  BY DEF Inv, CountedOnce, DeliveredOnce
<1>2. QED
  BY <1>1, Invariance, PTL

\* A run that completed was finally approved at exactly the revision it
\* completed from, even when the approval, the completion and any other command
\* were decided side by side (domain/cli decideDone).
THEOREM CompletionApproved == Spec => []CompletedIsApproved
<1>1. Inv => CompletedIsApproved
  BY DEF Inv
<1>2. QED
  BY <1>1, Invariance, PTL

\* A repair stop ends only by its own resolution, and a held run stays where it
\* is.  The reducer alone does not guarantee it: once a specification
\* resolution has taken the last stop away, only the count of the criterion
\* that tripped keeps an acceptance verdict from moving the run
\* (domain/repair-loop, domain/workflow/reducer.ts).
THEOREM StopsHold == Spec => HeldUntilResolved
<1> DEFINE Held1 ==
      \A r \in Runs : Held(run[r]) =>
          LET ended == run[r].stops \ run'[r].stops
          IN  /\ ended # {} => \E st \in ended :
                    /\ ended = {st}
                    /\ \E res \in run'[r].resolutions :
                          res.criterion = st.criterion /\ res.at = st.at
              /\ Held(run'[r]) => run'[r].step = run[r].step /\ run'[r].status = "blocked"
              /\ run[r].restart # NoRun => run'[r].restart = run[r].restart
<1>1. Inv /\ [Next]_vars => Held1
  BY NextStep DEF StepSafe, HeldStep
<1>2. QED
  BY <1>1, Invariance, PTL DEF Spec, HeldUntilResolved

\* Criteria once frozen are never dropped, reordered or exchanged by a plan that
\* was decided before others committed (domain/acceptance-criteria,
\* composition/workflow.ts).
THEOREM FrozenCriteriaGrow == Spec => CriteriaOnlyGrow
<1> DEFINE Grow ==
      \A r \in Runs : /\ Len(frozen[r]) <= Len(frozen'[r])
                      /\ \A i \in 1..Len(frozen[r]) : frozen'[r][i] = frozen[r][i]
<1>1. Inv /\ [Next]_vars => Grow
  BY NextStep DEF StepSafe, Extends
<1>2. QED
  BY <1>1, Invariance, PTL DEF Spec, CriteriaOnlyGrow
=============================================================================
