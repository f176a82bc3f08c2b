------------------------------ MODULE HostHooks ------------------------------
(* The facts the gates read and the hooks that keep them: the host delivers  *)
(* hook messages (composition/host.ts, domain/cli/hook.ts) that grow the     *)
(* run's usage, latch the stop-loss and charge the phase measurements, while *)
(* commands record gaps and gate facts (domain/cli/gaps.ts), unlock the      *)
(* stop-loss (domain/cli/unlock.ts), complete phases and refresh the metrics.*)
(*                                                                           *)
(* Every operation decides a plan on the files it read and commits it as one *)
(* transaction.  The transaction checks the expectations the plan carries:   *)
(* the event stream for a command that appends, and the files the plan       *)
(* guards; the other files of the plan are simply written.  Hook messages    *)
(* carry the time and the cumulative count at which they were emitted, and   *)
(* arrive late, twice, out of order or never.                                *)
EXTENDS PhaseMeasurements

CONSTANTS
    Procs,         \* hooks and commands in flight together
    Gaps,          \* gap identifiers
    GapPhases,     \* GAP_PHASES: where gaps are still detected
    Budget,        \* token allocation frozen in the run; 0 when there is none
    Emissions,     \* the hooks the host may emit: a kind, and with a count or not
    MaxTime,       \* bound: logical time
    MaxSpare       \* bound: hooks emitted, optional commands, and steps taken beside
                   \* another in flight, together

ASSUME BudgetAssumption == Budget \in Nat /\ GapPhases \subseteq PhaseNames
ASSUME EmissionsAssumption ==
    Emissions \subseteq [kind : {"session.sample", "session.end", "tool.failed"},
                         counted : BOOLEAN]
ASSUME BoundsAssumption == MaxTime \in Nat /\ MaxSpare \in Nat

VARIABLES
    usage,         \* usage.json
    gates,         \* gates.json
    gap,           \* the gap records
    log,           \* task_log.jsonl
    candidate,     \* observation count of the failure candidate (0: no file)
    cache,         \* session -> whether its hook cache exists
    telemetry,     \* session -> whether its telemetry record exists
    phase,         \* current step of the run
    revision,      \* events of the run
    specApproved,  \* a valid approval of the specification exists
    clock,
    spent,         \* session -> tokens it has consumed
    sent,          \* hook messages the host has emitted
    cmd,           \* process -> its plan
    spare,         \* what is left of MaxSpare
    delivered,     \* history: hooks that were recorded
    failures,      \* history: recorded tool failures
    restarted,     \* history: a closed measurement was started over
    overwritten    \* history: a latch was lost to a gate recording

vars == <<usage, gates, gap, log, candidate, cache, telemetry, phase, revision,
          specApproved, clock, spent, sent, cmd, spare, delivered, failures,
          restarted, overwritten>>

HookKinds == {"session.sample", "session.end", "tool.failed"}

Hooks == [session : Sessions, at : Nat, cum : Nat \cup {NoUsage},
          kind : HookKinds]

GateFacts == [present : BOOLEAN, tripped : BOOLEAN, exhausted : BOOLEAN,
              open : SUBSET Gaps, post : BOOLEAN,
              partition : {"none", "pending", "approved"}]

\* emptyGates, and what a reader makes of a missing file.
emptyGates == [present |-> FALSE, tripped |-> FALSE, exhausted |-> FALSE,
               open |-> {}, post |-> FALSE, partition |-> "none"]

Steps == PhaseNames \cup {"none"}

\* A plan: what it writes, which of its files it guards, and what it saw.
Files == {"usage", "gates", "gap", "log", "candidate"}
NoPlan ==
    [kind |-> "idle", at |-> 0, writes |-> {}, guards |-> {}, session |-> NoSession,
     usage |-> initialRunUsage, gates |-> emptyGates, gap |-> [g \in Gaps |-> "none"],
     log |-> [ph \in PhaseNames |-> NoRecord], candidate |-> 0,
     saw |-> [usage |-> initialRunUsage, gates |-> emptyGates,
              log |-> [ph \in PhaseNames |-> NoRecord], candidate |-> 0,
              telemetry |-> FALSE],
     step |-> "none", hook |-> {}]

TypeOK ==
    /\ usage \in [total : Nat, cum : [Sessions -> Nat], seen : SUBSET Sessions,
                  baseline : 0..usage.total, exhausted : BOOLEAN, fault : BOOLEAN]
    /\ gates \in GateFacts
    /\ gap \in [Gaps -> {"none", "open", "resolved", "waived"}]
    /\ log \in [PhaseNames -> Record]
    /\ candidate \in Nat
    /\ cache \in [Sessions -> BOOLEAN]
    /\ telemetry \in [Sessions -> BOOLEAN]
    /\ phase \in Steps /\ revision \in Nat /\ specApproved \in BOOLEAN
    /\ clock \in 1..MaxTime /\ spent \in [Sessions -> Nat]
    /\ sent \subseteq Hooks /\ delivered \subseteq Hooks
    /\ spare \in 0..MaxSpare /\ failures \in Nat
    /\ restarted \in BOOLEAN /\ overwritten \in BOOLEAN

disk == <<usage, gates, gap, log, candidate, cache, telemetry, phase, revision>>
world == <<specApproved, clock, spent, sent>>
history == <<delivered, failures, restarted, overwritten>>

-----------------------------------------------------------------------------
(* Deciding *)

Decide(p, plan) ==
    /\ cmd[p].kind = "idle"
    /\ cmd' = [cmd EXCEPT ![p] = plan]
    /\ UNCHANGED disk /\ UNCHANGED world /\ UNCHANGED history

\* A plan on what is on disk now, changing nothing yet.
Plan(kind) ==
    [NoPlan EXCEPT !.kind = kind, !.at = revision, !.usage = usage, !.gates = gates,
        !.gap = gap, !.log = log, !.candidate = candidate, !.step = phase,
        !.saw.usage = usage, !.saw.gates = gates, !.saw.log = log,
        !.saw.candidate = candidate]

\* A recorded usage without an owner on record cannot be claimed.
Ownerless(target, hook) ==
    /\ target.kind = "claim"
    /\ hook.session \in usage.seen
    /\ \A ph \in Recorded(log) : hook.session \notin log[ph].contributors

\* The hook's stop-loss: latches are only ever set.
Latched(sampled) ==
    [gates EXCEPT !.tripped = @ \/ sampled.fault,
                  !.exhausted = @ \/ sampled.exhausted \/ Spent(sampled, Budget)]

\* The log after the hook; the end of the launching session interrupts it.
Measured(target, hook) ==
    LET sampledLog == IF target.kind = "none" \/ hook.cum = NoUsage THEN log
                      ELSE reconcileContributorCheckpoint(log, target.phase, hook)
    IN  IF /\ target.kind # "none" /\ hook.kind = "session.end"
           /\ sampledLog[target.phase].owner = hook.session
        THEN [sampledLog EXCEPT ![target.phase] = Closed(@, "interrupted", hook.at)]
        ELSE sampledLog

\* The hook command: usage, latches, measurement and failure candidate.
hook(p, m) ==
    LET target == measurementTarget(log, m)
        sampled == recordUsageSample(usage, m, Budget)
        latched == IF Latched(sampled) = gates THEN gates
                   ELSE [Latched(sampled) EXCEPT !.present = TRUE]
        next == Measured(target, m)
        writes == (IF sampled # usage THEN {"usage"} ELSE {})
                    \cup (IF latched.present THEN {"gates"} ELSE {})
                    \cup (IF next # log THEN {"log"} ELSE {})
                    \cup (IF m.kind = "tool.failed" THEN {"candidate"} ELSE {})
    IN  /\ target.kind # "corrupt"
        /\ ~Ownerless(target, m)
        /\ target.kind # "none" /\ m.cum # NoUsage =>
              Reconcilable(log, target.phase, m, sampled.total)
        /\ Readable(next)
        /\ Decide(p, [Plan("hook") EXCEPT
               !.writes = writes, !.guards = writes, !.session = m.session,
               !.usage = sampled, !.gates = latched, !.log = next,
               !.candidate = IF m.kind = "tool.failed" THEN candidate + 1 ELSE candidate,
               !.saw.telemetry = telemetry[m.session],
               !.hook = {m}])

\* decidePhaseStart: continue the open record under the new session, or start
\* one; a running record of another phase is recovered first.
phaseStart(p, s) ==
    LET open == phase \in Running(log)
        stale == Running(log) \ {phase}
        recovered == recoverPhaseMeasurements(log, stale, clock, usage.total)
        next == [recovered EXCEPT ![phase] =
                    IF open
                    THEN [addPhaseMeasurementContributor(log[phase], s) EXCEPT !.owner = s]
                    ELSE startPhaseMeasurement(s, clock, usage.total)]
    IN  /\ phase # "none"
        /\ Recoverable(log, stale, usage.total)
        /\ open => Cardinality(log[phase].contributors \cup {s}) <= MaxContributors
        /\ Readable(next)
        /\ next # log
        /\ Decide(p, [Plan("start") EXCEPT !.writes = {"log"}, !.guards = {"log"},
                                           !.log = next])

\* metrics refresh: every running record is closed.
metricsRefresh(p) ==
    LET next == recoverPhaseMeasurements(log, Running(log), clock, usage.total)
    IN  /\ Running(log) # {}
        /\ Recoverable(log, Running(log), usage.total)
        /\ Readable(next)
        /\ Decide(p, [Plan("refresh") EXCEPT !.writes = {"log"}, !.guards = {"log"},
                                             !.log = next])

\* unlock stop-loss, confirmed by name.
unlock(p) ==
    /\ gates.present
    /\ gates.tripped \/ gates.exhausted
    /\ Decide(p, [Plan("unlock") EXCEPT
           !.writes = {"usage", "gates"}, !.guards = {"usage", "gates"},
           !.usage = unlockStopLoss(usage),
           !.gates = [gates EXCEPT !.tripped = FALSE, !.exhausted = FALSE]])

\* boundaryOf: past the specification, or once it is approved.
PastApproval == specApproved \/ phase \notin GapPhases

isOpenGap(g, records) == records[g] = "open"

\* deriveGateFacts from the records and the flags the command carries over.
deriveGateFacts(records, base) ==
    [base EXCEPT !.present = TRUE, !.post = PastApproval,
                 !.open = IF PastApproval THEN {}
                          ELSE {g \in Gaps : isOpenGap(g, records)}]

\* The commit of every recording: gates.json and the gap are written whatever
\* they hold by then; the event is what is checked.
RecordFact(p, records, base) ==
    /\ phase # "none"
    /\ Decide(p, [Plan("fact") EXCEPT !.writes = {"gap", "gates"}, !.gap = records,
                                      !.gates = deriveGateFacts(records, base)])

decideGapRecord(p, g) ==
    /\ ~PastApproval
    /\ gap[g] = "none"
    /\ RecordFact(p, [gap EXCEPT ![g] = "open"], gates)

decideGapVerdict(p, g) ==
    /\ gap[g] \in {"open", "waived"}
    /\ RecordFact(p, [gap EXCEPT ![g] = "resolved"], gates)

decideGapWaiver(p, g) ==
    /\ gap[g] = "open"
    /\ RecordFact(p, [gap EXCEPT ![g] = "waived"], gates)

\* gates record, one flag at a time: a flag left out keeps what was read, and a
\* token count replaces the exhausted flag.
gatesRecord(p) ==
    \/ RecordFact(p, gap, [gates EXCEPT !.tripped = TRUE])
    \/ \E used \in {0, Budget} :
          RecordFact(p, gap, [gates EXCEPT !.exhausted = budgetExhausted(Budget, used)])
    \/ \E partition \in {"pending", "approved"} :
          RecordFact(p, gap, [gates EXCEPT !.partition = partition])

\* Completing a phase: the gates read clear, the running measurement is closed.
GatesClear ==
    /\ ~gates.tripped /\ ~gates.exhausted
    /\ gates.open = {} /\ gates.partition # "pending"

StepAfter(ph) ==
    IF phaseOrder(ph) = Len(Phases) THEN "none" ELSE Phases[phaseOrder(ph) + 1]

completePhase(p) ==
    LET next == [log EXCEPT ![phase] = Closed(@, "completed", clock)]
    IN  /\ phase \in Running(log)
        /\ GatesClear
        /\ Readable(next)
        /\ Decide(p, [Plan("complete") EXCEPT !.writes = {"log"}, !.guards = {"log"},
                                              !.log = next, !.step = StepAfter(phase)])

\* A rejected acceptance sends the run back to code; its measurement goes on.
repairLoop(p) ==
    /\ phase = "acceptance"
    /\ "code" \in PhaseNames
    /\ Decide(p, [Plan("repair") EXCEPT !.step = "code"])

-----------------------------------------------------------------------------
(* Committing *)

Appends(plan) == plan.kind \in {"fact", "complete", "repair"}

\* Only the stream is checked.
PreconditionsOfStream(plan) == Appends(plan) => revision = plan.at

\* The log is not among the files checked.
PreconditionsWithoutLog(plan) ==
    /\ Appends(plan) => revision = plan.at
    /\ "usage" \in plan.guards => usage = plan.saw.usage
    /\ "gates" \in plan.guards => gates = plan.saw.gates
    /\ "candidate" \in plan.guards => candidate = plan.saw.candidate

\* The stream, for a plan that appends, and every guarded file are as read.
PreconditionsHold(plan) ==
    /\ Appends(plan) => revision = plan.at
    /\ "usage" \in plan.guards => usage = plan.saw.usage
    /\ "gates" \in plan.guards => gates = plan.saw.gates
    /\ "log" \in plan.guards => log = plan.saw.log
    /\ "candidate" \in plan.guards => candidate = plan.saw.candidate
    /\ \A m \in plan.hook : m.kind = "session.end" /\ ~plan.saw.telemetry =>
          ~telemetry[m.session]

\* The session's hook cache, rewritten unguarded until the session ends, and
\* the one telemetry record that outlives it.
CacheAfter(plan) ==
    [s \in Sessions |->
        IF \A m \in plan.hook : m.session # s THEN cache[s]
        ELSE \A m \in plan.hook : m.kind # "session.end"]

TelemetryAfter(plan) ==
    [s \in Sessions |->
        \/ telemetry[s]
        \/ \E m \in plan.hook : m.session = s /\ m.kind = "session.end"]

commit(p) ==
    LET plan == cmd[p]
        after(file, new, old) == IF file \in plan.writes THEN new ELSE old
    IN  /\ plan.kind # "idle"
        /\ PreconditionsHold(plan)
        /\ usage' = after("usage", plan.usage, usage)
        /\ gates' = after("gates", plan.gates, gates)
        /\ gap' = after("gap", plan.gap, gap)
        /\ log' = after("log", plan.log, log)
        /\ candidate' = after("candidate", plan.candidate, candidate)
        /\ cache' = CacheAfter(plan)
        /\ telemetry' = TelemetryAfter(plan)
        /\ phase' = IF Appends(plan) THEN plan.step ELSE phase
        /\ revision' = IF Appends(plan) THEN revision + 1 ELSE revision
        /\ delivered' = delivered \cup plan.hook
        /\ failures' = failures + Cardinality({m \in plan.hook : m.kind = "tool.failed"})
        /\ restarted' = (restarted \/ \E ph \in PhaseNames :
                            /\ log[ph].status \in {"completed", "interrupted"}
                            /\ log'[ph].status = "running")
        /\ overwritten' = (overwritten \/
                            /\ plan.kind = "fact"
                            /\ \/ gates.exhausted /\ ~gates'.exhausted
                               \/ gates.tripped /\ ~gates'.tripped)
        /\ cmd' = [cmd EXCEPT ![p] = NoPlan]
        /\ UNCHANGED <<world, spare>>

refuse(p) ==
    /\ cmd[p].kind # "idle"
    /\ ~PreconditionsHold(cmd[p])
    /\ cmd' = [cmd EXCEPT ![p] = NoPlan]
    /\ UNCHANGED disk /\ UNCHANGED world /\ UNCHANGED history /\ UNCHANGED spare

-----------------------------------------------------------------------------
(* The host and the user *)

\* What an optional step costs, and any step taken beside a plan in flight.
Charge(others, cost) ==
    LET whole == cost + (IF \E q \in others : cmd[q].kind # "idle" THEN 1 ELSE 0)
    IN  spare >= whole /\ spare' = spare - whole

tick ==
    /\ clock < MaxTime
    /\ clock' = clock + 1
    /\ Charge(Procs, 0)
    /\ UNCHANGED disk /\ UNCHANGED history
    /\ UNCHANGED <<specApproved, spent, sent, cmd>>

\* A session consumes tokens and the host emits a hook about it, which may or
\* may not carry the count.  Emitting reads and writes nothing a plan does, so
\* emitting before the plans in flight were made is the same.
emit(s) ==
    /\ Charge(Procs, 1)
    /\ \A p \in Procs : cmd[p].kind = "idle"
    /\ \E e \in Emissions :
         /\ spent' = [spent EXCEPT ![s] = IF e.counted THEN @ + 1 ELSE @]
         /\ sent' = sent \cup {[session |-> s, at |-> clock, kind |-> e.kind,
                                cum |-> IF e.counted THEN spent'[s] ELSE NoUsage]}
    /\ sent' # sent
    /\ UNCHANGED disk /\ UNCHANGED history
    /\ UNCHANGED <<specApproved, clock, cmd>>

\* The specification is approved, or edited after it was.
approve ==
    /\ Charge(Procs, 1)
    /\ specApproved' = ~specApproved
    /\ UNCHANGED disk /\ UNCHANGED history /\ UNCHANGED <<clock, spent, sent, cmd>>

Init ==
    /\ usage = initialRunUsage
    /\ gates = emptyGates
    /\ gap = [g \in Gaps |-> "none"]
    /\ log = [ph \in PhaseNames |-> NoRecord]
    /\ candidate = 0
    /\ cache = [s \in Sessions |-> FALSE]
    /\ telemetry = [s \in Sessions |-> FALSE]
    /\ phase = Phases[1]
    /\ revision = 1
    /\ specApproved = FALSE
    /\ clock = 1
    /\ spent = [s \in Sessions |-> 0]
    /\ sent = {}
    /\ cmd = [p \in Procs |-> NoPlan]
    /\ spare = MaxSpare
    /\ delivered = {}
    /\ failures = 0
    /\ restarted = FALSE
    /\ overwritten = FALSE

Command(p) ==
    \/ unlock(p)
    \/ \E g \in Gaps : \/ decideGapRecord(p, g)
                       \/ decideGapVerdict(p, g)
                       \/ decideGapWaiver(p, g)
    \/ gatesRecord(p)
    \/ metricsRefresh(p)
    \/ repairLoop(p)

Step(p) ==
    \/ \E m \in sent : Charge(Procs \ {p}, IF m \in delivered THEN 1 ELSE 0) /\ hook(p, m)
    \/ \E s \in Sessions :
          Charge(Procs \ {p}, IF Recorded(log) = {} THEN 0 ELSE 1) /\ phaseStart(p, s)
    \/ Charge(Procs \ {p}, 0) /\ completePhase(p)
    \/ Charge(Procs \ {p}, 1) /\ Command(p)
    \/ commit(p)
    \/ refuse(p)

Next ==
    \/ \E p \in Procs : Step(p)
    \/ tick
    \/ \E s \in Sessions : emit(s)
    \/ approve

Spec == Init /\ [][Next]_vars

-----------------------------------------------------------------------------
(* Properties *)

\* However hooks are delayed, repeated and reordered, and whatever runs beside
\* them, the usage of a session is the highest count recorded of it, and the
\* run's is the sum.
UsageIsTrue ==
    /\ \A s \in Sessions : usage.cum[s] =
          Max({0} \cup {m.cum : m \in {h \in delivered : h.session = s /\ h.cum # NoUsage}})
    /\ usage.total = MapThenSumSet(LAMBDA s : usage.cum[s], Sessions)

\* The phases of a run add up to its usage: each token is charged to one phase.
AllTokensAttributed ==
    Recorded(log) # {} => usage.total = earliestRunBaseline(log) + Attributed(log)

\* That is so as long as no phase is measured a second time.
TokensConserved == ~restarted => AllTokensAttributed

\* The stop-loss is latched exactly by an epoch that spent its budget, and the
\* gates know of it, as of a fault in the measurement.
LatchFollowsUsage ==
    /\ usage.exhausted <=> Spent(usage, Budget)
    /\ ~overwritten => /\ usage.exhausted => gates.exhausted
                       /\ usage.fault => gates.tripped

\* The gates name every open gap and no answered one, unless the facts were
\* derived past the specification's approval, where they name none.
OpenGapsOnFile ==
    gates.open = IF gates.post THEN {} ELSE {g \in Gaps : isOpenGap(g, gap)}

\* Two hooks about the same failure are two observations of the candidate.
FailuresCounted == candidate = failures

\* A phase completes on gates that read clear, and is not let past a budget
\* exhausted between the reading and the commit.
StopLossStops ==
    [][\A p \in Procs :
          cmd[p].kind = "complete" /\ cmd'[p].kind = "idle" /\ revision' # revision
              => overwritten \/ ~gates.exhausted]_vars

\* The exhausted latch is released only with a new budget epoch.
OnlyUnlockReleases ==
    [][gates.exhausted /\ ~gates'.exhausted => usage'.baseline = usage'.total]_vars
=============================================================================
