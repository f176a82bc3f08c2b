-------------------------- MODULE PhaseMeasurements --------------------------
(* The policy of the phase measurement log and of the run's token usage      *)
(* (domain/measurements, domain/hooks).  A log holds at most one record per   *)
(* phase of the run; a record owns the tokens of the sessions contributing   *)
(* to it.  A session reports its cumulative count, so what a phase consumed  *)
(* is the growth between its checkpoint and the session's previous one.      *)
(*                                                                           *)
(* A log is a function from phases to records; no record is a record of      *)
(* status "none".  Times are logical; a checkpoint at time 0 is none.        *)
EXTENDS Naturals, Sequences, FiniteSets, FiniteSetsExt

CONSTANTS
    Phases,            \* the phases measured, a subsequence of the run phases
    Sessions,          \* host and subagent sessions
    NoSession,
    NoUsage,           \* a hook that carries no token count
    MaxContributors    \* MAX_PHASE_MEASUREMENT_CONTRIBUTORS

ASSUME PhasesAssumption == Phases \in Seq(STRING) /\ Phases # <<>>
ASSUME SessionsAssumption == IsFiniteSet(Sessions) /\ NoSession \notin Sessions
ASSUME ContributorsAssumption == MaxContributors \in Nat \ {0}

PhaseNames == {Phases[i] : i \in 1..Len(Phases)}
phaseOrder(phase) == CHOOSE i \in 1..Len(Phases) : Phases[i] = phase

Checkpoint == [cum : Nat, at : Nat]
Record ==
    [status : {"none", "running", "completed", "interrupted"},
     owner : Sessions \cup {NoSession},
     contributors : SUBSET Sessions,
     checkpoints : [Sessions -> Checkpoint],
     started : Nat, ended : Nat, baseline : Nat, gross : Nat]

NoRecord ==
    [status |-> "none", owner |-> NoSession, contributors |-> {},
     checkpoints |-> [s \in Sessions |-> [cum |-> 0, at |-> 0]],
     started |-> 0, ended |-> 0, baseline |-> 0, gross |-> 0]

Recorded(log) == {ph \in PhaseNames : log[ph].status # "none"}
Running(log) == {ph \in PhaseNames : log[ph].status = "running"}

-----------------------------------------------------------------------------
(* Allocation of the sessions' tokens *)

Checked(log, s) == {ph \in Recorded(log) : log[ph].checkpoints[s].at # 0}

\* What the session had reported when it came to this phase.
Before(log, s, ph) ==
    LET earlier == {q \in Checked(log, s) : log[q].started < log[ph].started}
    IN  Max({0} \cup {log[q].checkpoints[s].cum : q \in earlier})

Contribution(log, s, ph) ==
    IF ph \in Checked(log, s)
    THEN log[ph].checkpoints[s].cum - Before(log, s, ph) ELSE 0

\* checkpointAllocations: the tokens the checkpoints give a phase.
Allocated(log, ph) == MapThenSumSet(LAMBDA s : Contribution(log, s, ph), Sessions)

\* The check checkpointAllocations makes of every session.
hasValidCheckpointChronology(log) ==
    \A s \in Sessions : \A ph, q \in Checked(log, s) :
        ph # q => /\ log[ph].started # log[q].started
                  /\ log[ph].started < log[q].started =>
                        log[ph].checkpoints[s].cum <= log[q].checkpoints[s].cum

\* chronologicalRunRecords: by start, then by phase.
Precedes(log, ph, q) ==
    \/ log[ph].started < log[q].started
    \/ log[ph].started = log[q].started /\ phaseOrder(ph) < phaseOrder(q)

earliestRunBaseline(log) ==
    log[CHOOSE ph \in Recorded(log) :
            \A q \in Recorded(log) \ {ph} : Precedes(log, ph, q)].baseline

hasValidBaselineChronology(log) ==
    \A ph, q \in Recorded(log) :
        Precedes(log, ph, q) => log[ph].baseline <= log[q].baseline

hasValidCheckpointResiduals(log) ==
    \A ph \in Recorded(log) : log[ph].gross >= Allocated(log, ph)

Attributed(log) == MapThenSumSet(LAMBDA ph : log[ph].gross, Recorded(log))

-----------------------------------------------------------------------------
(* Which record a session's report belongs to *)

Contains(record, at) ==
    record.started <= at /\ (record.status = "running" \/ at <= record.ended)

\* By the time of the event: the record open then, or else the latest one
\* begun before; more than one candidate either way is nobody.
resolvePhaseMeasurementOwner(log, s, at, candidate) ==
    LET candidates == {ph \in Recorded(log) : s \in log[ph].contributors} \cup candidate
        containing == {ph \in candidates : Contains(log[ph], at)}
        begun == {ph \in candidates : log[ph].started <= at}
        latest == {ph \in begun : \A q \in begun : log[q].started <= log[ph].started}
        selected == IF containing # {} THEN containing ELSE latest
    IN  CASE candidates = {} -> [kind |-> "absent", phases |-> {}]
          [] candidates # {} /\ Cardinality(selected) = 1 ->
                [kind |-> "owned", phases |-> selected]
          [] OTHER -> [kind |-> "ambiguous", phases |-> {}]

hasValidCheckpointOwnership(log) ==
    \A s \in Sessions : \A ph \in Checked(log, s) :
        resolvePhaseMeasurementOwner(log, s, log[ph].checkpoints[s].at, {}).phases = {ph}

\* hasValidCheckpointState and hasValidMeasurementSemantics of one record.
hasValidMeasurementSemantics(record) ==
    /\ record.owner \in record.contributors
    /\ Cardinality(record.contributors) <= MaxContributors
    /\ \A s \in Sessions : record.checkpoints[s].at # 0 =>
          s \in record.contributors /\ record.checkpoints[s].at >= record.started
    /\ record.status # "running" => record.ended >= record.started

assertValidMeasurementSet(log) ==
    /\ hasValidBaselineChronology(log)
    /\ hasValidCheckpointChronology(log)
    /\ hasValidCheckpointResiduals(log)
    /\ hasValidCheckpointOwnership(log)

\* What parsePhaseMeasurementLog accepts.
Readable(log) ==
    /\ \A ph \in Recorded(log) : hasValidMeasurementSemantics(log[ph])
    /\ assertValidMeasurementSet(log)

\* measurementTarget: the record a hook is charged to.  A hook with a count
\* may claim the running record for its session.
measurementTarget(log, hook) ==
    LET eligible == IF hook.cum = NoUsage THEN {} ELSE Running(log)
        found == resolvePhaseMeasurementOwner(log, hook.session, hook.at, eligible)
        target == CHOOSE ph \in found.phases : TRUE
        claim == hook.session \notin log[target].contributors
    IN  CASE Cardinality(eligible) > 1 \/ found.kind = "ambiguous" ->
                [kind |-> "corrupt", phase |-> "none"]
          [] Cardinality(eligible) <= 1 /\ found.kind = "absent" ->
                [kind |-> IF hook.cum = NoUsage THEN "none" ELSE "corrupt", phase |-> "none"]
          [] OTHER ->
                [kind |-> CASE ~claim -> "owned"
                            [] claim /\ Cardinality(log[target].contributors)
                                          < MaxContributors -> "claim"
                            [] OTHER -> "corrupt",
                 phase |-> target]

-----------------------------------------------------------------------------
(* Changes of the log *)

startPhaseMeasurement(s, at, total) ==
    [NoRecord EXCEPT !.status = "running", !.owner = s, !.contributors = {s},
                     !.started = at, !.baseline = total]

addPhaseMeasurementContributor(record, s) ==
    [record EXCEPT !.contributors = @ \cup {s}]

\* completePhaseMeasurement, interruptPhaseMeasurement.
Closed(record, status, at) ==
    IF record.status = "running" THEN [record EXCEPT !.status = status, !.ended = at]
    ELSE record

\* The session's checkpoint in the target never goes back.
Staged(log, ph, hook) ==
    LET claimed == addPhaseMeasurementContributor(log[ph], hook.session)
        previous == claimed.checkpoints[hook.session]
    IN  [log EXCEPT ![ph] =
            IF previous.at # 0 /\ previous.cum >= hook.cum THEN claimed
            ELSE [claimed EXCEPT !.checkpoints[hook.session] =
                                    [cum |-> hook.cum, at |-> hook.at]]]

\* Tokens no checkpoint accounts for stay with the phase that has them; the
\* others are allocated anew.
Reallocated(log, staged) ==
    [ph \in PhaseNames |->
        IF log[ph].status = "none" THEN log[ph]
        ELSE [staged[ph] EXCEPT
                !.gross = (log[ph].gross - Allocated(log, ph)) + Allocated(staged, ph)]]

\* reconcileContributorCheckpoint succeeds: the checkpoints stay chronological
\* and the phases still add up to the run's usage.
Reconcilable(log, ph, hook, total) ==
    LET staged == Staged(log, ph, hook)
    IN  /\ hook.at >= log[ph].started
        /\ hasValidCheckpointChronology(staged)
        /\ LET next == Reallocated(log, staged)
           IN  /\ total = earliestRunBaseline(next) + Attributed(next)
               /\ Readable(next)

reconcileContributorCheckpoint(log, ph, hook) == Reallocated(log, Staged(log, ph, hook))

\* recoverPhaseMeasurements: the running record left behind by a process that
\* died takes what no phase has been charged with, and is closed.
Recoverable(log, stale, total) ==
    stale # {} => /\ Cardinality(Running(log)) = 1
                  /\ total >= earliestRunBaseline(log) + Attributed(log)

recoverPhaseMeasurements(log, stale, at, total) ==
    [ph \in PhaseNames |->
        IF ph \in stale
        THEN Closed([log[ph] EXCEPT !.gross =
                        @ + (total - (earliestRunBaseline(log) + Attributed(log)))],
                    "interrupted", at)
        ELSE log[ph]]

-----------------------------------------------------------------------------
(* Usage of the run *)

Usage == [total : Nat, cum : [Sessions -> Nat], seen : SUBSET Sessions,
          baseline : Nat, exhausted : BOOLEAN, fault : BOOLEAN]

initialRunUsage ==
    [total |-> 0, cum |-> [s \in Sessions |-> 0], seen |-> {}, baseline |-> 0,
     exhausted |-> FALSE, fault |-> FALSE]

\* Whether the epoch has spent its budget; a budget of 0 is none.
Spent(usage, budget) == budget # 0 /\ usage.total - usage.baseline >= budget

recordUsageSample(usage, hook, budget) ==
    IF hook.cum = NoUsage
    THEN [usage EXCEPT !.fault = @ \/ budget # 0]
    ELSE IF hook.cum <= usage.cum[hook.session] THEN usage
    ELSE LET grown == [usage EXCEPT
                         !.total = @ + (hook.cum - usage.cum[hook.session]),
                         !.cum[hook.session] = hook.cum,
                         !.seen = @ \cup {hook.session}]
         IN  [grown EXCEPT !.exhausted = @ \/ Spent(grown, budget)]

\* The count starts over with the epoch.
unlockStopLossRestarts(usage) ==
    [usage EXCEPT !.baseline = usage.total, !.total = 0,
                  !.exhausted = FALSE, !.fault = FALSE]

unlockStopLoss(usage) ==
    [usage EXCEPT !.baseline = usage.total, !.exhausted = FALSE, !.fault = FALSE]

\* budgetExhausted of a count the host reports itself.
budgetExhausted(budget, used) == budget # 0 /\ used >= budget
=============================================================================
