# Formal models of the Kratos runtime

Kratos keeps the state of a feature workflow in plain files below `.brain/` of a
project.  Every command is a separate process; nothing runs between commands and
nothing but files connects them.  What makes the system correct is therefore
what its files say after any interleaving of processes, crashes, power losses,
failing calls and people with editors.  This directory models that part.

All paths below are relative to `packages/runtime/src/` unless they start with
another top-level directory.

## Inventory

| Component | State | Operations | Interacts through | What is hard | Correct when |
| --- | --- | --- | --- | --- | --- |
| Managed transactions (`composition/transactions.ts`, `domain/transactions`, `infra/node/transactions.ts`) | one journal directory per transaction: `progress.json`, `progress.next`, `manifest.json`, `staging/` | preflight, execute, inspect, recover | every mutating command (`applyPlan`) | crash between any two calls, unsynchronised directories, concurrent processes, edits | a manifest takes effect as a whole or not at all, and every answer is true |
| Lease policy (`domain/locks`) | lease document and its event stream per resource | acquire, renew, release, take over | lease commands | expiry, skew, stale identities | at most one holder whose writes count; tokens only grow |
| Lock claims and admission (`composition/locks.ts`) | claim directories, admission candidates, generations, markers, tombstones, quarantines | publish, elect, retire, help, recover | lease operations run under a claim, claims under the admission | helping, expiry of slow processes | one holder per scope, and no dead process blocks the living for good |
| Event store (`domain/events`, `composition/events.ts`) | hash-chained `events.jsonl`, snapshot `state.json` | append, verify, replay, repair | written through transactions | stale cursor, torn pair, snapshot older than the stream | the chain only grows and the snapshot is its fold |
| Workflow (`domain/workflow`, `composition/workflow.ts`) | run state derived from events | start, continue, done, agent record, repair, restart | event store, gates, approvals | decisions from stale facts, redelivery, illegal phase orders | phases in order, no phase without its artifacts and approvals |
| Gates, approvals, evidence (`domain/gates`, `domain/approvals`, `domain/evidence`) | digests of artifacts, gate facts | evaluate, approve, record | workflow | an approval outlives what it approved | an approval counts only for the bytes it names |
| Objective (`domain/objective`) | objective, its history, the active feature | create, replace, reopen | write guard | identity under replacement, unguarded writes | the history tells the objective |
| Repair loop and stop-loss (`domain/repair-loop`, `domain/hooks`, `composition/unlock.ts`) | attempts, stops, usage, latches | count, stop, resolve, unlock | hooks of the host | limits, lost counts | attempts and tokens are bounded, and only a decision lifts a stop |
| Host protocol (`domain/host`, `composition/host.ts`, `packages/adapters`) | hook cache, measurement log | hook, phase start | agent hosts | duplicate, late or reordered answers | a token is counted once, in the phase that spent it |
| Migration (`domain/migration`, `composition/migration.ts`) | receipts, attempts, backups | preview, apply, roll back | transactions | a source that moved since the preview | what was previewed is what is applied, and can be undone |
| Memory, gaps, measurements (`domain/memory`, `domain/gaps`, `domain/measurements`) | ledger, projection, candidates; gap files; measurement log | promote, reinforce, merge, archive, curate | transactions | stale observations, failed clean-ups | observations are never lost or counted twice |
| Write guard (`domain/write-guard`) | none; reads four policy files | decide a write, record a scope | host hooks, objective | the files move while it reads | nothing outside the allowed paths |
| Command pipeline (`composition/cli.ts`, `composition/index.ts`) | none of its own | observe, decide, preview, revalidate, commit, clean up | all of the above | the state moves between two of its steps | what is committed was decided on what is there |
| Contracts and schemas, discovery, init, git, results, diagnostics, roles, extensions, differential harness, distribution | none of their own | parse, render, read | all of the above | little beyond their data formats | unit tests reach them |

`PROJECT.json` lists every component with its sources and status, and the
hazards at their lines.

## Modules

Each component has a state machine, the pure decisions it rests on in a module of
their own where they are many, and an `MC` module with the instances for TLC.

| Module | Models |
| --- | --- |
| `TransactionModel` | the pure part of transactions: operations, plan validation, normalisation of effects, journal, `decideRecovery` |
| `ManagedTransaction` | the driver: preflight, `driveExecution`, `persistProgress`, `driveRecovery`, `classifyDriverFailure`, over a file system with durable and volatile contents |
| `AtomicCommit` | the abstract promise: a manifest commits as a whole, on the destinations its caller observed, or aborts |
| `ManagedTransactionProofs` | theorems `TypeCorrect`, `PhasesForward`, `NothingUnauthorized`, `AnswersTrue` and the inductive invariants `Shape`, `Custody` and `Honest` |
| `TransactionGuarantees` | theorems `NeverBlocked` and `TransactionsAreAtomic`, `PublicationIsDurable`, `CommitIsDurable` and `PowerLossRecoverable`, and the inductive invariants `Atomic`, `Durable` and `Steady` |
| `LeasePolicy` | the pure part of leases: time, the four decisions, legal trails, `verifyLeaseBinding` |
| `LeaseLocks` | sessions that inspect, acquire, renew, release and take over leases and recover claims |
| `LeaseLocksProofs` | theorems `TypeCorrect`, `PairsAgree`, `NoClaimLeftSilently`, `HistoriesExtend`, `AtMostOneHolder`, `RunsStayApart` and the inductive invariants `Inv`, `Held` and `Apart` |
| `AdmissionRecords` | the records below one admission or claim, file by file: candidates, generations, election, marker, tombstone, quarantine, sweeping |
| `AdmissionRecordsProofs` | theorems `TypeCorrect` and `HolderPublished` and the inductive invariant `Admitted` |
| `EventChain` | sealing, parsing, verification and replay of the event stream |
| `EventStore` | append, audit, repair and recovery over `events.jsonl` and `state.json` |
| `EventStoreProofs` | theorems `TypeCorrect`, `AppendsExtend`, `AcceptedStays`, `PairsAgree` |
| `RunPolicy` | phases, criteria, repair attempts and stops, and the reducer of every event |
| `Workflow` | the commands that drive runs, over the documents they read and bind |
| `WorkflowProofs` | theorems `TypeCorrect`, `OperationsDeliveredOnce`, `CompletionApproved`, `StopsHold`, `FrozenCriteriaGrow` |
| `PhaseMeasurements` | the measurement log: contributors, checkpoints, attribution, usage, stop-loss |
| `HostHooks` | hooks, phase starts, completions, gap and gate records, unlock and refresh |
| `CuratedMemory` | the memory ledger: promote, reinforce, merge, archive, projection, upgrade |
| `Migration` | the memory commands, curation, the three migrations and their rollbacks |
| `MigrationProofs` | theorems `CommitsAsReviewed`, `RollbacksRestore`, `HandNotesKept` and `AttemptsNumbered` and the inductive invariants `Reviewed` and `Numbered` |
| `WriteGuard` | objective and scope commands, and the guard that reads their files |
| `WriteGuardProofs` | theorems `TypeCorrect`, `GuardAllowsThePermitted`, `HistoryIsTrue` and the inductive invariant `Inv` |

Modules compose through what they share: a commit is one step in `Workflow`,
`HostHooks` and `Migration` because `ManagedTransaction` shows it to
be all-or-nothing, and that step has exactly the preconditions (`expected`
fingerprints) the code hands to the transaction.  `EventStore` and `WriteGuard` keep
the transaction's own steps, because others read or write the same files between two
of its publications.  The admission is one step in `LeaseLocks` and many in
`AdmissionRecords`.

### How ManagedTransaction corresponds to the code

*State.*  `jn[t]` is the directory `.brain/transactions/<t>/` and `dest` the
managed destinations, both as a process sees them; `disk` holds what a power
loss would leave of both.  `drv[w]` is the control state of the call process `w`
has in progress: `pc` names the next file-system call, `mem` the progress
document the driver holds in memory, `sync` the directory it is about to
synchronise, `sure` is `validatedRecovery || publishingAuthorized`, `why` the
error on its way to the classification.  `ops[t]` is the content of the manifest
and, because payloads are content-addressed, of the payloads.  `applied` is a
history variable: which operations took effect on behalf of which transaction.

*Actions.*  Every call that changes a directory is an action of its own, and the
`syncDirectory` behind it another one (`Sync`), so a crash, a fault, an edit or
another process can come between any two of them.  `persistProgress` is
`ClearNext`, `WriteNext`, `RenameNext` and a `Sync`; writing a payload or a
manifest first creates it (`torn`) and then fills it.  Reads that only feed one
decision are taken in one step: the observation of `observeTransaction`, the
listing of `inspectManagedTransactions`, the checks before one publication.

*Environment.*  `Crash` ends a process, `Fault` makes the next call throw,
`PowerLoss` ends all processes and keeps, of the changes no synchronisation
covered, any subset of journal directories and destinations, and `Edit` is a
person changing a file.  Their number is bounded by `MaxCrash`, `MaxFault`,
`MaxPower` and `MaxEdits`.

*Abstractions.*  Fingerprints are `Missing`, `Directory` or a content.  A rename
reaches the disk at both ends or at neither; unsynchronised changes of one
journal directory reach it all or none.  Transaction identifiers are never
reused.  Whether the platform can synchronise directories (`directorySync`) is
not recorded, and the rewrite of a terminal document that only updates it is left
out.  The content of `progress.next` is whole when it exists: it is written and
synchronised before the rename, and never read.  The two reads of a summary in
`recoverManagedMutation` and `driveRecovery` are one.

### How LeaseLocks corresponds to the code

*State.*  `claim[r]`, `trail[r]` and `lease[r]` are the files `claim/`,
`events.jsonl` and `lease.json` of the scope of resource `r`; `admission` is the
project's admission claim; `txs` are the lease transactions with a marker.  A
trail is the sequence of its transitions, each with the lease it produced, which
is what the hash chain and the digests protect; comparing two guards
(`sameGuard`) is comparing trails and leases.  `sess[s]` is the call session `s`
has in progress: `goal` is the operation it wants the admission for, `after`
where it goes on when it has left it.  `guard[s]` is the observation the session
works with: from an inspection or from its last successful transition.  `asked[s]`
(the resources a session has asked for) and `unbuilt` (the sessions that failed to
build an admission record) are history variables.

*Actions.*  A call runs through `Before` (the look of `acquire` and `release`),
`PreAdmission` (`acquireClaim`), `Admit`, `Elect`, `Again` and `BuildFails`
(`withAdmission`), `Hold`,
`CheckFamily` and `TakeClaim` (`acquireClaimHeld`), `LeaveAdmission`, then
`Decide`, the steps of the transaction, `Confirm`, and through the admission
again to `Unclaim` and `Unmark`.  An inspection of one resource is one step, and
so are publishing a claim (an exclusive rename) and retiring an admission record,
whose inner steps are `AdmissionRecords`.  A lost election is answered from a second
look at the admission: another contender, a release, or nobody at all (`Again`).  A
record that cannot be built is answered with whoever holds the admission, of whichever
scope, and may stay behind as the claim of a call that is over (`BuildFails`).  Marking a claim for clean-up and removing it are two, because others help in
between.  The transaction is reduced to preflight, marker, authorisation and the
publications of the trail and of the lease; each publication is checked against
the file it replaces in the same step (`tx_two` looks at the transaction itself).

*Environment.*  Time passes, `Offset[s]` is how far the clock of a session runs
ahead, at most the skew; processes crash or fail to build a record, `MaxFailure`
times together; abandoned transactions are recovered.  `Works` says which resources a session works on.

*Abstractions.*  The state revision of a lease is not distinguished, so
`ExactIdentity` is as weak as it is between renewals that keep the revision.
The bound of 64 elections is left out: each lost election takes a whole
administration of somebody else.  The bound of 16 observations of a trail
without a lease is a choice: such a trail may be reported at any time.

### How AdmissionRecords corresponds to the code

*State.*  Every attempt opens a generation of its own.  `gen[g]` is where the
directory of generation `g` is (candidate, quarantine, published claim) and what is
in it: the inner directory, `claim.json` (`empty` between its opening and its
writing), the tombstone `.retired-<g>.json`, the marker `.cleanup-<g>/`.  `parent`
is the directory `.admission/claim`.  `proc[p]` is the call of process `p`: its next
durable call and what it has read so far.  `HalfBuilt` are the candidates a process
created and has not written.

*Actions.*  One for each durable call of `withAdmission` and of what it calls to
build, publish, sweep, elect, help and retire; a call and the synchronisation behind
it are one step, except where the failure of the synchronisation is a case of its
own (removing the generation).  A call that starts while no other process is in one
and all records have expired is flagged `alone`.  `Tick` and `Crash` are the
environment.

*Abstractions.*  The legacy records (`claim/claim.json`, recovery markers) are only
validated by the code and are left out.  Times are ticks; the lifetime and the skew
are one tick each, and the second process is ahead by the skew, so the records of
the first expire for it within the bound.

### How EventStore corresponds to the code

`files` are `events.jsonl` and `state.json`; an event is its draft, its revisions
and its hash, and a hash is the value digested (no two values share one); as an
event holds the hash before it, a hash is everything digested so far.  Type and
effect of an event go with its reason.  The reducer only remembers reasons here;
`RunPolicy` has the real one.  Every file read of `proc[p]` is a step, and `tx[p]`
is the transaction cut down to preflight, marker, precheck, authorisation, one look
and rename per file, and commit; `Recover` takes an abandoned transaction forward
one operation at a time.  A person is assumed to authorise the repair plan that
stands.  `Edit` is a hand edit of one file.

### How Workflow corresponds to the code

`run[r]` is the state `RunPolicy` replays from the run's events; `activeRun`,
`docs`, `tasks`, `approvals`, `evidence`, `frozen`, `verdict` and `lineage` are the
files around it, and `snapshot[r]` says how `state.json` compares with the replay.
`cmd[p]` is a command between its decision and its commit: the event it decided on,
the revision it must extend, and what else it writes.  All refusals are one value.
The digest of an artifact is the version that wrote it.  There is one evidence file
a run.  `factsClear` stands for the gate facts and `measured[r]` for the running
measurement: both belong to `HostHooks`.  Observation is one step because the commit
compares the event stream again; what the code does not compare again may move
between the two steps here too.  `spare` is the budget of hand edits and optional
commands (`MaxSpare`); redelivery is free.

### How HostHooks corresponds to the code

One run.  `usage`, `gates`, `gap`, `log`, `candidate`, `cache` and `telemetry` are
files; `sent` are the hooks the host has emitted: each carries the time and the
cumulative count of its emission, and may be delivered late, twice, after its
successor or never.  `spent` is what a session has really consumed.  `cmd[p]` is a
plan: what it writes, what it guards and what it saw.  `derivedAt` is not modelled,
nor the branch that recovers accepted transitions from logs of older versions.

### How Migration and CuratedMemory correspond to the code

A lesson is a title and the candidates it was confirmed by; a candidate file of
`inbox` is the number of its observations and the instant of the last, which is what a
plan that read it compares (no two captures are of one instant).  Three history
variables keep the account of observations: `counted` says how many of the observations
in a candidate file some lesson has counted already, `recounted` how many of those were
counted again, and `twins` that a reinforcement made copies of a lesson.  `files` holds the ledger, its rendering
`gotchas.md`, the configuration and the files of a legacy Brain; a member of
`bundles` is a migration's backup, receipt and rollback record.  A digest is the
value it digests.  `proc[p]` previews, waits for its review, applies and cleans up
the candidates it consumed, one transaction each; brain migration applies without a
digest, as in the code.  Similarity scores, reviewers, dates and the 48 KiB limit
are left out.  Configuration answers, catalogues and the versions 1.0 to 1.4 are one
step from the old version to the current one.

### How WriteGuard corresponds to the code

*The guard* reads `guardrails`, `active`, `scopes` and `summaries` one after the other
(`guard`).  A glob is the set of paths it matches; `link` says which path a path really
is.  `permitted` is a history variable: what the policy on file permitted at some
instant of the evaluation.  What the host writes after it was allowed is not modelled
(`docs/user/hosts.md` names that gap), and neither is the token ceiling.

*Commands.*  `proc[p]` is an `objective` or `scope record` command: what it read, the
plan it made, and what `applyPlan` (`composition/index.ts`) observed of each
destination.  The plan of an objective is four `Write`s, of `state.json`
(`states`), `objective.md` (`documents`, as the state it renders),
`objective-history.jsonl` (`history`) and `active`, and guards nothing it read; that
of a scope is one and expects the `scope.json` it read.  A completed objective can only
be a starting state: no command completes one.  The first lines of `active` that are no
name differ for the two readers: a blank one is no objective to a command and an
invalid policy to the guard (`nameless`), any other is a broken feature to both
(`corrupt`).

*Transactions.*  `tx[p]` is the journal of the command's transaction, cut to what other
commands can see: the two preflights, the marker, the preconditions, the authorisation,
then for each operation a look at the destination, the rename and a look at the result,
and the final look at all of them.  A command may die before any of these (`crash`);
`recover` drops a transaction that was not authorised and carries on one that was, file
by file, until a destination is neither what it expects nor its result.  A document in
`tx[p]` that says `committed` is not told from no journal: it names no work.

*Environment.*  A person edits or removes each policy file and replaces a path by a
link.  `Budgets` bounds commands, requests, edits and crashes together.  The guard's
request is `disturbed` when the policy was changed by hand under it, or when the rename
of a scope replaced a `scope.json` that had appeared after the command's last look.

## Runs

Deadlock is not checked anywhere: callers may stop asking, and every instance has
a bounded supply of requests, identifiers or edits.  What must not get stuck is
stated as a property (`EveryTransactionEnds`, `EveryCallReturns`,
`EveryAttemptEnds`, `AloneSucceeds`, `AlwaysRecoverable`, `AlwaysRollsForward`).

### Transactions

The instance has a directory `D`, a file `F` in it and a file `G` beside it, two
contents, two transactions and up to three operations a manifest: enough for all
three kinds of operations, for a parent created by the same manifest, for a
mixed state with operations done, in flight and open, and for a second
transaction that meets the residue of the first.

| Run | Environment | Checks |
| --- | --- | --- |
| `tx_power` | 1 process, 3 power losses | with every synchronisation where the code has it, a durable effect has a durable authorisation, a durable `committed` has durable results, recovery is never blocked |
| `tx_crash` | 1 process, 2 crashes, 1 fault, fair | in an execution, its recovery, and the recovery of that: nothing is published without authorisation; refinement of `AtomicCommit`, whose linearisation point is the rename that makes `progress.json` say `publishing`; every marked transaction ends, without residue |
| `tx_two` | 2 processes, 1 crash, 1 edit | answers stay true and phases move in the legal order for two processes that know nothing of each other while a person edits guarded and managed files |

Three power losses let one strike an execution, one its recovery and one the
next transaction.  `ProgressTrailsEffects` (progress trails the effects by at most
one operation) is the lemma behind `AlwaysRecoverable`; it holds on these
instances and is kept for the proofs.

### Leases and admission

| Run | Instance | Checks |
| --- | --- | --- |
| `lk_two` | 2 sessions, one on the project and a run, the other on the project, 2 failures (crashes or records not built), claims that outlive the run of the model | project and run are never held at once, a claim left behind was reported, an authorised transition can be finished, tokens stay within their bound (here 1) |
| `lk_slow` | 2 sessions, the project only, 1 failure, claims that expire after one tick | one holder at a time, trail and lease agree |
| `lk_returns` | 2 sessions on a run each, one of them also on the project, 2 failures, fair | a session that could build its records is refused only for a reason in its own family, every call returns |
| `ad_run` | 2 processes, one of them on a run and then on the project, 1 crash, records that live one tick, at most 2 elections, fair | a working holder is the published one, a call made alone succeeds unless a record was created and never written, every attempt ends |

One session's clock runs ahead by the whole skew.  Two calls a session are enough
for an acquisition that is renewed, released, taken over or recovered by the
other, and a tick is the skew: a lease is writable, in skew and eligible for
takeover within the bound.  `lk_two` assumes that nobody is slower than a claim
lives: an admission that expires while its holder is between the family check and
its claim admits another one.  `lk_slow` drops that assumption for what still
holds without it.  There, `AlwaysRollsForward` fails: when a claim is recovered
while its holder stands between preflight and marker, two transactions are
authorised over the same files, and the one that comes second can neither be
published nor recovered.

### Events, workflow, hooks, memory and guard

| Run | Instance | Checks |
| --- | --- | --- |
| `ev_run` | 3 processes (two appends, one append, one repair), streams of at most 2 events, 1 crash, 1 edit | whatever is appended extends a genuine stream by exactly one event; an accepted event stays; between publications, snapshot and stream agree |
| `wf_run` | 2 runs, 2 criteria, 2 processes, ceilings 1 and 2, one hand edit or side command | a run completed was approved as it stood; an operation delivered again has no second effect; a stopped run moves only after its stop was resolved; frozen criteria only grow |
| `hk_run` | 2 sessions, 2 processes, 3 phases, budget 2 | the usage on file is what was spent, tokens are attributed once, no phase completes past an exhausted budget |
| `me_run` | 2 processes, 2 candidates, limits of 2, three starting projects | no observation is lost, and exactly those of a candidate consumed a second time are counted again; a rollback restores what its migration found and discards no later work; what is applied is what was reviewed |
| `wg_run` | 2 features, 4 texts (one without a usable name), 3 paths, 2 processes; 3 commands, or 2 with two crashes, or 2 with a request, or 1 with a request and an edit or a crash | whatever the guard allows, the whole policy permitted at some instant while it ran; the files of an objective tell the same wherever no transaction is left publishing |

Why these bounds are enough: `ev_run` has two writers, so that one can go stale,
and a third process to repair under both; its limit of two events makes the third
append meet `EVENT_STREAM_COUNT`.  In `wf_run` ten revisions take a run from start
to done with a rejection or a stop on the way, and two criteria are the fewest for
which one can be added, removed or exchanged.  In `hk_run` two sessions are the
fewest that can contribute to one phase, and a budget of 2 is exhausted by one or
by two of them.  In `me_run` two candidates fill a ledger of two,
and four captures, edits and optional commands let a candidate be consumed twice, be
left behind and be captured anew; two lessons of one identity meet in a reinforcement
only with five, with which `ObservationsConserved` holds as well.  `wg_run`'s three
paths are a free, a protected and an immutable one, and three commands are two that
publish side by side and one that meets what they left.

These hold on the same instances, and are kept beside the run's properties because
they narrow down what broke when one of those fails: `HistoryExtends` (leases),
`PlanWasApproved`, `AttemptsMatchStops`, `HandoffIsAtomic` (workflow),
`LatchFollowsUsage`, `OpenGapsOnFile`, `FailuresCounted` (hooks),
`ProjectionAgrees`, `LineageHasOneHead`, `HandWorkKept` (memory and migration).

### Fairness

*Transactions* (`FairSpec`).  Weak fairness of a process's own steps: a running
process is scheduled.  Strong fairness of recovery requests with the right token
for incomplete transactions: no command recovers implicitly, so termination rests
on somebody asking, which every refused command tells them to do
(`runtime.recovery_required`).

*Leases* (`FairSpec` of `LeaseLocks`).  Weak fairness of a session's own steps;
nobody is obliged to recover anything, and time need not pass.

*Admission* (`Spec` of `AdmissionRecords`).  Weak fairness of a running process's
own steps; it need not begin another call, nobody has to crash, and time need not
pass.

The other machines have no fairness: each of their commands ends after a fixed
number of steps, and nothing in them waits.

## Disagreements with the documentation, and remarks

These were met while modelling.  Where a definition is named, it is in the
component's module and TLC refutes it on the instances above, or with the constants
given here; the others are remarks from reading the code.  None is part of a run.

* *Terminal phases.*  Recovering a transaction whose executor still runs moves its
  document from `aborted` back to `prepared` (`composition/transactions.ts:1966`);
  `docs/architecture/atomic-transactions.md:73` says terminal phases never go back
  (`PhasesMoveForward` with `RecoverLive = TRUE`).
* *Two publishers.*  Executions whose preflights precede both markers publish side
  by side (`transactions.ts:611`; the document, line 140, says `publishing` blocks
  ordinary mutation; `OnePublisher`).  In the event store two such appends can lose
  an accepted event or leave a mixed pair behind (`OnePublisher` of `EventStore`).  Two
  objective commands can leave the state of one beside the history of the other; at least
  one of the two journals then stays, says `publishing` and, as its results do not stand,
  blocks every later command until a person puts the files in order.
* *Recovery does not synchronise* the directory of an operation it finds done
  (`transactions.ts:1190`; lines 65 to 92 of the document): when a process stops
  between a rename and its synchronisation, `committed` becomes durable before its
  results (`CommittedIsDurable` with `MaxCrash = 1`).
* *A second failing call.*  With `MaxFault = 2`, `AnswersAreTrue` fails: a failure
  in the inspection that classifies the first (`classifyDriverFailure`) reports
  `internal_failure` although a durable marker exists.
* *Project and run together.*  A run that passes a busy admission of another run is
  no longer serialised with the project (`composition/locks.ts:2572`), and both
  leases end up held (`docs/architecture/concurrency-locks.md:17`; `ScopesExclude`
  with two runs and the project).
* *Inspection.*  Between the publications of a trail and of its lease, healthy files
  are reported as `state_corrupt` (`locks.ts:3085`, comment at 3042;
  `InspectionIsTrue`).
* *Admission* (`NoFalseCorruption`).  A helper that passed the marker check reads a
  successor's record and reports corruption (`locks.ts:2442`, comment at 1298); a
  candidate seen between creating and writing `claim.json` does not parse, and a
  crash there leaves it so for every later call (`readAdmissionCandidate`); that is the
  one state in which `AloneSucceeds` admits `state_corrupt`.  Two sweepers of one quarantine, a removal
  that races a marker, and an elected loser that finds the place clear report
  internal failures.  A failure while building a record is answered with the holder of
  the admission, of an independent run too (`locks.ts:2647`; `BuildFails`), which
  `docs/architecture/concurrency-locks.md:184-189` allows; so `RunsDoNotConflict` promises
  nothing to a session this has happened to.
* *Events.*  A stale draft is answered with `runtime.state_corrupt` instead of a
  revision conflict (`StaleIsNoCorruption`), and so is any append to a full stream.
  A repair validates its plan, another transaction commits, and the plan then writes
  the older replay over the newer snapshot (`composition/cli.ts:354`;
  `RepairIsReplay`).  The lineage in `state.json` is not bound by the chain; a
  truncated tail and a repair roll a run back.
* *Resumption history.*  The state written by a resumption after a stop and the state
  replayed from its event differ (`composition/workflow.ts:2725`,
  `mergeRepairStopHistory` in the reducer,
  `docs/architecture/workflow-state-machine.md:90`; `ReadsBack`).
* *Workflow.*  `done` does not compare the document with the frozen criteria
  (`EveryCriterionPassed`); retired criteria do not accumulate over restarts; two
  racing `start`s orphan the first run; the same bytes accepted twice, or a document
  edited twice after its acceptance, leave a lineage that blocks the gates; one
  invalid evidence record blocks `done`; the acceptance verdict writes
  `02-tasks.md` without a precondition; `continue --complete` is always rejected in
  acceptance.
* *Stop-loss.*  `gates record --tokens-used` clears an exhausted budget without an
  unlock (`OnlyUnlockReleases`;
  `docs/superpowers/specs/2026-08-28-workflow-hooks-design.md:61`), and a phase
  started again drops the tokens of its closed record (`AllTokensAttributed`;
  `docs/superpowers/specs/2026-08-30-token-consumption-measurement-design.md:50`).  A
  hook emitted before every record started is refused as corrupt.
* *Memory.*  Ledgers of version 1.1 may hold one identity twice (`IdentitiesApart`;
  `docs/user/commands.md:241`).  A candidate is consumed again, and its observations
  counted again, when another command reads it between a commit and its clean-up
  (`composition/cli.ts:404`) or after a failed one; `ObservationsConserved` states the
  account with these (`recounted`), and its mutant is a clean-up that deletes what was
  captured meanwhile.  Brain migration overwrites, and its rollback deletes, without
  looking at the file again (`ProjectStateWins`; comment in
  `domain/migration/plan.ts`).
* *Objective.*  Racing commands replace an active objective without `--replace`
  (`docs/architecture/objective-lifecycle.md`, rule 3).  Returning to an earlier
  feature overwrites its history, and a command that read the history before another
  appended to it drops the other's line (`HistoryAppendOnly`).  The rename of a scope
  record replaces a `scope.json` that appeared after its last look.

## Proofs

Every theorem holds for every value of the constants its module's assumptions
admit: any sets of processes, sessions, runs, features, paths or requests and any
bounds, where a run has two or three of each.  The assumptions are those named in
the modules (`...Assumption`); they say that bounds are natural numbers, that
clocks differ by at most the skew, that markers such as `NoRun` are not values, and
what the inputs are made of, and TLC evaluates them on every run.  Each inductive
invariant was checked with TLC on the component's instances before it was proved.
A theorem of a temporal formula rests on a lemma per action.

### ManagedTransaction

* `TypeCorrect`: `Spec => []TypeOK`.  `TypeOK` is not inductive: that `idx`
  stays within a manifest and `published` within its bound depends on where the
  driver stands.  `Shape` adds `DriverShape`, which says for each place of the
  driver what its registers hold (an own transaction, a progress document in
  memory, `mem.published + 1 = idx` while publishing, a terminal phase while
  cleaning up).  The proof has a lemma per action and one lemma on what
  `DecideRecovery` can answer.
* `PhasesForward`: `~RecoverLive` implies `Spec => PhasesMoveForward`.  The
  document on disk changes only by renaming `progress.next`, so the proof needs
  that a driver's memory agrees with the disk.  `Custody` adds: no two drivers
  share a transaction, an unused identifier has no journal, journals are sane
  (`bound` and phase fit), and each driver agrees with the journal it drives
  (before the rename, `mem` may follow the document on disk legally; after it,
  they are equal).
* `NothingUnauthorized`: `~RecoverLive /\ MaxPower = 0` implies
  `Spec => []PublishedOnlyWhenAuthorized`, from `Custody`: only a driver at
  `apply` changes a destination, and it agrees with a document that says
  `publishing`.
* `AnswersTrue`: `~RecoverLive /\ MaxPower = 0 /\ MaxFault = 0` implies
  `Spec => []AnswersAreTrue`, for any number of processes that race, crash, recover and
  edit.  An answer speaks of a moment that is over, so it has to stay true.  `Honest` adds
  to `Custody` what ties an answer to the effects: every payload a `prepared` or
  `publishing` journal misses was published (`Accounted`), each driver stays in its half
  of the code (`InLane`), one that is about to record `prepared` has every payload and one
  that is about to record `committed` has every effect (`Knowing`), and a caller who was
  refused has nobody left who executes its transaction, only recoveries, which never
  authorise a publication (`AllTold`).

* `NeverBlocked` (`AlwaysRecoverable`) and `TransactionsAreAtomic` (`Spec` refines
  `AtomicCommit`), for one process at a time, no edits and no power loss, with any
  number of crashes and faults.  `Atomic` adds to `Custody` what a destination holds:
  `Sound` says of every journal that the effects are the first `k` operations of its
  manifest, each with its result, the others with what they expected, that exactly the
  payloads of the others are left, and that `k` is `published` or one more
  (`ProgressTrailsEffects`); `OneBusy`, that one transaction at most is unfinished;
  `DriversReady`, where in its manifest a driver stands.  `RecoveryDecides` then shows
  that `DecideRecovery` finds every journal of this kind prepared, in progress or
  done.  For the refinement, an observer sees the store as it was before an
  unauthorised transaction and as it will be after an authorised one; so all steps are
  silent except the one that creates a transaction, the rename that makes its document
  say `publishing`, and the one that makes it say `aborted`.
* Each hypothesis is needed.  Two processes may both pass preflight and stand in each
  other's way, and an edit, or a rename the disk lost, puts a destination where no
  journal expects it: recovery then blocks, as it should.
* `PublicationIsDurable` (`DurablyAuthorized`), for any number of processes, edits and
  power losses, `~RecoverLive`, and no crash or fault.  `Durable` adds to `Custody` that
  the durable journal trails the one processes see (`Trails`): where their roots or
  their progress documents differ, a driver of the transaction stands before the
  synchronisation of exactly that directory.  So an effect, which needs a driver at
  `apply`, has an authorisation that is durable already, and a power loss keeps it.
* `CommitIsDurable` (`CommittedIsDurable`) and `PowerLossRecoverable`
  (`AlwaysRecoverable` again), for one process at a time, no edits, crashes or faults and
  any number of power losses.  `Steady` adds to `Atomic` that the disk is what the driver
  itself saw one change ago: `Lag` names for each place of the driver the one change of
  its journal that is not durable yet, `EffectsLag` the one operation, and `Unmarks` the
  residue preflight is removing.  What a power loss leaves is therefore the state before
  or after that change (`PowerLossLeaves`), and both are `Sound`.
* Crashes and faults have to stay out of the last three.  A driver that dies between a
  rename and its `syncDirectory` leaves a change that its successor takes for durable,
  publishes under or counts; with one crash TLC finds an effect under a document that
  only memory holds, and a durable `committed` over a rename that is not.

`~RecoverLive` (nobody recovers a transaction whose driver still runs) is
necessary: with `RecoverLive = TRUE`, TLC finds a phase that goes back; the runtime
leaves it to the person who recovers.

### LeaseLocks

* `TypeCorrect`, `PairsAgree` (`FilesAgree`), `NoClaimLeftSilently`
  (`NoSilentClaim`) and `HistoriesExtend` (`HistoryExtends`) follow from one
  invariant, `Inv`.  Claims play no part in the two about files: they rest on the
  preconditions of the publications alone.  `Plans` says that what a plan was
  prepared over is a prefix of the trail, and that while a transition is half
  published every plan is strictly behind; so a publication that finds the trail it
  expects starts from an agreed pair, and `Filed` says that some transaction, driven
  or to be recovered, completes the pair.  `ClaimsHeld` says of every claim that its
  call holds it, was told `recovery_required`, or is dead.
* `AtMostOneHolder`: `OneTTL` implies `Spec => []OneHolder`.  Again neither claims
  nor the exclusion of transactions are needed.  Whoever relies on a lease is the
  holder on record for at least as long (`Views`), and every plan is fair to the lease
  it replaces (`Fair`): a renewal does not shorten it, a release is by an owner who
  has stopped relying on it, and a takeover is decided when the lease is over on every
  clock.  A transaction that can still publish is driven by its own call or its driver
  is dead (`Publishable`), so no release takes effect under a session that relies
  again.
* `OneTTL` (callers ask for one time to live, as with `DEFAULT_LEASE_TTL_MS`) is
  necessary.  With `TTL = {1, 3}` TLC finds a renewal that shortens a lease: its
  caller has not returned and still relies on the longer one it saw, while another
  session takes over at the end of the shorter.
* `RunsStayApart` (`RunsDoNotConflict`), for every lifetime of claims.  The admission
  is of a call in the middle of its administration, of a dead one, or of a session whose
  record could not be built (`Admitted`), so whoever is blocked by it is blocked by
  another session, which asked for what the admission is about, and what is not
  independent is of the family.  `Apart` says so of the answer a call is about to give
  and of the one it has given (`Contended`); it stays true because sessions only ask for
  more and trails only grow (`PastStays`).  A session that failed to build a record is
  excepted: it was told a holder of any scope, and may have left a record that blocks
  its own next call.  The property speaks of calls that returned: a session refused
  because of a claim it had left behind itself may recover that claim in its next call,
  before that call has replaced the answer.

### AdmissionRecords

* `TypeCorrect` and `HolderPublished` (`HolderIsPublished`), for any number of
  processes, calls and attempts, wherever they die.  The claim directory excludes only
  at the rename; that a published record stays is not due to it, since anybody may
  sweep, elect, link, unlink and remove below it, with what it read long ago.  The
  invariant `Admitted` therefore says who may have got hold of what: a generation is
  not born yet (`UnbornIsBlank`: nobody knows its name and it has no file), guarded
  (its owner builds it or works under it, and it has not expired; `GuardedIsBuilt`: the
  files are exactly what the owner has built so far), or released; and what a process
  is about to sweep or retire is released (`OnlyReleased`).  Released is for ever, so
  reading late does no harm.  A generation gets there when its owner gives it up or its
  time is over on every clock: `expires + Skew <= Clock(p)` at any `p` means that it is
  over in real time.  With that, a tombstone, a marker or a missing record already
  prove that it was released, which is why helpers need not look at the time.

### EventStore

* `TypeCorrect`, `AppendsExtend` (`ExactPrefix`), `AcceptedStays` (`NothingLost`)
  and `PairsAgree` (`PairAgrees`).  The chain lemma is that a stream which verifies is
  genuine: the least revision at which it were not would have a genuine prefix and a
  hash that fits it.  On top of it the invariant says what each process has read and
  prepared (`Sound`), that without a clash at most one transaction publishes
  (`Alone`), that what a publisher looked at then still stands when it is replaced
  (`Stands`), and that the two files are the old pair, the new stream with the old
  snapshot, or the new pair (`Paired`).

### Workflow

* `TypeCorrect`, `OperationsDeliveredOnce` (`DeliveredOnce`), `CompletionApproved`
  (`CompletedIsApproved`), `FrozenCriteriaGrow` (`CriteriaOnlyGrow`): a commit is
  guarded by the revision its plan was decided at, so the proof needs of every plan
  in flight what held when it was decided, as long as the revision has not moved.
* `StopsHold` (`HeldUntilResolved`).  The reducer's own guards are not enough: once
  the resolution of a specification stop has emptied the stops, only the attempts of
  the criterion that tripped keep an acceptance verdict from moving the run.  The
  invariant adds that a run to be restarted has a criterion at the ceiling, and that
  acceptance plans were decided with all criteria below it.

### Migration

* `CommitsAsReviewed` (`AppliedAsReviewed`), `RollbacksRestore` (`MigrationsReverse`) and
  `HandNotesKept` (`HandWorkKept`), for any number of commands, edits and bundles.  The
  invariant `Reviewed` says of every process about to commit that its plan is the one it
  reviewed, and of every plan that the files of the bundle it adds are checked as the
  bundle found them and written as it leaves them (`Documented`), and that notes it
  replaces are in the bundle's backup (`KeepsNotes`).  A bundle on disk names the same
  files before and after and never left a person's notes in `gotchas.md`
  (`SoundBundle`), which is what makes the rollback, planned long after, sound again.
  The three theorems then say only that a commit checks what it guards and writes what
  it plans (`CommitWrites`) and that nothing else does (`OnlyCommits`).
* `AttemptsNumbered` (`LineageHasOneHead`), from `Numbered`: the bundles are `Ranked`
  (finitely many, told apart by their identifiers, each lineage numbered `1 .. n`, nothing
  but `n` completed), and the bundle of every plan about to be committed `Joins` them,
  however many others were committed since it was planned.  A plan can only say that
  every attempt before its own was rolled back, which is for ever; that its number is the
  next one follows at the commit, when no bundle has its identifier (`NextAttempt`).
* `NotesAssumption` is about what the constants stand for: `gotchas.md` is not among the
  files a legacy Brain is copied to, since the project has one from its beginning, and
  what a person writes is neither the stock document nor a rendering.

### WriteGuard

* `TypeCorrect`, `GuardAllowsThePermitted` (`AllowedWasPermitted`) and `HistoryIsTrue`
  (`HistoryTellsState`) follow from one invariant, `Inv`, for any number of commands,
  requests, edits and crashes.
* The guard reads four files one after the other, and what it then holds need never have
  been the policy of one instant.  The argument: commands only ever create a
  `scope.json`, a feature without one permits whatever any scope permits, and so the
  instant of the last read permits what the mixture does.  A scope record that replaces
  a `scope.json` written by hand after its last look breaks this, and so do edits and
  links: they are `disturbed`, which the property excepts.  What the guard collects
  from a list of targets is a flattened sequence; its lemma, like the chain lemma
  above, is proved from a least counterexample, which needs no induction scheme.
* Histories.  The plan of an objective is sound (`TxSound`): its state, document and last
  line tell one objective.  Where the files of a feature disagree, a transaction that wrote one of
  them is still publishing.  A transaction ends only when all its results stand
  (`ResultsTell`), so when the last one has ended, the files are what one of them wrote.
  An active feature has a state because the name is published last.

### Only model-checked

* Liveness (`EveryTransactionEnds`, `EveryCallReturns`, `EveryAttemptEnds`) and the
  properties that speak of what is enabled.
* `AlwaysRollsForward` and `ScopesExclude` of `LeaseLocks`: they hold where nobody is
  slower than a claim lives, and fail otherwise (see the runs), so there is no theorem
  for every `ClaimTTL`.
* `AloneSucceeds` of `AdmissionRecords`: it says what a whole call does when it is
  alone, and would need an invariant for each of its forty places.
* `HostHooks`: `UsageIsTrue` and `TokensConserved`, and `ObservationsConserved` of
  `Migration`, compare sums that are folds over data, which needs induction; so do the
  type invariants of the two, whose totals are such sums.

## Plan

What is left is proof; each step starts from invariants TLC already checks.

1. `Migration`: `ProjectionAgrees`, which needs the shape of every ledger a command makes.
2. `HostHooks`: `StopLossStops`, which needs no sums if each checkpoint is compared with
   the one before it.

Liveness under fairness stays with TLC, and so do statements about what the folds
over streams and logs compute for every length, where no least counterexample helps.

## Not modelled, and why

* The guarded commit (`prepareLeaseGuard`, `assertLeaseAuthority`): no command
  passes a lease guard, so there is no caller to take its protocol from.
* The bootstrap of an empty project: one transaction that writes a skeleton once.
* Expiry of approvals, policy modes and objective changes of a run, phase
  assignment, acknowledgement of phase memory and the rewriting of a measurement by
  an observed identity (`identityMeasurementEffect`): further data on events whose
  control is modelled.
* Argument parsing, rendering, schemas, discovery, git observation, prompts and
  diagnostics keep no state between calls and hold no protocol; extensions are
  connected to no command; the differential harness and the distribution are tooling.
