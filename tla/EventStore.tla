----------------------------- MODULE EventStore -----------------------------
(***************************************************************************)
(* The two files of one run, events.jsonl and state.json, and everything   *)
(* that writes them: the append of an event (prepareEventAppend of         *)
(* composition/events.ts inside applyPlan of composition/index.ts), the    *)
(* repair of the snapshot (domain/cli/observability.ts, composition/       *)
(* cli.ts), recovery, and hands.                                           *)
(*                                                                         *)
(* A process is one command.  Every read of a file is a step, as another   *)
(* process or an editor may come between any two.  The transaction that    *)
(* publishes the files is ManagedTransaction cut down to the steps an      *)
(* append can see: the preflight, the marker, the check of the expected    *)
(* bytes, the authorisation, a look and a rename per file, the end.        *)
(***************************************************************************)
EXTENDS EventChain

CONSTANTS
    Proc,
    Works,        \* Works[p]: the commands p runs, "append" or "repair"
    Asks,         \* Asks[p]: the events p's callers ask for
    Lineage,      \* what a run may have been started from
    WorkingLineage,  \* the lineage the working tree shows
    MaxCrash, MaxEdits

ASSUME StoreAssumption ==
    /\ Works \in [Proc -> Seq({"append", "repair"})]
    /\ WorkingLineage \in Lineage
    /\ MaxCrash \in Nat /\ MaxEdits \in Nat

VARIABLES
    files,     \* [events, snapshot]: the two files
    tx,        \* tx[p]: the transaction of p's command, as its journal tells
    proc,      \* proc[p]: the command p runs
    work,      \* work[p]: what p still has to run
    answer,    \* answer[p]: what the last command of p was told
    accepted,  \* history: the events whose transaction committed
    clash,     \* history: two transactions published at the same time
    repaired,  \* history: a repair was published
    budget     \* [crash, edits] left

vars == <<files, tx, proc, work, answer, accepted, clash, repaired, budget>>

store == <<files, tx, accepted, clash, repaired>>

File == {"events", "snapshot"}

Drafts == UNION {Asks[p] : p \in Proc}

\* What the two files can hold when they are there.
Hashes == Seq(Nat \X Nat \X Drafts)
Events == [prior : Nat, result : Nat, prev : Hashes, body : Drafts, hash : Hashes]
Streams == Seq(Events \cup {Garbled})
Snapshots == [cursor : [revision : Nat, hash : Hashes], policy : {b.policy : b \in Drafts},
              lineage : Lineage, state : Seq({b.reason : b \in Drafts})]

\* A file that is not there, or does not parse, is none of these.
ASSUME ContentsAssumption ==
    /\ Missing \notin Streams /\ Missing \notin Snapshots /\ Missing # Garbled
    /\ Garbled \notin Events /\ Garbled \notin Snapshots

NoTx == [phase |-> "none", ops |-> <<>>, done |-> 0]

Idle == [pc |-> "idle", kind |-> "append", draft |-> Missing, lineage |-> Missing,
         seen |-> [f \in File |-> Missing], text |-> Missing, plan |-> {}, ops |-> <<>>]

Init ==
    /\ files = [f \in File |-> Missing]
    /\ tx = [p \in Proc |-> NoTx]
    /\ proc = [p \in Proc |-> Idle]
    /\ work = Works
    /\ answer = [p \in Proc |-> "none"]
    /\ accepted = {}
    /\ clash = FALSE /\ repaired = FALSE
    /\ budget = [crash |-> MaxCrash, edits |-> MaxEdits]

At(p, pc) == proc[p].pc = pc

Goto(p, pc) == proc' = [proc EXCEPT ![p].pc = pc] /\ UNCHANGED answer

Return(p, code) ==
    /\ proc' = [proc EXCEPT ![p] = Idle]
    /\ answer' = [answer EXCEPT ![p] = code]

Incomplete(q) == tx[q].phase # "none"

\* A driver that left its transaction behind: crashed, or failed after the marker.
Abandoned(q) == Incomplete(q) /\ At(q, "idle")

\* Mutant: a file that exists is the file that was observed.
sameKind(left, right) == (left = Missing) = (right = Missing)

sameFingerprint(left, right) == left = right

Op(file, expected, result) == [file |-> file, expected |-> expected, result |-> result]

ExpectedStands(o) == sameFingerprint(files[o.file], o.expected)

-----------------------------------------------------------------------------
(* Observing the run: observeRun reads the snapshot first.                 *)

Begin(p) ==
    /\ At(p, "idle") /\ ~Incomplete(p) /\ work[p] # <<>>
    /\ work' = [work EXCEPT ![p] = Tail(@)]
    /\ proc' = [proc EXCEPT ![p] = [Idle EXCEPT !.pc = "observeSnapshot", !.kind = Head(work[p])]]
    /\ answer' = [answer EXCEPT ![p] = "none"]
    /\ UNCHANGED <<store, budget>>

ObserveSnapshot(p) ==
    /\ proc[p].pc \in {"observeSnapshot", "refreshSnapshot"}
    /\ proc' = [proc EXCEPT ![p].seen["snapshot"] = files["snapshot"],
                            ![p].pc = IF @ = "observeSnapshot" THEN "observeEvents" ELSE "refreshEvents"]
    /\ UNCHANGED <<store, work, answer, budget>>

\* What observeRun makes of the two files it read.
Observed(snapshot, events) ==
    IF events = Missing /\ snapshot = Missing THEN "absent"
    ELSE IF events = Missing \/ snapshot \in {Missing, Garbled} THEN "corrupt"
    ELSE IF Readable(events) THEN "present" ELSE "corrupt"

\* The event a command decides on follows the revision it observed: a run opens
\* with a start, and is replayed from the lineage its snapshot names.
Draftable(p, b) ==
    CASE Observed(proc[p].seen["snapshot"], files["events"]) = "present" -> b.op # "start"
      [] Observed(proc[p].seen["snapshot"], files["events"]) = "absent" -> b.op = "start"
      [] OTHER -> FALSE

DecideAppend(p, b) ==
    /\ At(p, "observeEvents") /\ proc[p].kind = "append"
    /\ Draftable(p, b)
    /\ proc' = [proc EXCEPT ![p].draft = [body |-> b, prior |-> IF files["events"] = Missing THEN 0
                                                                ELSE Cursor(files["events"]).revision],
                            ![p].lineage = IF files["events"] = Missing THEN WorkingLineage
                                           ELSE proc[p].seen["snapshot"].lineage,
                            ![p].pc = "snapshotRequest"]
    /\ UNCHANGED <<store, work, answer, budget>>

\* A command that has nothing to append to the run it observed.
RefuseAppend(p) ==
    /\ At(p, "observeEvents") /\ proc[p].kind = "append"
    /\ \A b \in Asks[p] : ~Draftable(p, b)
    /\ Return(p, IF Observed(proc[p].seen["snapshot"], files["events"]) = "corrupt"
                 THEN "state_corrupt" ELSE "refused")
    /\ UNCHANGED <<store, work, budget>>

-----------------------------------------------------------------------------
(* prepareEventAppend                                                      *)

\* snapshotApplyInput and prepareEventAppend copy the draft before any file is read.
SnapshotRequest(p) ==
    /\ At(p, "snapshotRequest")
    /\ IF snapshotRequest(proc[p].draft.body) THEN Goto(p, "preflight") ELSE Return(p, "state_corrupt")
    /\ UNCHANGED <<store, work, budget>>

\* preflightManagedTransactions: before the decision, again before execution,
\* and for the preview a repair compares itself with.
AfterPreflight(p) ==
    CASE proc[p].pc = "preflight" -> IF proc[p].kind = "append" THEN "inspectEvents" ELSE "preview"
      [] proc[p].pc = "preflightApply" -> "decide"
      [] proc[p].pc = "preflightExecute" -> IF proc[p].kind = "append" THEN "declare" ELSE "mark"

Preflight(p) ==
    /\ proc[p].pc \in {"preflight", "preflightApply", "preflightExecute"}
    /\ IF \E q \in Proc : Incomplete(q) THEN Return(p, "recovery_required")
       ELSE Goto(p, AfterPreflight(p))
    /\ UNCHANGED <<store, work, budget>>

Inspect(p) ==
    /\ proc[p].pc \in {"inspectEvents", "inspectSnapshot"}
    /\ LET f == IF proc[p].pc = "inspectEvents" THEN "events" ELSE "snapshot"
       IN  proc' = [proc EXCEPT ![p].seen[f] = files[f],
                                ![p].pc = IF f = "events" THEN "inspectSnapshot" ELSE "inspected"]
    /\ UNCHANGED <<store, work, answer, budget>>

\* The prior stream and snapshot, and what prepared() returns for them.
prepared(p, prior) ==
    LET event == sealEvent(proc[p].draft, Cursor(prior))
        extended == Append(prior, event)
    IN  <<Op("events", proc[p].seen["events"], extended),
          Op("snapshot", proc[p].seen["snapshot"], replayEventStream(extended, proc[p].lineage))>>

\* Sealing, then verifying and replaying the extended stream.
Prepare(p, prior) ==
    IF Sealable(proc[p].draft, Cursor(prior))
       /\ Readable(Append(prior, sealEvent(proc[p].draft, Cursor(prior))))
    THEN proc' = [proc EXCEPT ![p].ops = prepared(p, prior), ![p].pc = "fresh"] /\ UNCHANGED answer
    ELSE Return(p, "state_corrupt")

PrepareFirstAppend(p) ==
    /\ At(p, "inspected")
    /\ proc[p].seen = [f \in File |-> Missing]
    /\ Prepare(p, <<>>)
    /\ UNCHANGED <<store, work, budget>>

HalfMissing(p) ==
    /\ At(p, "inspected")
    /\ proc[p].seen # [f \in File |-> Missing]
    /\ IF \E f \in File : proc[p].seen[f] = Missing THEN Return(p, "state_corrupt")
       ELSE Goto(p, "readEvents")
    /\ UNCHANGED <<store, work, budget>>

readExact(p, f) == sameFingerprint(files[f], proc[p].seen[f])

ReadEvents(p) ==
    /\ At(p, "readEvents")
    /\ IF files["events"] = Missing THEN Return(p, "internal_failure")
       ELSE IF ~readExact(p, "events") THEN Return(p, "revision_conflict")
       ELSE /\ proc' = [proc EXCEPT ![p].text = files["events"], ![p].pc = "readSnapshot"]
            /\ UNCHANGED answer
    /\ UNCHANGED <<store, work, budget>>

\* assertPersistedSnapshot
assertPersistedSnapshot(p, events, snapshot) ==
    Readable(events) /\ snapshot = replayEventStream(events, proc[p].lineage)

ReadSnapshot(p) ==
    /\ At(p, "readSnapshot")
    /\ IF files["snapshot"] = Missing THEN Return(p, "internal_failure")
       ELSE IF ~readExact(p, "snapshot") THEN Return(p, "revision_conflict")
       ELSE IF ~assertPersistedSnapshot(p, proc[p].text, files["snapshot"]) THEN Return(p, "state_corrupt")
       ELSE Prepare(p, proc[p].text)
    /\ UNCHANGED <<store, work, budget>>

\* assertPreparedAppendIsFresh, and assertDeclaredEventStorePreconditions after
\* the second preflight: the same comparison of both files.
AssertFresh(p) ==
    /\ proc[p].pc \in {"fresh", "declare"}
    /\ IF \A i \in 1 .. Len(proc[p].ops) : ExpectedStands(proc[p].ops[i])
       THEN Goto(p, IF proc[p].pc = "fresh" THEN "preflightExecute" ELSE "mark")
       ELSE Return(p, "revision_conflict")
    /\ UNCHANGED <<store, work, budget>>

-----------------------------------------------------------------------------
(* repair --apply                                                          *)

\* repairPlan of the observation: none without a readable pair.
repairPlan(snapshot, events) ==
    IF Observed(snapshot, events) = "present"
    THEN planSnapshotRepair(snapshot, replayEventStream(events, snapshot.lineage))
    ELSE {}

\* The person is taken to authorise the plan that stands when the command runs.
DecideRepair(p) ==
    /\ At(p, "observeEvents") /\ proc[p].kind = "repair"
    /\ LET plan == repairPlan(proc[p].seen["snapshot"], files["events"])
       IN  IF plan = {} THEN Return(p, "orientation")
           ELSE /\ proc' = [proc EXCEPT ![p].plan = plan, ![p].pc = "refreshSnapshot"]
                /\ UNCHANGED answer
    /\ UNCHANGED <<store, work, budget>>

\* revalidateRepairDigest
RevalidateRepair(p) ==
    /\ At(p, "refreshEvents")
    /\ IF repairPlan(proc[p].seen["snapshot"], files["events"]) = proc[p].plan
       THEN Goto(p, "preflight") ELSE Return(p, "revision_conflict")
    /\ UNCHANGED <<store, work, budget>>

\* Only bytes that differ make an operation (normalizeManagedMutationPlan).
RepairOps(p) ==
    LET content == (CHOOSE w \in proc[p].plan : TRUE).content
    IN  IF files["snapshot"] = content THEN <<>>
        ELSE <<Op("snapshot", files["snapshot"], content)>>

PreviewRepair(p) ==
    /\ At(p, "preview")
    /\ proc' = [proc EXCEPT ![p].ops = RepairOps(p), ![p].pc = "preflightApply"]
    /\ UNCHANGED <<store, work, answer, budget>>

\* applyPlan decides again, and assertPreviewStillHolds.
DecideAgain(p) ==
    /\ At(p, "decide")
    /\ IF RepairOps(p) = proc[p].ops THEN Goto(p, "preflightExecute")
       ELSE Return(p, "revision_conflict")
    /\ UNCHANGED <<store, work, budget>>

-----------------------------------------------------------------------------
(* The transaction.                                                        *)

SetPhase(p, phase) == tx' = [tx EXCEPT ![p].phase = phase]

Mark(p) ==
    /\ At(p, "mark")
    /\ tx' = [tx EXCEPT ![p] = [phase |-> "begun", ops |-> proc[p].ops, done |-> 0]]
    /\ Goto(p, "precheck")
    /\ UNCHANGED <<files, accepted, clash, repaired, work, budget>>

\* Every destination still holds what the operation expects.
Precheck(p) ==
    /\ At(p, "precheck")
    /\ IF \A i \in 1 .. Len(tx[p].ops) : ExpectedStands(tx[p].ops[i])
       THEN SetPhase(p, "prepared") /\ Goto(p, "authorize")
       ELSE UNCHANGED tx /\ Return(p, "revision_conflict")
    /\ UNCHANGED <<files, accepted, clash, repaired, work, budget>>

Authorize(p) ==
    /\ At(p, "authorize")
    /\ SetPhase(p, "publishing")
    /\ clash' = (clash \/ \E q \in Proc \ {p} : tx[q].phase = "publishing")
    /\ Goto(p, "publish")
    /\ UNCHANGED <<files, accepted, repaired, work, budget>>

Published(p) == tx[p].done = Len(tx[p].ops)

NextOp(p) == tx[p].ops[tx[p].done + 1]

\* assertPublishable.  A failure leaves the transaction to recovery.
CheckPublishable(p) ==
    /\ At(p, "publish") /\ ~Published(p)
    /\ IF ExpectedStands(NextOp(p)) THEN Goto(p, "apply")
       ELSE Return(p, "recovery_required")
    /\ UNCHANGED <<store, work, budget>>

Replace(p) ==
    /\ files' = [files EXCEPT ![NextOp(p).file] = NextOp(p).result]
    /\ tx' = [tx EXCEPT ![p].done = @ + 1]

Apply(p) ==
    /\ At(p, "apply")
    /\ Replace(p)
    /\ Goto(p, "publish")
    /\ UNCHANGED <<accepted, clash, repaired, work, budget>>

\* The event an append publishes, once its transaction is committed.
Accept(p) ==
    /\ accepted' = accepted \cup
         {o.result[Len(o.result)] : o \in {tx[p].ops[i] : i \in {j \in 1 .. Len(tx[p].ops) : tx[p].ops[j].file = "events"}}}
    /\ repaired' = (repaired \/ \A i \in 1 .. Len(tx[p].ops) : tx[p].ops[i].file = "snapshot")
    /\ tx' = [tx EXCEPT ![p] = NoTx]

\* assertResults: every destination holds its result, or the journal stays.
Commit(p) ==
    /\ At(p, "publish") /\ Published(p)
    /\ IF \A i \in 1 .. Len(tx[p].ops) : sameFingerprint(files[tx[p].ops[i].file], tx[p].ops[i].result)
       THEN Accept(p) /\ Return(p, "committed")
       ELSE UNCHANGED <<tx, accepted, repaired>> /\ Return(p, "state_corrupt")
    /\ UNCHANGED <<files, clash, work, budget>>

-----------------------------------------------------------------------------
(* Recovery of an abandoned transaction: aborted before the authorisation, *)
(* rolled forward after it, blocked by any third content.                  *)

\* Mutant: a transaction caught publishing is dropped like any other.
RecoverDrops(q) ==
    /\ Abandoned(q)
    /\ tx' = [tx EXCEPT ![q] = NoTx]
    /\ UNCHANGED <<files, accepted, clash, repaired, proc, work, answer, budget>>

Recover(q) ==
    /\ Abandoned(q)
    /\ IF tx[q].phase # "publishing"
       THEN tx' = [tx EXCEPT ![q] = NoTx] /\ UNCHANGED <<files, accepted, repaired>>
       ELSE IF Published(q)
       THEN /\ \A i \in 1 .. Len(tx[q].ops) : files[tx[q].ops[i].file] = tx[q].ops[i].result
            /\ Accept(q) /\ UNCHANGED files
       ELSE /\ UNCHANGED <<accepted, repaired>>
            /\ \/ files[NextOp(q).file] = NextOp(q).result
                  /\ tx' = [tx EXCEPT ![q].done = @ + 1] /\ UNCHANGED files
               \/ files[NextOp(q).file] # NextOp(q).result /\ ExpectedStands(NextOp(q)) /\ Replace(q)
    /\ UNCHANGED <<clash, proc, work, answer, budget>>

-----------------------------------------------------------------------------
(* Crashes and hands.                                                      *)

Crash(p) ==
    /\ ~At(p, "idle") /\ budget.crash > 0
    /\ budget' = [budget EXCEPT !.crash = @ - 1]
    /\ proc' = [proc EXCEPT ![p] = Idle]
    /\ UNCHANGED <<store, work, answer>>

\* A line is changed under its digest, made unreadable, repeated or dropped, or
\* the file is lost.
EditedEvents(s) ==
    {Missing} \cup
    {[s EXCEPT ![i] = Garbled] : i \in 1 .. Len(s)} \cup
    {SubSeq(s, 1, i - 1) \o SubSeq(s, i + 1, Len(s)) : i \in 1 .. Len(s)} \cup
    {SubSeq(s, 1, i) \o SubSeq(s, i, Len(s)) : i \in 1 .. Len(s)} \cup
    UNION {{[s EXCEPT ![i].body = b] : b \in Drafts} : i \in {j \in 1 .. Len(s) : s[j] # Garbled}}

EditedSnapshots(d) ==
    {Missing, Garbled} \cup
    IF d = Garbled THEN {} ELSE {[d EXCEPT !.state = <<>>]} \cup {[d EXCEPT !.lineage = l] : l \in Lineage}

Edit ==
    /\ budget.edits > 0
    /\ budget' = [budget EXCEPT !.edits = @ - 1]
    /\ \/ files["events"] # Missing
          /\ \E s \in EditedEvents(files["events"]) : files' = [files EXCEPT !["events"] = s]
       \/ files["snapshot"] # Missing
          /\ \E d \in EditedSnapshots(files["snapshot"]) : files' = [files EXCEPT !["snapshot"] = d]
    /\ UNCHANGED <<tx, proc, work, answer, accepted, clash, repaired>>

-----------------------------------------------------------------------------

Observe(p) ==
    \/ ObserveSnapshot(p) \/ RefuseAppend(p) \/ DecideRepair(p)
    \/ \E b \in Asks[p] : DecideAppend(p, b)

prepareEventAppend(p) ==
    \/ SnapshotRequest(p) \/ Inspect(p) \/ PrepareFirstAppend(p) \/ HalfMissing(p)
    \/ ReadEvents(p) \/ ReadSnapshot(p)

Repair(p) == RevalidateRepair(p) \/ PreviewRepair(p) \/ DecideAgain(p)

Execute(p) ==
    \/ Mark(p) \/ Precheck(p) \/ Authorize(p) \/ CheckPublishable(p) \/ Apply(p) \/ Commit(p)

Step(p) ==
    \/ Begin(p) \/ Observe(p) \/ Preflight(p) \/ prepareEventAppend(p)
    \/ AssertFresh(p) \/ Repair(p) \/ Execute(p)

Next == (\E p \in Proc : Step(p) \/ Recover(p) \/ Crash(p)) \/ Edit

Spec == Init /\ [][Next]_vars

-----------------------------------------------------------------------------
(* Properties.                                                             *)

Edited == budget.edits < MaxEdits

\* A stream of at most MaxCount lines, each unreadable or with revisions in range.
StreamOK(s) ==
    s = Missing \/ /\ Len(s) <= MaxCount + (MaxEdits - budget.edits)
                   /\ \A i \in 1 .. Len(s) :
                        s[i] = Garbled \/ /\ s[i].prior \in 0 .. MaxCount
                                          /\ s[i].result = s[i].prior + 1
                                          /\ s[i].body \in Drafts

\* The shape of the state: a stream never outgrows EVENT_STREAM_COUNT (a hand may
\* repeat a line), and a transaction has written no more than its operations.
TypeOK ==
    /\ DOMAIN files = File /\ StreamOK(files["events"])
    /\ \A p \in Proc :
         /\ tx[p].phase \in {"none", "begun", "prepared", "publishing"}
         /\ tx[p].done \in 0 .. Len(tx[p].ops)
         /\ \A i \in 1 .. Len(tx[p].ops) : tx[p].ops[i].file = "events" => StreamOK(tx[p].ops[i].result)
         /\ answer[p] \in {"none", "committed", "orientation", "refused", "state_corrupt", "revision_conflict",
                           "recovery_required", "internal_failure"}
    /\ \A e \in accepted : e.result \in 1 .. MaxCount
    /\ clash \in BOOLEAN /\ repaired \in BOOLEAN
    /\ budget \in [crash : 0 .. MaxCrash, edits : 0 .. MaxEdits]

\* A stream nobody tampered with: every event sealed on the one before it.
Genuine(s) ==
    /\ s # Missing
    /\ \A i \in 1 .. Len(s) :
         s[i] # Garbled /\ s[i] = sealEvent([body |-> s[i].body, prior |-> i - 1],
                                            IF i = 1 THEN Genesis
                                            ELSE [revision |-> i - 1, hash |-> s[i - 1].hash])

\* "An exact-prefix extension": whatever was edited, raced or crashed, the stream
\* a transaction of an append is about to publish is the stream it expects to
\* find, genuine, followed by one sealed event; the snapshot it replaces is the
\* replay of the one and its own the replay of the other, from one lineage.  So
\* no append ever continues, or covers up, a history somebody altered.
ExactPrefix ==
    \A p \in Proc : Len(tx[p].ops) = 2 =>
        LET events == tx[p].ops[1]
            snapshot == tx[p].ops[2]
            prior == IF events.expected = Missing THEN <<>> ELSE events.expected
        IN  /\ Genuine(events.result)
            /\ Len(events.result) = Len(prior) + 1
            /\ SubSeq(events.result, 1, Len(prior)) = prior
            /\ snapshot.result.cursor = Cursor(events.result)
            /\ IF prior = <<>> THEN snapshot.expected = Missing
               ELSE snapshot.expected = replayEventStream(prior, snapshot.result.lineage)

\* An event whose command was told "committed", or which recovery committed,
\* stays in the stream: as long as nobody edits the files and no two transactions
\* publish at once, appenders that raced each other lose nothing.
NothingLost ==
    ~clash /\ ~Edited =>
        \A e \in accepted : files["events"] # Missing
                            /\ \E i \in 1 .. Len(files["events"]) : files["events"][i] = e

\* Between publications the snapshot is the replay of the stream: after every
\* crash and recovery, unless somebody edits a file, two transactions publish at
\* once or a repair was published.
PairAgrees ==
    ~clash /\ ~Edited /\ ~repaired /\ (\A p \in Proc : tx[p].phase # "publishing") =>
        \/ files = [f \in File |-> Missing]
        \/ /\ files["snapshot"] # Missing /\ Genuine(files["events"])
           /\ files["snapshot"] = replayEventStream(files["events"], files["snapshot"].lineage)

\* The premise of NothingLost alone: event-store.md has "an incomplete transaction
\* marker" block everybody else, and it does not.
OnePublisher == ~clash

\* What "repair" promises of a snapshot it publishes: the replay of the stream.
RepairIsReplay ==
    [][repaired' /\ ~repaired /\ ~clash =>
         files["events"] # Missing /\ Readable(files["events"])
         /\ files["snapshot"] = replayEventStream(files["events"], files["snapshot"].lineage)]_vars

\* event-store.md: a stale append "fails as runtime.revision_conflict".
StaleIsNoCorruption ==
    ~Edited /\ ~clash /\ ~repaired /\ budget.crash = MaxCrash => \A p \in Proc : answer[p] # "state_corrupt"
=============================================================================
