------------------------- MODULE ManagedTransaction -------------------------
(***************************************************************************)
(* The driver of managed transactions: applyPlan, executeManagedMutation   *)
(* and recoverManagedMutation (packages/runtime/src/composition/index.ts   *)
(* and composition/transactions.ts) over the durable file system of        *)
(* infra/node/transactions.ts.                                             *)
(*                                                                         *)
(* Workers are runtime processes of one project.  Every call that changes  *)
(* a directory is an action, and a directory is durable only once it was   *)
(* synchronised: jn and dest are what a process sees, disk is what a power *)
(* loss leaves.  Processes crash between any two calls, calls fail, people *)
(* edit destinations, and nothing serialises the workers but the journal.  *)
(***************************************************************************)
EXTENDS TransactionModel, FiniteSets

CONSTANTS
    Worker, TxId, NoTx,
    Plans,        \* what callers submit: [effects, requires, guards]
    InitialDest,  \* what the project holds at first
    RecoverLive,  \* may recovery be asked for while a driver still runs it?
    MaxCrash, MaxPower, MaxFault, MaxEdits   \* bounds on the environment

Guard == [path : Path, expected : Fingerprint]

Plan == [effects : Seq(Effect), requires : SUBSET Guard, guards : SUBSET Guard]

ASSUME InstanceAssumption ==
    /\ NoTx \notin TxId
    /\ Plans \subseteq Plan
    /\ InitialDest \in [Path -> Fingerprint]
    /\ RecoverLive \in BOOLEAN
    /\ MaxCrash \in Nat /\ MaxPower \in Nat /\ MaxFault \in Nat /\ MaxEdits \in Nat

VARIABLES
    dest,     \* managed destinations, as a process sees them
    jn,       \* jn[t]: the journal directory of t, as a process sees it
    disk,     \* what is durable: [dest, jn, applied]
    ops,      \* ops[t]: the operations of t's manifest
    applied,  \* history: the operations of t whose effect took place
    drv,      \* drv[w]: the driver a worker runs
    answer,   \* what the last call of a worker returned
    budget    \* how often the environment struck

vars == <<dest, jn, disk, ops, applied, drv, answer, budget>>

Reason == {"revision_conflict", "state_corrupt", "recovery_required", "internal_failure"}

Code == Reason \cup {"none", "noop", "committed", "aborted"}

PC == {"idle", "pre", "inspect", "observe", "begin", "unNext", "unDir",
       "clear", "write", "rename", "mkStaging", "stage", "fill", "manifest",
       "fillManifest", "precheck", "authorize", "publish", "apply", "verify",
       "cleanup", "finish", "decide", "recheck", "failed", "classify"}

\* Where a driver calls the file system, and the call may fail.
Faulty == PC \ {"idle", "finish"}

NoPlan == [effects |-> <<>>, requires |-> {}, guards |-> {}]

Idle == [pc |-> "idle", mode |-> "exec", tx |-> NoTx, tgt |-> NoTx, plan |-> NoPlan,
         ops |-> <<>>, mem |-> NoProgress, back |-> "idle", idx |-> 1,
         sync |-> "none", why |-> "none", sure |-> FALSE]

NoAnswer == [code |-> "none", tx |-> NoTx]

Init ==
    /\ dest = InitialDest
    /\ jn = [t \in TxId |-> NoJournal]
    /\ ops = [t \in TxId |-> <<>>]
    /\ applied = [t \in TxId |-> {}]
    /\ disk = [dest |-> dest, jn |-> jn, applied |-> applied]
    /\ drv = [w \in Worker |-> Idle]
    /\ answer = [w \in Worker |-> NoAnswer]
    /\ budget = [crash |-> 0, power |-> 0, fault |-> 0, edits |-> 0]

-----------------------------------------------------------------------------
(* How a driver moves.                                                     *)

\* A driver waits for the directory it is synchronising.
At(w, pc) == drv[w].pc = pc /\ drv[w].sync = "none"

Goto(w, pc) == drv' = [drv EXCEPT ![w].pc = pc]

Return(w, code) ==
    /\ drv' = [drv EXCEPT ![w] = Idle]
    /\ answer' = [answer EXCEPT ![w] = [code |-> code, tx |-> drv[w].tx]]

\* Replace progress.json by prog, then go on at back.
Persist(w, prog, back) ==
    drv' = [drv EXCEPT ![w].pc = "clear", ![w].mem = prog, ![w].back = back]

\* A thrown error on its way to classifyDriverFailure; "raw" is any error that
\* is not a TransactionFailure.
Fail(w, why) ==
    drv' = [drv EXCEPT ![w].pc = "failed", ![w].why = why, ![w].sync = "none"]

GuardsHold(plan) == \A g \in plan.guards : dest[g.path] = g.expected

Op(w) == ops[drv[w].tx][drv[w].idx]

LastOp(w) == Len(ops[drv[w].tx])

Mine(w) == jn[drv[w].tx]

\* Mutant: a synchronisation is forgotten.
NoSync == "none"

\* Which directory follows a rename of progress.json, a payload written and an
\* operation published.
ProgressSync == "root"

StagingSync == "staging"

PublishSync == "parent"

\* The directories a driver synchronises, and what that makes durable.
SyncTransactions ==
    [disk EXCEPT !.jn = [t \in TxId |-> IF jn[t].root THEN [disk.jn[t] EXCEPT !.root = TRUE]
                                        ELSE NoJournal]]

SyncRoot(t) ==
    [disk EXCEPT !.jn[t] = [jn[t] EXCEPT !.root = disk.jn[t].root,
                                         !.pay = IF jn[t].staging THEN disk.jn[t].pay ELSE @]]

SyncStaging(t) == [disk EXCEPT !.jn[t].pay = jn[t].pay]

\* A rename becomes durable at both ends.
SyncParent(p) ==
    LET now(t) == {i \in applied[t] : ops[t][i].path \in Siblings(p)}
    IN  [dest |-> [q \in Path |-> IF q \in Siblings(p) THEN dest[q] ELSE disk.dest[q]],
         applied |-> [t \in TxId |-> disk.applied[t] \cup now(t)],
         jn |-> [t \in TxId |->
                   [disk.jn[t] EXCEPT !.pay = [i \in 1 .. MaxOps |->
                        IF i \in now(t) THEN "missing" ELSE disk.jn[t].pay[i]]]]]

\* syncDirectory; a directory that went away fails the call.  Once the document
\* that says "publishing" is durable, publishingAuthorized (sure) is set.
Sync(w) ==
    LET t == drv[w].tx
        s == drv[w].sync
    IN  /\ s # "none"
        /\ IF s \in {"root", "staging"} /\ ~jn[t].root
           THEN Fail(w, "raw") /\ UNCHANGED disk
           ELSE /\ disk' = CASE s = "transactions" -> SyncTransactions
                             [] s = "root"    -> SyncRoot(t)
                             [] s = "staging" -> SyncStaging(t)
                             [] OTHER         -> SyncParent(Op(w).path)
                /\ drv' = [drv EXCEPT ![w].sync = "none",
                                      ![w].sure = drv[w].sure \/ drv[w].pc = "publish"]
        /\ UNCHANGED <<dest, jn, ops, applied, answer, budget>>

-----------------------------------------------------------------------------
(* Preflight: applyPlan runs it before it looks at destinations, and       *)
(* executeManagedMutation again before it creates anything.                *)

Unused == {t \in TxId : ops[t] = <<>>}

Submitting == {w \in Worker : drv[w].mode = "exec" /\ drv[w].pc # "idle" /\ drv[w].tx = NoTx}

Submit(w, plan) ==
    /\ At(w, "idle")
    /\ Cardinality(Unused) > Cardinality(Submitting)
    /\ drv' = [drv EXCEPT ![w] = [Idle EXCEPT !.pc = "pre", !.plan = plan, !.back = "observe"]]
    /\ answer' = [answer EXCEPT ![w] = NoAnswer]
    /\ UNCHANGED <<dest, jn, disk, ops, applied, budget>>

\* reconcileUnmarkedTransactions finds a directory without progress.json.
ReconcileUnmarked(w, t) ==
    /\ At(w, "pre")
    /\ jn[t].root /\ ~Marked(jn[t])
    /\ IF jn[t].staging \/ jn[t].man # "missing"
       THEN Return(w, "state_corrupt")
       ELSE /\ drv' = [drv EXCEPT ![w].tgt = t,
                                  ![w].pc = IF jn[t].next # NoProgress THEN "unNext" ELSE "unDir"]
            /\ UNCHANGED answer
    /\ UNCHANGED <<dest, jn, disk, ops, applied, budget>>

\* removeSafeUnmarkedTransaction, its two removals.  tx is NoTx when preflight
\* tidies up another's residue, and tgt when a failed execution removes its own.
UnmarkNext(w) ==
    LET t == drv[w].tgt
    IN  /\ At(w, "unNext")
        /\ IF jn[t].next = NoProgress
           THEN Return(w, "internal_failure") /\ UNCHANGED jn
           ELSE /\ jn' = [jn EXCEPT ![t].next = NoProgress]
                /\ Goto(w, "unDir") /\ UNCHANGED answer
        /\ UNCHANGED <<dest, disk, ops, applied, budget>>

\* Mutant: the directory is removed with whatever appeared in it meanwhile.
UnmarkDirectoryBlindly(w) ==
    LET t == drv[w].tgt
    IN  /\ At(w, "unDir")
        /\ jn' = [jn EXCEPT ![t] = NoJournal]
        /\ drv' = [drv EXCEPT ![w].pc = IF drv[w].tx = t THEN "classify" ELSE "pre",
                              ![w].sync = "transactions"]
        /\ UNCHANGED <<dest, disk, ops, applied, answer, budget>>

UnmarkDirectory(w) ==
    LET t == drv[w].tgt
        own == drv[w].tx = t
    IN  /\ At(w, "unDir")
        /\ CASE ~jn[t].root ->
                  Return(w, "internal_failure") /\ UNCHANGED jn
             [] jn[t].root /\ [jn[t] EXCEPT !.root = FALSE] # NoJournal ->
                  /\ \/ own /\ Goto(w, "classify") /\ UNCHANGED answer
                     \/ ~own /\ Return(w, "state_corrupt")
                     \/ Return(w, "internal_failure")
                  /\ UNCHANGED jn
             [] OTHER ->
                  /\ jn' = [jn EXCEPT ![t] = NoJournal]
                  /\ drv' = [drv EXCEPT ![w].pc = IF own THEN "classify" ELSE "pre",
                                        ![w].sync = "transactions"]
                  /\ UNCHANGED answer
        /\ UNCHANGED <<dest, disk, ops, applied, budget>>

ReconcileDone(w) ==
    /\ At(w, "pre")
    /\ \A t \in TxId : jn[t].root => Marked(jn[t])
    /\ Goto(w, "inspect")
    /\ UNCHANGED <<dest, jn, disk, ops, applied, answer, budget>>

\* rejectIncompleteTransactions
Inspect(w) ==
    /\ At(w, "inspect")
    /\ IF \E t \in TxId : CorruptJournal(jn[t]) THEN Return(w, "state_corrupt")
       ELSE IF \E t \in TxId : Incomplete(jn[t]) THEN Return(w, "recovery_required")
       ELSE Goto(w, drv[w].back) /\ UNCHANGED answer
    /\ UNCHANGED <<dest, jn, disk, ops, applied, budget>>

\* observeManagedPaths, assertWritePreconditions, normalizeManagedMutationPlan
\* and the validation executeManagedMutation starts with.
Observe(w) ==
    LET plan == drv[w].plan
        norm == Normalize(plan.effects, dest)
    IN  /\ At(w, "observe")
        /\ IF \E g \in plan.requires \cup plan.guards : dest[g.path] # g.expected
           THEN Return(w, "revision_conflict")
           ELSE IF norm.ok /\ norm.ops = <<>> THEN Return(w, "noop")
           ELSE IF ~norm.ok \/ ~ValidPlan(norm.ops) THEN Return(w, "state_corrupt")
           ELSE /\ drv' = [drv EXCEPT ![w].ops = norm.ops, ![w].pc = "pre", ![w].back = "begin"]
                /\ UNCHANGED answer
        /\ UNCHANGED <<dest, jn, disk, ops, applied, budget>>

-----------------------------------------------------------------------------
(* Execution: driveExecution.                                              *)

Begin(w, t) ==
    /\ At(w, "begin")
    /\ t \in Unused
    /\ IF GuardsHold(drv[w].plan)
       THEN /\ jn' = [jn EXCEPT ![t].root = TRUE]
            /\ ops' = [ops EXCEPT ![t] = drv[w].ops]
            /\ drv' = [drv EXCEPT ![w].tx = t, ![w].ops = <<>>, ![w].pc = "clear",
                                  ![w].mem = [phase |-> "begun", bound |-> FALSE, published |-> 0],
                                  ![w].back = "mkStaging", ![w].sync = "transactions"]
            /\ UNCHANGED answer
       ELSE Return(w, "revision_conflict") /\ UNCHANGED <<jn, ops>>
    /\ UNCHANGED <<dest, disk, applied, budget>>

\* persistProgress: drop a stale progress.next, write a new one exclusively,
\* rename it over progress.json.
ClearNext(w) ==
    /\ At(w, "clear")
    /\ IF Mine(w).next # NoProgress
       THEN /\ jn' = [jn EXCEPT ![drv[w].tx].next = NoProgress]
            /\ drv' = [drv EXCEPT ![w].pc = "write", ![w].sync = "root"]
       ELSE Goto(w, "write") /\ UNCHANGED jn
    /\ UNCHANGED <<dest, disk, ops, applied, answer, budget>>

WriteNext(w) ==
    /\ At(w, "write")
    /\ IF Mine(w).root /\ Mine(w).next = NoProgress
       THEN /\ jn' = [jn EXCEPT ![drv[w].tx].next = drv[w].mem]
            /\ Goto(w, "rename")
       ELSE Fail(w, "raw") /\ UNCHANGED jn
    /\ UNCHANGED <<dest, disk, ops, applied, answer, budget>>

RenameNext(w) ==
    LET t == drv[w].tx
    IN  /\ At(w, "rename")
        /\ IF jn[t].next # NoProgress
           THEN /\ jn' = [jn EXCEPT ![t].prog = jn[t].next, ![t].next = NoProgress]
                /\ drv' = [drv EXCEPT ![w].pc = drv[w].back, ![w].sync = ProgressSync]
           ELSE Fail(w, "raw") /\ UNCHANGED jn
        /\ UNCHANGED <<dest, disk, ops, applied, answer, budget>>

MakeStaging(w) ==
    /\ At(w, "mkStaging")
    /\ IF Mine(w).root
       THEN /\ jn' = [jn EXCEPT ![drv[w].tx].staging = TRUE]
            /\ drv' = [drv EXCEPT ![w].pc = "stage", ![w].sync = "root"]
       ELSE Fail(w, "raw") /\ UNCHANGED jn
    /\ UNCHANGED <<dest, disk, ops, applied, answer, budget>>

\* writeSynced of the next payload: created, then filled and synchronised.
Stage(w) ==
    LET t == drv[w].tx
        i == drv[w].idx
    IN  /\ At(w, "stage")
        /\ IF i > LastOp(w) THEN Goto(w, "manifest") /\ UNCHANGED jn
           ELSE IF ~Staged(Op(w)) THEN drv' = [drv EXCEPT ![w].idx = i + 1] /\ UNCHANGED jn
           ELSE IF jn[t].staging /\ jn[t].pay[i] = "missing"
           THEN jn' = [jn EXCEPT ![t].pay[i] = "torn"] /\ Goto(w, "fill")
           ELSE Fail(w, "raw") /\ UNCHANGED jn
        /\ UNCHANGED <<dest, disk, ops, applied, answer, budget>>

FillPayload(w) ==
    LET t == drv[w].tx
        i == drv[w].idx
    IN  /\ At(w, "fill")
        /\ IF jn[t].pay[i] = "torn"
           THEN /\ jn' = [jn EXCEPT ![t].pay[i] = "full"]
                /\ drv' = [drv EXCEPT ![w].pc = "stage", ![w].idx = i + 1, ![w].sync = StagingSync]
           ELSE Fail(w, "state_corrupt") /\ UNCHANGED jn
        /\ UNCHANGED <<dest, disk, ops, applied, answer, budget>>

WriteManifest(w) ==
    /\ At(w, "manifest")
    /\ IF Mine(w).root /\ Mine(w).man = "missing"
       THEN jn' = [jn EXCEPT ![drv[w].tx].man = "torn"] /\ Goto(w, "fillManifest")
       ELSE Fail(w, "raw") /\ UNCHANGED jn
    /\ UNCHANGED <<dest, disk, ops, applied, answer, budget>>

FillManifest(w) ==
    /\ At(w, "fillManifest")
    /\ jn' = [jn EXCEPT ![drv[w].tx].man = IF @ = "torn" THEN "full" ELSE @]
    /\ drv' = [drv EXCEPT ![w].pc = "precheck", ![w].sync = "root"]
    /\ UNCHANGED <<dest, disk, ops, applied, answer, budget>>

\* assertDeclaredGuardPreconditions and assertPreconditions, then "prepared".
Prepare(w) ==
    /\ At(w, "precheck")
    /\ IF /\ GuardsHold(drv[w].plan)
          /\ ExpectedObserved(ops[drv[w].tx], dest) = 1 .. LastOp(w)
       THEN Persist(w, [phase |-> "prepared", bound |-> TRUE, published |-> 0], "authorize")
       ELSE Fail(w, "revision_conflict")
    /\ UNCHANGED <<dest, jn, disk, ops, applied, answer, budget>>

\* Mutant: publication starts before "publishing" is persisted.
AuthorizeInMemory(w) ==
    /\ At(w, "authorize")
    /\ drv' = [drv EXCEPT ![w].pc = "publish", ![w].idx = 1, ![w].mem = [@ EXCEPT !.phase = "publishing"]]
    /\ UNCHANGED <<dest, jn, disk, ops, applied, answer, budget>>

Authorize(w) ==
    /\ At(w, "authorize")
    /\ IF GuardsHold(drv[w].plan)
       THEN drv' = [drv EXCEPT ![w].pc = "clear", ![w].idx = 1, ![w].back = "publish",
                               ![w].mem = [drv[w].mem EXCEPT !.phase = "publishing"]]
       ELSE Fail(w, "revision_conflict")
    /\ UNCHANGED <<dest, jn, disk, ops, applied, answer, budget>>

\* The checks before the next operation: the guards, assertPublishable and
\* assertExecutionPayload.
CheckPublishable(w) ==
    LET op == Op(w)
    IN  /\ At(w, "publish")
        /\ drv[w].idx <= LastOp(w)
        /\ IF ~GuardsHold(drv[w].plan) THEN Fail(w, "revision_conflict")
           ELSE IF ~ParentIsDirectory(dest, op.path) THEN Fail(w, "state_corrupt")
           ELSE IF dest[op.path] # op.expected THEN Fail(w, "revision_conflict")
           ELSE IF Staged(op) /\ Mine(w).pay[drv[w].idx] # "full" THEN Fail(w, "state_corrupt")
           ELSE Goto(w, "apply")
        /\ UNCHANGED <<dest, jn, disk, ops, applied, answer, budget>>

\* What createDirectory, replaceFile and removeFile need to succeed.
Applicable(w) ==
    LET op == Op(w)
    IN  /\ ParentIsDirectory(dest, op.path)
        /\ CASE op.result = Directory -> dest[op.path] \notin Content
             [] op.result = Missing   -> dest[op.path] \in Content
             [] OTHER -> dest[op.path] # Directory /\ Mine(w).pay[drv[w].idx] # "missing"

\* publishOperation and publishPersistedOperation.
Apply(w) ==
    LET t == drv[w].tx
        i == drv[w].idx
    IN  /\ At(w, "apply")
        /\ IF Applicable(w)
           THEN /\ dest' = [dest EXCEPT ![Op(w).path] = Op(w).result]
                /\ jn' = [jn EXCEPT ![t].pay[i] = "missing"]
                /\ applied' = [applied EXCEPT ![t] = @ \cup {i}]
                /\ drv' = [drv EXCEPT ![w].pc = "verify", ![w].sync = PublishSync]
           ELSE Fail(w, "raw") /\ UNCHANGED <<dest, jn, applied>>
        /\ UNCHANGED <<disk, ops, answer, budget>>

\* assertResult, then the operation is recorded as published.
Verify(w) ==
    /\ At(w, "verify")
    /\ IF dest[Op(w).path] = Op(w).result
       THEN drv' = [drv EXCEPT ![w].pc = "clear", ![w].idx = drv[w].idx + 1,
                               ![w].mem = [drv[w].mem EXCEPT !.published = @ + 1],
                               ![w].back = IF drv[w].mode = "exec" THEN "publish" ELSE "decide"]
       ELSE Fail(w, "state_corrupt")
    /\ UNCHANGED <<dest, jn, disk, ops, applied, answer, budget>>

\* assertResults and the guards, then "committed".
Commit(w) ==
    /\ At(w, "publish")
    /\ drv[w].idx > LastOp(w)
    /\ IF ResultsObserved(ops[drv[w].tx], dest) # 1 .. LastOp(w) THEN Fail(w, "state_corrupt")
       ELSE IF ~GuardsHold(drv[w].plan) THEN Fail(w, "revision_conflict")
       ELSE Persist(w, [drv[w].mem EXCEPT !.phase = "committed"], "cleanup")
    /\ UNCHANGED <<dest, jn, disk, ops, applied, answer, budget>>

\* cleanupTransaction and the removals of recoverWithoutManifest, one by one:
\* payloads, staging, scratch, a manifest that was never bound.  Recovery looks
\* again after a "cleanup" decision; every other clean-up ends the call.
CleanupStep(w) ==
    LET t == drv[w].tx
        left == {i \in 1 .. MaxOps : jn[t].pay[i] # "missing"}
        first == CHOOSE i \in left : \A k \in left : i <= k
    IN  /\ At(w, "cleanup")
        /\ IF left # {} THEN jn' = [jn EXCEPT ![t].pay[first] = "missing"] /\ UNCHANGED drv
           ELSE IF jn[t].staging THEN jn' = [jn EXCEPT ![t].staging = FALSE] /\ UNCHANGED drv
           ELSE IF jn[t].next # NoProgress
           THEN jn' = [jn EXCEPT ![t].next = NoProgress] /\ UNCHANGED drv
           ELSE IF ~drv[w].mem.bound /\ jn[t].man # "missing"
           THEN jn' = [jn EXCEPT ![t].man = "missing"] /\ UNCHANGED drv
           ELSE /\ drv' = [drv EXCEPT ![w].pc = IF drv[w].back = "decide" THEN "decide" ELSE "finish",
                                      ![w].sync = "root"]
                /\ UNCHANGED jn
        /\ UNCHANGED <<dest, disk, ops, applied, answer, budget>>

\* receiptFromProgress
Finish(w) ==
    /\ At(w, "finish")
    /\ Return(w, drv[w].mem.phase)
    /\ UNCHANGED <<dest, jn, disk, ops, applied, budget>>

-----------------------------------------------------------------------------
(* Explicit recovery: recoverManagedMutation.                              *)

\* With a manifest the loop of driveRecovery, without one recoverWithoutManifest.
\* validatedRecovery (sure) is set.
RecoveryDriver(t, token) ==
    LET prog == jn[t].prog
        start == [Idle EXCEPT !.mode = "rec", !.tx = t, !.mem = prog, !.sure = TRUE]
    IN  IF token THEN [start EXCEPT !.pc = "decide"]
        ELSE IF prog.phase = "aborted" THEN [start EXCEPT !.pc = "cleanup"]
        ELSE [start EXCEPT !.pc = "clear", !.back = "cleanup",
                           !.mem = [prog EXCEPT !.phase = "aborted", !.published = 0]]

\* The request names a transaction and a token: that of its identity (FALSE) or
\* of its manifest (TRUE).
Recover(w, t, token) ==
    /\ At(w, "idle")
    /\ Marked(jn[t])
    /\ RecoverLive \/ \A u \in Worker : drv[u].tx # t
    /\ IF \E u \in TxId : CorruptJournal(jn[u])
       THEN answer' = [answer EXCEPT ![w] = [code |-> "state_corrupt", tx |-> t]] /\ UNCHANGED drv
       ELSE IF jn[t].prog.bound # token
       THEN answer' = [answer EXCEPT ![w] = [code |-> "recovery_required", tx |-> t]] /\ UNCHANGED drv
       ELSE /\ answer' = [answer EXCEPT ![w] = NoAnswer]
            /\ drv' = [drv EXCEPT ![w] = RecoveryDriver(t, token)]
    /\ UNCHANGED <<dest, jn, disk, ops, applied, budget>>

\* Mutant: a terminal transaction without payloads keeps its other residue.
DecideForgetsResidue(w) ==
    LET t == drv[w].tx
        d == DecideRecovery(ops[t], drv[w].mem, dest, jn[t].pay)
    IN  /\ At(w, "decide")
        /\ Goto(w, IF d.kind = "cleanup" THEN "cleanup" ELSE "finish")
        /\ UNCHANGED <<dest, jn, disk, ops, applied, answer, budget>>

\* One turn of driveRecovery's loop.  It trusts the progress it holds in memory.
Decide(w) ==
    LET t == drv[w].tx
        mem == drv[w].mem
        d == DecideRecovery(ops[t], mem, dest, jn[t].pay)
    IN  /\ At(w, "decide")
        /\ CASE d.kind = "abort" -> Persist(w, [mem EXCEPT !.phase = "aborted", !.published = 0], "decide")
             [] d.kind = "record_published" -> Persist(w, [mem EXCEPT !.published = d.op], "decide")
             [] d.kind = "publish" -> drv' = [drv EXCEPT ![w].pc = "recheck", ![w].idx = d.op]
             [] d.kind = "commit" ->
                  Persist(w, [mem EXCEPT !.phase = "committed", !.published = LastOp(w)], "decide")
             [] d.kind = "cleanup" -> drv' = [drv EXCEPT ![w].pc = "cleanup", ![w].back = "decide"]
             [] d.kind = "complete" ->
                  drv' = [drv EXCEPT ![w].pc = IF HasCleanupEntries(jn[t]) THEN "cleanup" ELSE "finish",
                                     ![w].back = "finish"]
             [] OTHER -> Fail(w, "state_corrupt")
        /\ UNCHANGED <<dest, jn, disk, ops, applied, answer, budget>>

Recheck(w) ==
    LET op == Op(w)
    IN  /\ At(w, "recheck")
        /\ IF ~ParentIsDirectory(dest, op.path) THEN Fail(w, "state_corrupt")
           ELSE IF dest[op.path] = op.result
           THEN Persist(w, [drv[w].mem EXCEPT !.published = @ + 1], "decide")
           ELSE IF dest[op.path] # op.expected THEN Fail(w, "state_corrupt")
           ELSE IF Staged(op) /\ Mine(w).pay[drv[w].idx] # "full" THEN Fail(w, "state_corrupt")
           ELSE Goto(w, "apply")
        /\ UNCHANGED <<dest, jn, disk, ops, applied, answer, budget>>

-----------------------------------------------------------------------------
(* classifyDriverFailure                                                   *)

\* classifyPublishingState: roll-forward is possible, or the evidence is corrupt.
PublishingVerdict(t) ==
    LET d == DecideRecovery(ops[t], jn[t].prog, dest, jn[t].pay)
    IN  IF \/ d.kind = "blocked"
           \/ d.kind = "publish" /\ ~ParentIsDirectory(dest, ops[t][d.op].path)
        THEN "state_corrupt" ELSE "recovery_required"

\* What the journals say of a failure that belongs to no transaction.
ProjectVerdict ==
    IF \E u \in TxId : CorruptJournal(jn[u]) THEN "state_corrupt"
    ELSE IF \E u \in TxId : Incomplete(jn[u]) THEN "recovery_required"
    ELSE "internal_failure"

Verdict(w) ==
    LET t == drv[w].tx
        why == drv[w].why
        phase == jn[t].prog.phase
    IN  IF \E u \in TxId : CorruptJournal(jn[u]) THEN "state_corrupt"
        ELSE IF ~Marked(jn[t])
        THEN IF ProjectVerdict = "internal_failure" /\ why # "raw" THEN why ELSE ProjectVerdict
        ELSE IF drv[w].mode = "rec" /\ jn[t].prog.bound # drv[w].mem.bound THEN "recovery_required"
        ELSE IF Terminal(phase) THEN IF HasCleanupEntries(jn[t]) THEN "recovery_required" ELSE phase
        ELSE IF phase = "publishing" THEN PublishingVerdict(t)
        ELSE IF why = "raw" THEN "recovery_required" ELSE why

\* An unexpected error before the first progress document takes the empty
\* directory away again (cleanupUnmarkedTransaction).
RemovesOwnDirectory(w) ==
    LET j == Mine(w)
    IN  /\ drv[w].why = "raw"
        /\ j.root /\ ~Marked(j) /\ ~j.staging /\ j.man = "missing"

CleanupUnmarked(w) ==
    /\ At(w, "failed")
    /\ RemovesOwnDirectory(w)
    /\ drv' = [drv EXCEPT ![w].tgt = drv[w].tx,
                          ![w].pc = IF Mine(w).next # NoProgress THEN "unNext" ELSE "unDir"]
    /\ UNCHANGED <<dest, jn, disk, ops, applied, answer, budget>>

\* The file system fails again while a failure is being classified.
Classifying(w) ==
    \/ drv[w].pc \in {"failed", "classify", "unNext", "unDir"}
    \/ drv[w].pc = "finish" /\ drv[w].why # "none"

Unclassified(w) ==
    IF drv[w].sure THEN "recovery_required"
    ELSE IF drv[w].why = "raw" THEN "internal_failure" ELSE drv[w].why

\* A terminal transaction without residue still returns its receipt.
Classify(w) ==
    /\ At(w, "classify") \/ (At(w, "failed") /\ ~RemovesOwnDirectory(w))
    /\ IF Terminal(Verdict(w))
       THEN /\ drv' = [drv EXCEPT ![w].pc = "finish", ![w].mem = Mine(w).prog, ![w].sync = "root"]
            /\ UNCHANGED answer
       ELSE Return(w, Verdict(w))
    /\ UNCHANGED <<dest, jn, disk, ops, applied, budget>>

-----------------------------------------------------------------------------
(* The environment.                                                        *)

Crash(w) ==
    /\ drv[w].pc # "idle" /\ budget.crash < MaxCrash
    /\ budget' = [budget EXCEPT !.crash = @ + 1]
    /\ drv' = [drv EXCEPT ![w] = Idle]
    /\ UNCHANGED <<dest, jn, disk, ops, applied, answer>>

\* A call, or the synchronisation after it, throws: in preflight, before the
\* transaction has an identifier, while a failure is being classified, or else
\* in the driver.
Fault(w) ==
    /\ drv[w].pc \in Faulty \/ drv[w].sync # "none"
    /\ budget.fault < MaxFault
    /\ budget' = [budget EXCEPT !.fault = @ + 1]
    /\ IF drv[w].tx = NoTx
       THEN Return(w, IF drv[w].pc = "begin" THEN ProjectVerdict ELSE "internal_failure")
       ELSE IF Classifying(w) THEN Return(w, Unclassified(w))
       ELSE Fail(w, "raw") /\ UNCHANGED answer
    /\ UNCHANGED <<dest, jn, disk, ops, applied>>

\* The machine stops.  Of the changes no synchronisation covered, some reached
\* the disk: a whole journal directory or not, each destination or not.  A
\* rename reached it at both ends or at neither.
PowerLoss ==
    /\ budget.power < MaxPower
    /\ \E J \in SUBSET TxId, D \in SUBSET Path :
         LET kept(t) == disk.applied[t] \cup {i \in applied[t] : ops[t][i].path \in D}
             base(t) == IF t \in J THEN jn[t] ELSE disk.jn[t]
             left(t) ==
               [base(t) EXCEPT !.pay = [i \in 1 .. MaxOps |->
                  CASE i \in kept(t) \/ ~base(t).staging -> "missing"
                    [] i \in applied[t] \ kept(t)        -> disk.jn[t].pay[i]
                    [] OTHER                             -> base(t).pay[i]]]
             now == [p \in Path |-> IF p \in D THEN dest[p] ELSE disk.dest[p]]
         IN  /\ \A p \in Path : now[p] # Missing => ParentIsDirectory(now, p)
             /\ dest' = now
             /\ jn' = [t \in TxId |-> IF base(t).root THEN left(t) ELSE NoJournal]
             /\ applied' = [t \in TxId |-> kept(t)]
             /\ disk' = [dest |-> dest', jn |-> jn', applied |-> applied']
    /\ drv' = [w \in Worker |-> Idle]
    /\ budget' = [budget EXCEPT !.power = @ + 1]
    /\ UNCHANGED <<ops, answer>>

\* Someone edits, creates or deletes a managed file, durably.
Edit(p, c) ==
    /\ budget.edits < MaxEdits
    /\ ParentIsDirectory(dest, p)
    /\ dest[p] # c /\ dest[p] # Directory
    /\ dest' = [dest EXCEPT ![p] = c]
    /\ disk' = [disk EXCEPT !.dest[p] = c,
                            !.applied = [t \in TxId |-> @[t] \cup {i \in applied[t] : ops[t][i].path = p}]]
    /\ budget' = [budget EXCEPT !.edits = @ + 1]
    /\ UNCHANGED <<jn, ops, applied, drv, answer>>

-----------------------------------------------------------------------------

Preflight(w) ==
    \/ \E t \in TxId : ReconcileUnmarked(w, t)
    \/ UnmarkNext(w) \/ UnmarkDirectory(w) \/ ReconcileDone(w) \/ Inspect(w) \/ Observe(w)

PersistProgress(w) == ClearNext(w) \/ WriteNext(w) \/ RenameNext(w)

DriveExecution(w) ==
    \/ \E t \in TxId : Begin(w, t)
    \/ MakeStaging(w) \/ Stage(w) \/ FillPayload(w) \/ WriteManifest(w) \/ FillManifest(w)
    \/ Prepare(w) \/ Authorize(w) \/ CheckPublishable(w) \/ Commit(w)

Publish(w) == Apply(w) \/ Verify(w)

DriveRecovery(w) == Decide(w) \/ Recheck(w)

Conclude(w) == CleanupStep(w) \/ Finish(w) \/ CleanupUnmarked(w) \/ Classify(w)

\* A step of the program itself.
Step(w) ==
    \/ Sync(w) \/ Preflight(w) \/ PersistProgress(w) \/ DriveExecution(w)
    \/ Publish(w) \/ DriveRecovery(w) \/ Conclude(w)

Call(w) ==
    \/ \E plan \in Plans : Submit(w, plan)
    \/ \E t \in TxId, token \in BOOLEAN : Recover(w, t, token)

Environment ==
    \/ \E w \in Worker : Crash(w) \/ Fault(w)
    \/ PowerLoss
    \/ \E p \in Path, c \in Content \cup {Missing} : Edit(p, c)

Next == (\E w \in Worker : Step(w) \/ Call(w)) \/ Environment

Spec == Init /\ [][Next]_vars

\* The scheduler runs a process that can move, and somebody recovers what is
\* left behind: a recovery that stays possible, or keeps becoming possible
\* between refused commands, is eventually asked for with the right token.
RecoverIncomplete(w, t) ==
    Incomplete(jn[t]) /\ Recover(w, t, jn[t].prog.bound)

FairSpec ==
    /\ Spec
    /\ \A w \in Worker : WF_vars(Step(w))
    /\ \A w \in Worker, t \in TxId : SF_vars(RecoverIncomplete(w, t))

-----------------------------------------------------------------------------
(* Properties.                                                             *)

Driver ==
    [pc : PC, mode : {"exec", "rec"}, tx : TxId \cup {NoTx}, tgt : TxId \cup {NoTx},
     plan : Plan, ops : Seq(Operation), mem : Progress \cup {NoProgress}, back : PC,
     idx : 1 .. MaxOps + 1, sync : {"none", "transactions", "root", "staging", "parent"},
     why : Reason \cup {"none", "raw"}, sure : BOOLEAN]

Manifest == {o \in Seq(Operation) : Len(o) <= MaxOps}

\* The shape of the state of processes, journals and disk.
TypeOK ==
    /\ dest \in [Path -> Fingerprint]
    /\ jn \in [TxId -> Journal]
    /\ disk \in [dest : [Path -> Fingerprint], jn : [TxId -> Journal],
                 applied : [TxId -> SUBSET (1 .. MaxOps)]]
    /\ ops \in [TxId -> Manifest]
    /\ applied \in [TxId -> SUBSET (1 .. MaxOps)]
    /\ drv \in [Worker -> Driver]
    /\ answer \in [Worker -> [code : Code, tx : TxId \cup {NoTx}]]
    /\ budget \in [crash : 0 .. MaxCrash, power : 0 .. MaxPower,
                   fault : 0 .. MaxFault, edits : 0 .. MaxEdits]

\* No destination changes on behalf of a transaction whose progress document
\* does not authorise publication: before "publishing", and under "aborted",
\* not one operation of the manifest has taken effect, whoever crashed, failed
\* or raced (driveExecution, driveRecovery, recoverWithoutManifest).
PublishedOnlyWhenAuthorized ==
    \A t \in TxId : applied[t] # {} => jn[t].prog.phase \in {"publishing", "committed"}

\* The operations that took effect are a prefix of the manifest, and progress
\* trails the effects by at most the one operation in flight, so that recovery
\* can tell exactly where a lost driver stood.
ProgressTrailsEffects ==
    \A t \in TxId : Marked(jn[t]) =>
        LET n == jn[t].prog.published
        IN  \/ applied[t] = 1 .. n
            \/ jn[t].prog.phase = "publishing" /\ applied[t] = 1 .. n + 1

\* A receipt tells the truth: "committed" only when every file write of the
\* manifest took effect (a directory made or a file deleted by somebody else in
\* the meantime is accepted as done), "aborted" only when no operation did, a
\* refusal that blames the plan leaves no trace of the transaction in any
\* destination, and one that blames the machine leaves no marker either.
AnswersAreTrue ==
    \A w \in Worker : LET t == answer[w].tx IN t \in TxId =>
        /\ answer[w].code = "committed" => \A i \in DOMAIN ops[t] : Staged(ops[t][i]) => i \in applied[t]
        /\ answer[w].code \in {"aborted", "revision_conflict"} => applied[t] = {}
        /\ answer[w].code = "internal_failure" => ~Marked(jn[t])

\* A transaction nobody drives any more can be recovered: its journal is not
\* corrupt, and recovery aborts it, rolls it forward or tidies it up instead of
\* blocking on what the lost driver left (decideRecovery).
AlwaysRecoverable ==
    \A t \in TxId : (Incomplete(jn[t]) /\ \A w \in Worker : drv[w].tx # t) =>
        /\ ~CorruptJournal(jn[t])
        /\ jn[t].prog.bound => DecideRecovery(ops[t], jn[t].prog, dest, jn[t].pay).kind # "blocked"

\* Roll-forward is durably authorised before the first destination changes: a
\* power loss never finds an effect without the progress document that owns it.
DurablyAuthorized ==
    \A t \in TxId : applied[t] # {} => disk.jn[t].prog.phase \in {"publishing", "committed"}

\* A durable "committed" means durable results: every operation of the manifest
\* is on the disk once the terminal progress document is.
CommittedIsDurable ==
    \A t \in TxId : disk.jn[t].prog.phase = "committed" => disk.applied[t] = DOMAIN ops[t]

\* While one transaction publishes, no other one does.
OnePublisher ==
    \A t, u \in TxId :
        jn[t].prog.phase = "publishing" /\ jn[u].prog.phase = "publishing" => t = u

LegalTransitions ==
    {<<"missing", "begun">>, <<"begun", "prepared">>, <<"begun", "aborted">>,
     <<"prepared", "publishing">>, <<"prepared", "aborted">>, <<"publishing", "committed">>}

\* Short of a power loss a transaction moves through its phases in the legal
\* order only, and a terminal one never again; no clean-up of another process
\* takes a progress document away (assertPhaseTransition, and the executor,
\* which never consults it).
PhasesMoveForward ==
    [][\A t \in TxId :
         \/ jn'[t].prog.phase = jn[t].prog.phase
         \/ <<jn[t].prog.phase, jn'[t].prog.phase>> \in LegalTransitions
         \/ budget'.power # budget.power]_vars

\* A transaction takes effect when its progress document says "publishing": from
\* then on recovery completes it, so the operations it still owes count as done.
Owed(p) ==
    {r \in TxId \X (1 .. MaxOps) :
        /\ jn[r[1]].prog.phase = "publishing"
        /\ r[2] \in DOMAIN ops[r[1]] \ applied[r[1]]
        /\ ops[r[1]][r[2]].path = p}

Store == [p \in Path |->
            IF Owed(p) = {} THEN dest[p]
            ELSE LET r == CHOOSE r \in Owed(p) : TRUE IN ops[r[1]][r[2]].result]

Fate == [t \in TxId |->
           CASE jn[t].prog.phase \in {"publishing", "committed"} -> "committed"
             [] jn[t].prog.phase = "aborted" -> "aborted"
             [] OTHER -> "open"]

Abstract == INSTANCE AtomicCommit WITH store <- Store, fate <- Fate

\* Step by step, crash by crash and recovery by recovery the driver implements
\* all-or-nothing transactions on the destinations their callers observed.
ImplementsAtomicCommit == Abstract!Spec

\* Every transaction that left a marker ends committed or aborted and tidied up.
EveryTransactionEnds ==
    \A t \in TxId : Marked(jn[t]) ~> (Terminal(jn[t].prog.phase) /\ ~HasCleanupEntries(jn[t]))

=============================================================================
