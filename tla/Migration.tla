------------------------------ MODULE Migration ------------------------------
(* The project files that are reviewed before they change: the curated       *)
(* memory and its rendering, the project configuration, and the files a      *)
(* legacy sibling Brain is copied to.  Memory commands (domain/cli/memory.ts)*)
(* and migrations (domain/cli/migration.ts, composition/migration.ts) show a *)
(* plan, apply it only under the digest of what was shown, and commit it as  *)
(* one transaction that checks the fingerprints the plan carries.  A         *)
(* migration leaves a bundle (backup, receipt, rollback and verification     *)
(* records) that a rollback consumes.                                        *)
(*                                                                           *)
(* A digest is modelled by the value it digests.  Promotion deletes the      *)
(* candidates it consumed after its commit, one transaction each, as far as  *)
(* that goes.  Meanwhile captures arrive and the user edits files.           *)
EXTENDS CuratedMemory

CONSTANTS
    Procs,          \* commands in flight together
    BrainFiles,     \* regular files of the legacy sibling Brain
    HandTexts,      \* notes a person writes into gotchas.md
    ConfigTexts,    \* settings a person writes into config.json
    OldVersion,     \* version of an unmigrated configuration
    CurrentVersion, \* version a migration produces
    Starts,         \* how the project's memory begins
    MaxCount,       \* bound: observations of a candidate
    MaxSpare        \* bound: previews, captures, edits, rollbacks, failed cleanups
                    \* and commands started beside another, together

ASSUME VersionsAssumption ==
    OldVersion \in Nat /\ CurrentVersion \in Nat /\ OldVersion < CurrentVersion
ASSUME BoundsAssumption == MaxCount \in Nat /\ MaxSpare \in Nat

\* gotchas.md exists since the project does, so a legacy one is never copied over
\* it; and a person's notes are neither the stock document nor a rendering.
ASSUME NotesAssumption ==
    "gotchas" \notin BrainFiles /\ HandTexts \cap {"stock", "projection"} = {}

VARIABLES
    files,       \* content of each project file
    inbox,       \* candidate -> observations its file counts (0: no file) and the
                 \* instant of the last
    bundles,     \* .brain/migrations
    proc,        \* process -> what it reviewed, applies and still has to clean up
    spare,       \* what is left of MaxSpare
    balance,     \* history: observations captured or credited and not retired
    counted,     \* history: candidate -> how many of its file's observations a
                 \* lesson counts already
    recounted,   \* history: observations that lessons counted again
    twins,       \* history: one reinforcement replaced several lessons
    trampled     \* history: a brain file of the project's own was lost

vars == <<files, inbox, bundles, proc, spare, balance, counted, recounted, twins, trampled>>

MemoryFiles == {"ledger", "gotchas"}
Files == MemoryFiles \cup {"config"} \cup BrainFiles

Configs == [version : {OldVersion, CurrentVersion}, text : ConfigTexts]
NoFile == [count |-> 0, last |-> 0]
Inbox == [count : 0..MaxCount, last : 0..(MaxSpare + 1)]
Counts == [c \in Candidates |-> inbox[c].count]

HandNotes == {Notes(text) : text \in HandTexts}
Statuses == {"completed", "rolled-back"}

NoBundle == [id |-> <<>>, status |-> "none", before |-> <<>>, after |-> <<>>]

\* A plan: the request, the files as read and as written, those of them whose
\* fingerprint is checked, the candidates asserted, and the bundle it adds.
NoPlan == [request |-> [op |-> "none"], saw |-> <<>>, next |-> <<>>, guards |-> {},
           asserts |-> <<>>, bundle |-> NoBundle]

Idle == [stage |-> "idle", reviewed |-> NoPlan, plan |-> NoPlan, cleaning |-> {}]

TypeOK ==
    /\ files["ledger"] \in [version : {"none", "1.0.0", "1.1.0"}, revision : Nat,
                            confirmed : Seq(Lesson), archive : Seq(Tombstone)]
    /\ Len(files["ledger"].confirmed) <= ConfirmedMax
    /\ Len(files["ledger"].archive) <= ArchiveMax
    /\ files["config"] \in Configs
    /\ \A f \in BrainFiles : files[f] \in {"missing", "legacy", "own"}
    /\ inbox \in [Candidates -> Inbox]
    /\ \A b \in bundles : b.status \in Statuses /\ DOMAIN b.before = DOMAIN b.after
    /\ \A p \in Procs : proc[p].stage \in {"idle", "reviewed", "applying", "cleaning"}
    /\ spare \in 0..MaxSpare /\ balance \in Int /\ recounted \in Nat
    /\ \A c \in Candidates : counted[c] \in 0..inbox[c].count
    /\ twins \in BOOLEAN /\ trampled \in BOOLEAN

Ledgers == files["ledger"]
Restricted(names) == [f \in names |-> files[f]]

-----------------------------------------------------------------------------
(* What a command makes of the files it reads *)

\* readCuratedState: a version 1 ledger that agrees with its rendering, or none
\* beside the stock document.
readCuratedState ==
    \/ Ledgers = NoLedger /\ files["gotchas"] = StockGotchas
    \/ /\ Ledgers.version = "1.0.0"
       /\ validatesCuratedMemorySemantics(Ledgers)
       /\ files["gotchas"] = renderCuratedMemory(Ledgers)

\* readCuratedStateV1_1: the rendering is compared, the semantics are not.
readCuratedStateV1_1 ==
    /\ Ledgers.version = "1.1.0"
    /\ files["gotchas"] = renderCuratedMemory(Ledgers)

\* What the change makes of the ledger the command read.
Reduced(request) ==
    CASE readCuratedStateV1_1 /\ request.op = "curate" ->
            applyMemoryCuration(Ledgers, request.approved)
      [] readCuratedStateV1_1 ->
            reduceMemoryChangeV1_4(Ledgers, Counts, request)
      [] readCuratedState ->
            reduceMemoryChange(IF Ledgers = NoLedger THEN EmptyLedger ELSE Ledgers, request)
      [] OTHER -> NoLedger

Consumed(request) == IF request.op \in {"promote", "reinforce"} THEN request.from ELSE {}

\* The plan of a memory change: ledger and rendering, both as read, and every
\* consumed candidate asserted.
memoryChange(request) ==
    LET next == Reduced(request)
    IN  IF next = NoLedger \/ ~selectCandidates(Counts, Consumed(request)) THEN NoPlan
        ELSE [NoPlan EXCEPT
                !.request = request, !.saw = Restricted(MemoryFiles),
                !.next = [ledger |-> next, gotchas |-> renderCuratedMemory(next)],
                !.guards = MemoryFiles,
                !.asserts = [c \in Consumed(request) |-> inbox[c]]]

\* plannedMemoryMigration, completed: the receipt and what rollback needs.
Bundle(id, before, after) ==
    [id |-> id, status |-> "completed", before |-> before, after |-> after]

\* migrate memory of free-form notes: the rendering replaces them.
legacyMigration(request) ==
    LET next == reduceLegacyMemoryMigration(files["gotchas"], request.title)
        after == [ledger |-> next, gotchas |-> renderCuratedMemory(next)]
    IN  IF classifyLegacyMemory(Ledgers, files["gotchas"]) = "adopted" THEN NoPlan
        ELSE [NoPlan EXCEPT
                !.request = request, !.saw = Restricted(MemoryFiles), !.next = after,
                !.guards = MemoryFiles,
                !.bundle = Bundle(<<"memory", files["gotchas"], request.time>>,
                                  Restricted(MemoryFiles), after)]

\* migrate memory of a version 1 ledger: the ledger alone is written and checked.
curatedMemoryUpgrade(request) ==
    LET after == [ledger |-> upgradeCuratedMemoryV1(Ledgers)]
    IN  IF Ledgers.version # "1.0.0" \/ ~readCuratedState THEN NoPlan
        ELSE [NoPlan EXCEPT
                !.request = request, !.saw = Restricted({"ledger"}), !.next = after,
                !.guards = {"ledger"},
                !.bundle = Bundle(<<"memory-state", Ledgers, request.time>>,
                                  Restricted({"ledger"}), after)]

migrateMemory(request) ==
    IF Ledgers = NoLedger THEN legacyMigration(request) ELSE curatedMemoryUpgrade(request)

\* The attempts of one lineage: the same source migrated again.
Lineage(source) == {b \in bundles : b.id[1] = "config" /\ b.id[2] = source}

\* Every earlier attempt must have been rolled back; 0 refuses.
nextConfigAttempt(source) ==
    IF \A b \in Lineage(source) : b.status = "rolled-back"
    THEN Cardinality(Lineage(source)) + 1 ELSE 0

upgradeProjectConfiguration(config) == [config EXCEPT !.version = CurrentVersion]

\* migrate config: the source and the earlier attempts are checked again.
migrateConfig(request) ==
    LET source == files["config"]
        attempt == nextConfigAttempt(source)
        after == [config |-> upgradeProjectConfiguration(source)]
    IN  IF source.version = CurrentVersion \/ attempt = 0 THEN NoPlan
        ELSE [NoPlan EXCEPT
                !.request = request, !.saw = Restricted({"config"}), !.next = after,
                !.guards = {"config"},
                !.bundle = Bundle(<<"config", source, attempt>>,
                                  Restricted({"config"}), after)]

\* planBrainMigration: a project file that differs blocks; absent ones are copied.
planBrainMigration(request) ==
    LET copies == {f \in BrainFiles : files[f] = "missing"}
        after == [f \in copies |-> "legacy"]
    IN  IF copies = {} \/ \E f \in BrainFiles : files[f] = "own" THEN NoPlan
        ELSE [NoPlan EXCEPT
                !.request = request, !.saw = Restricted(copies), !.next = after,
                !.bundle = Bundle(<<"brain", request.time>>, Restricted(copies), after)]

planned(request) ==
    CASE request.op = "migrate memory" -> migrateMemory(request)
      [] request.op = "migrate config" -> migrateConfig(request)
      [] request.op = "migrate brain" -> planBrainMigration(request)
      [] OTHER -> memoryChange(request)
\* The migration's files are all as it left them; its ledger is not looked at.
AsMigratedByProjection(bundle) ==
    \A f \in DOMAIN bundle.after \ {"ledger"} : files[f] = bundle.after[f]

\* The migration's files, and for notes the ledger too, are as it left them.
AsMigrated(bundle) == \A f \in DOMAIN bundle.after : files[f] = bundle.after[f]

\* migrate rollback: a brain rollback deletes its targets and writes its receipt
\* unchecked, the others check every file again.
observeRollback(bundle) ==
    IF bundle.status # "completed" \/ ~AsMigrated(bundle) THEN NoPlan
    ELSE [NoPlan EXCEPT
            !.request = [op |-> "rollback", bundle |-> bundle],
            !.saw = Restricted(DOMAIN bundle.after), !.next = bundle.before,
            !.guards = IF bundle.id[1] = "brain" THEN {} ELSE DOMAIN bundle.after,
            !.bundle = [bundle EXCEPT !.status = "rolled-back"]]

-----------------------------------------------------------------------------
(* Reviewing, applying, committing *)

InFlight == {p \in Procs : proc[p].stage \in {"applying", "cleaning"}}

\* The budget: `cost`, and one more beside another command in flight.
Charge(p, cost) ==
    LET due == cost + (IF InFlight \ {p} = {} THEN 0 ELSE 1)
    IN  spare >= due /\ spare' = spare - due

disk == <<files, inbox, bundles>>
history == <<balance, counted, recounted, twins, trampled>>

Proposals ==
    [op : {"promote"}, title : Titles, from : (SUBSET Candidates) \ {{}}]
      \cup [op : {"reinforce"}, ids : {{id} : id \in Ids(Ledgers.confirmed)},
            from : (SUBSET Candidates) \ {{}}]
      \cup [op : {"merge"}, title : Titles, ids : SUBSET Ids(Ledgers.confirmed)]
      \cup [op : {"archive"}, ids : {{id} : id \in Ids(Ledgers.confirmed)}]

\* An approved batch of at most two proposals, in the order of their scores.
Batches ==
    [op : {"curate"},
     approved : {batch \in SeqOf(proposeMemoryCuration(Ledgers), 2) : batch # <<>>}]

Migrations ==
    [op : {"migrate memory"}, title : Titles, time : {spare}]
      \cup [op : {"migrate config"}]

\* A preview writes nothing and prints the digest of all it read and would write.
preview(p, request) ==
    /\ proc[p].stage = "idle"
    /\ planned(request) # NoPlan
    /\ Charge(p, 1)
    /\ proc' = [proc EXCEPT ![p].stage = "reviewed", ![p].reviewed = planned(request)]
    /\ UNCHANGED <<disk, history>>

\* The digest names the request, not what it was reviewed against.
SameDigestOfRequest(reviewed, now) == now.request = reviewed.request

\* The digest names the request, the files read and the files to write.
SameDigest(reviewed, now) == now = reviewed

\* --yes under the reviewed digests: the plan is derived again.
apply(p) ==
    LET now == planned(proc[p].reviewed.request)
    IN  /\ proc[p].stage = "reviewed"
        /\ now # NoPlan
        /\ SameDigest(proc[p].reviewed, now)
        /\ Charge(p, 0)
        /\ proc' = [proc EXCEPT ![p].stage = "applying", ![p].plan = now]
        /\ UNCHANGED <<disk, history>>

\* The reviewed plan is stale, or its reader walks away.
dismiss(p) ==
    /\ proc[p].stage = "reviewed"
    /\ ~SameDigest(proc[p].reviewed, planned(proc[p].reviewed.request))
    /\ proc' = [proc EXCEPT ![p] = Idle]
    /\ UNCHANGED <<disk, history, spare>>

\* Commands that are not bound to a preview.
direct(p, plan) ==
    /\ proc[p].stage = "idle"
    /\ plan # NoPlan
    /\ Charge(p, 1)
    /\ proc' = [proc EXCEPT ![p].stage = "applying", ![p].plan = plan,
                            ![p].reviewed = plan]
    /\ UNCHANGED <<disk, history>>

migrateBrain(p) == direct(p, planBrainMigration([op |-> "migrate brain", time |-> spare]))

rollback(p) == \E b \in bundles : direct(p, observeRollback(b))

\* A failure seen again: by `memory capture`, or by the hook of a failed tool.  No
\* two are observed at one instant.
captureCandidate(p, c) ==
    /\ inbox[c].count < MaxCount
    /\ direct(p, [NoPlan EXCEPT !.request = [op |-> "capture", from |-> {c}, time |-> spare],
                                !.asserts = [k \in {c} |-> inbox[k]]])

\* Guarded files and asserted candidates are as read, a new bundle's files are
\* missing, and a receipt to roll back still says completed (brain's is not read).
PreconditionsHold(plan) ==
    /\ \A f \in plan.guards : files[f] = plan.saw[f]
    /\ \A c \in DOMAIN plan.asserts : inbox[c] = plan.asserts[c]
    /\ \A b \in bundles : b.id = plan.bundle.id =>
          /\ plan.bundle.status = "rolled-back"
          /\ b.status = "completed" \/ b.id[1] = "brain"

\* What the change takes out of the count.
Retired(plan) ==
    CASE plan.request.op = "archive" ->
            Observations(Named(Ledgers.confirmed, plan.request.ids))
      [] plan.request.op = "curate" ->
            Observations(Named(Ledgers.confirmed,
                UNION {plan.request.approved[i].ids :
                          i \in {k \in DOMAIN plan.request.approved :
                                    plan.request.approved[k].type # "merge"}}))
      [] plan.request.op = "promote" /\ plan.next["ledger"].version = "1.0.0" ->
            SumFunctionOnSet(Counts, DOMAIN plan.asserts)
      [] OTHER -> 0

\* What it adds without an observation being consumed.
Credited(plan) ==
    CASE plan.request.op = "capture" -> 1
      [] plan.request.op \in {"migrate memory", "rollback"} /\ "ledger" \in DOMAIN plan.next ->
            Observations(plan.next["ledger"].confirmed) - Observations(Ledgers.confirmed)
      [] OTHER -> 0

Captured(plan) ==
    IF plan.request.op = "capture"
    THEN [c \in DOMAIN plan.asserts |-> [count |-> inbox[c].count + 1,
                                         last |-> plan.request.time]]
    ELSE <<>>

commit(p) ==
    LET plan == proc[p].plan
        consumed == IF plan.request.op = "capture" THEN {} ELSE DOMAIN plan.asserts
    IN  /\ proc[p].stage = "applying"
        /\ PreconditionsHold(plan)
        /\ files' = [f \in Files |-> IF f \in DOMAIN plan.next THEN plan.next[f] ELSE files[f]]
        /\ inbox' = Captured(plan) @@ inbox
        /\ bundles' = IF plan.bundle = NoBundle THEN bundles
                      ELSE {b \in bundles : b.id # plan.bundle.id} \cup {plan.bundle}
        /\ proc' = [proc EXCEPT ![p] =
                      IF consumed = {} THEN Idle
                      ELSE [@ EXCEPT !.stage = "cleaning", !.cleaning = consumed,
                                     !.reviewed = NoPlan]]
        /\ balance' = balance + Credited(plan) - Retired(plan)
        /\ counted' = [c \in Candidates |-> IF c \in consumed THEN inbox[c].count ELSE counted[c]]
        /\ recounted' = recounted + SumFunctionOnSet(counted, consumed)
        /\ twins' = (twins \/ /\ plan.request.op = "reinforce"
                              /\ Len(Named(Ledgers.confirmed, plan.request.ids)) > 1)
        /\ trampled' = (trampled \/ \E f \in BrainFiles : files[f] = "own" /\ files'[f] # "own")
        /\ UNCHANGED spare

\* A precondition fails: the plan is refused and nothing is written.
refuse(p) ==
    /\ proc[p].stage = "applying"
    /\ ~PreconditionsHold(proc[p].plan)
    /\ proc' = [proc EXCEPT ![p] = Idle]
    /\ UNCHANGED <<disk, history, spare>>

\* Nothing is left to clean up: the command ends.
Cleaned(p, c) ==
    IF proc[p].cleaning = {c} THEN Idle ELSE [proc[p] EXCEPT !.cleaning = @ \ {c}]

\* Mutant: what was captured anew goes with it.
cleanupWhatIsThere(p, c) ==
    /\ c \in proc[p].cleaning
    /\ inbox' = [inbox EXCEPT ![c] = NoFile]
    /\ counted' = [counted EXCEPT ![c] = 0]
    /\ proc' = [proc EXCEPT ![p] = Cleaned(p, c)]
    /\ UNCHANGED <<files, bundles, spare, balance, recounted, twins, trampled>>

\* One consumed candidate is deleted, if it is still the one consumed; otherwise
\* the refusal is swallowed and the file stays.
cleanupCandidates(p, c) ==
    /\ c \in proc[p].cleaning
    /\ IF inbox[c] = proc[p].plan.asserts[c]
       THEN /\ inbox' = [inbox EXCEPT ![c] = NoFile]
            /\ counted' = [counted EXCEPT ![c] = 0]
       ELSE UNCHANGED <<inbox, counted>>
    /\ proc' = [proc EXCEPT ![p] = Cleaned(p, c)]
    /\ UNCHANGED <<files, bundles, spare, balance, recounted, twins, trampled>>

\* The process dies or its cleanup fails: the candidates stay.
abandon(p) ==
    /\ proc[p].stage = "cleaning"
    /\ Charge(p, 1)
    /\ proc' = [proc EXCEPT ![p] = Idle]
    /\ UNCHANGED <<disk, history>>

-----------------------------------------------------------------------------
(* The people *)

edit(f, content) ==
    /\ content # files[f]
    /\ spare >= 1
    /\ spare' = spare - 1
    /\ files' = [files EXCEPT ![f] = content]
    /\ UNCHANGED <<inbox, bundles, proc, history>>

\* Notes of their own, or the rendering put back.
editGotchas ==
    \/ \E text \in HandNotes : edit("gotchas", text)
    \/ Ledgers # NoLedger /\ edit("gotchas", renderCuratedMemory(Ledgers))
editConfig == \E config \in Configs : edit("config", config)
editBrain == \E f \in BrainFiles : edit(f, "own")

-----------------------------------------------------------------------------
(* Specification *)

\* A new project, one with notes from before curated memory, or one whose empty
\* memory was migrated twice.
StockMigrated == reduceLegacyMemoryMigration(StockGotchas, CHOOSE t \in Titles : TRUE)
StockUpgraded == upgradeCuratedMemoryV1(StockMigrated)

StartLedger(start) == IF start = "adopted" THEN StockUpgraded ELSE NoLedger

StartGotchas(start) ==
    CASE start = "stock" -> StockGotchas
      [] start = "notes" -> CHOOSE text \in HandNotes : TRUE
      [] start = "adopted" -> renderCuratedMemory(StockUpgraded)

StartBundles(start) ==
    IF start # "adopted" THEN {}
    ELSE {Bundle(<<"memory", StockGotchas, MaxSpare + 2>>,
                 [ledger |-> NoLedger, gotchas |-> StockGotchas],
                 [ledger |-> StockMigrated, gotchas |-> renderCuratedMemory(StockMigrated)]),
          Bundle(<<"memory-state", StockMigrated, MaxSpare + 1>>,
                 [ledger |-> StockMigrated], [ledger |-> StockUpgraded])}

Init ==
    /\ \E start \in Starts, text \in ConfigTexts :
          /\ files = [f \in Files |->
                        CASE f = "ledger" -> StartLedger(start)
                          [] f = "gotchas" -> StartGotchas(start)
                          [] f = "config" -> [version |-> OldVersion, text |-> text]
                          [] OTHER -> "missing"]
          /\ bundles = StartBundles(start)
    /\ inbox \in [Candidates -> {NoFile, [count |-> 1, last |-> MaxSpare + 1]}]
    /\ proc = [p \in Procs |-> Idle]
    /\ spare = MaxSpare
    /\ balance = SumFunction(Counts)
    /\ counted = [c \in Candidates |-> 0]
    /\ recounted = 0 /\ twins = FALSE /\ trampled = FALSE

Next ==
    \/ \E p \in Procs :
          \/ \E request \in Proposals : preview(p, request)
          \/ \E request \in Batches : preview(p, request)
          \/ \E request \in Migrations : preview(p, request)
          \/ apply(p) \/ dismiss(p)
          \/ migrateBrain(p) \/ rollback(p)
          \/ \E c \in Candidates : captureCandidate(p, c)
          \/ commit(p) \/ refuse(p)
          \/ \E c \in Candidates : cleanupCandidates(p, c)
          \/ abandon(p)
    \/ editGotchas \/ editConfig \/ editBrain

Spec == Init /\ [][Next]_vars

-----------------------------------------------------------------------------
(* Properties *)

\* No observation is lost, however promotions and reinforcements, merges,
\* captures, migrations and cleanups interleave, and whether a cleanup fails, its
\* process dies, or the candidate was captured anew meanwhile.  What lessons
\* count again is exactly what a change consumed of a candidate that stood there
\* consumed already: between another's commit and its cleanup, or left behind by
\* a cleanup that did not delete it.  (Lessons promoted twice under one identity
\* are excepted once a reinforcement makes them copies of the first.)
ObservationsConserved ==
    ~twins =>
        balance + recounted = Observations(Ledgers.confirmed)
                                + SumFunctionOnSet([c \in Candidates |-> inbox[c].count - counted[c]],
                                                   Candidates)

\* gotchas.md is the rendering of the ledger, or holds notes a person wrote over
\* it: commands that write one of the two never leave the other behind.
ProjectionAgrees ==
    Ledgers # NoLedger => files["gotchas"] \in HandNotes \cup {renderCuratedMemory(Ledgers)}

\* A migration's backup is what it replaced and its receipt names what it left;
\* a rollback discards exactly what its migration left, never later work, and
\* leaves the state the migration found (brain copies aside).
MigrationsReverse ==
    [][\A b \in bundles' \ bundles : b.id[1] # "brain" =>
          LET found == IF b.status = "completed" THEN b.before ELSE b.after
              left == IF b.status = "completed" THEN b.after ELSE b.before
          IN  \A f \in DOMAIN b.before : files[f] = found[f] /\ files'[f] = left[f]]_vars

\* Notes a person wrote into gotchas.md are replaced by a command only when a
\* backup of those very notes is in place ("projection_drift, not permission to
\* overwrite").
HandWorkKept ==
    [][/\ files["gotchas"] \in HandNotes
       /\ files'["gotchas"] # files["gotchas"]
       /\ proc' # proc
       => \E b \in bundles' : "gotchas" \in DOMAIN b.before
                               /\ b.before["gotchas"] = files["gotchas"]]_vars

\* What a command commits is what it showed, on the files it showed it for.
AppliedAsReviewed ==
    [][\A p \in Procs :
          /\ proc[p].stage = "applying"
          /\ proc'[p] # proc[p]
          /\ files' # files
          => /\ \A f \in DOMAIN proc[p].reviewed.next : files'[f] = proc[p].reviewed.next[f]
             /\ \A f \in proc[p].reviewed.guards : files[f] = proc[p].reviewed.saw[f]]_vars

\* The attempts to migrate one configuration are numbered without gaps and only
\* the last of them can stand.
LineageHasOneHead ==
    \A b \in bundles : b.id[1] = "config" =>
        LET attempts == {a.id[3] : a \in Lineage(b.id[2])}
        IN  /\ attempts = 1..Cardinality(Lineage(b.id[2]))
            /\ b.status = "completed" => b.id[3] = Cardinality(attempts)

\* "An identity already active or retained in the archive, or an invalid merge
\* replacement link, is memory.curation_required; no ledger bytes change":
\* every committed ledger keeps its identities apart and its links resolved.
IdentitiesApart == validatesCuratedMemorySemantics(Ledgers)

\* "The project's own state wins by default": a migration or its rollback never
\* overwrites or deletes a project file of the same name.
ProjectStateWins == ~trampled
==============================================================================
