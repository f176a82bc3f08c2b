--------------------------- MODULE MigrationProofs ---------------------------
(***************************************************************************)
(* Proofs about Migration, for any number of processes, ledgers, texts,    *)
(* candidates, edits and bundles.                                          *)
(***************************************************************************)
EXTENDS Migration, FiniteSetTheorems, TLAPS

\* The files as a migration or a rollback finds and as it leaves them.
Found(bundle) == IF bundle.status = "completed" THEN bundle.before ELSE bundle.after
Left(bundle) == IF bundle.status = "completed" THEN bundle.after ELSE bundle.before

\* A bundle names the same files of the project before and after, and what it
\* leaves in gotchas.md is a rendering.
SoundBundle(bundle) ==
    /\ DOMAIN bundle = DOMAIN NoBundle
    /\ DOMAIN bundle.before = DOMAIN bundle.after
    /\ DOMAIN bundle.before \subseteq Files
    /\ "gotchas" \in DOMAIN bundle.after =>
          bundle.id[1] # "brain" /\ bundle.after["gotchas"] \notin HandNotes

\* Every file of the bundle that a plan adds is checked against what the bundle
\* says the plan found, and written as it says the plan leaves it.
Documented(plan) ==
    plan.bundle.id[1] # "brain" =>
        \A f \in DOMAIN plan.bundle.before :
           /\ f \in plan.guards /\ plan.saw[f] = Found(plan.bundle)[f]
           /\ f \in DOMAIN plan.next /\ plan.next[f] = Left(plan.bundle)[f]

\* A plan that replaces the notes of a person backs them up.
KeepsNotes(plan) ==
    "gotchas" \in DOMAIN plan.next =>
        /\ "gotchas" \in plan.guards
        /\ plan.saw["gotchas"] \in HandNotes =>
              /\ plan.bundle # NoBundle
              /\ "gotchas" \in DOMAIN plan.bundle.before
              /\ plan.bundle.before["gotchas"] = plan.saw["gotchas"]

SoundPlan(plan) ==
    /\ DOMAIN plan.next \subseteq Files
    /\ KeepsNotes(plan)
    /\ plan.bundle # NoBundle => SoundBundle(plan.bundle) /\ Documented(plan)

\* What a process commits is what it reviewed, and sound.
SoundProcess(state) ==
    /\ DOMAIN state = DOMAIN Idle
    /\ state.stage = "applying" => state.plan = state.reviewed /\ SoundPlan(state.plan)

Reviewed ==
    /\ DOMAIN proc = Procs
    /\ \A p \in Procs : SoundProcess(proc[p])
    /\ \A bundle \in bundles : SoundBundle(bundle)

-----------------------------------------------------------------------------
(* Every plan is sound when it is made.                                    *)

LEMMA NoPlanSound == NoPlan.bundle = NoBundle /\ SoundPlan(NoPlan)
<1>1. NoPlan.next = <<>> /\ NoPlan.bundle = NoBundle
  BY DEF NoPlan
<1>2. DOMAIN <<>> = {}
  OBVIOUS
<1> QED BY <1>1, <1>2 DEF SoundPlan, KeepsNotes

\* The notes of a person are neither the stock document nor a rendering.
LEMMA NotHandNotes ==
    /\ StockGotchas \notin HandNotes
    /\ \A ledger : renderCuratedMemory(ledger) \notin HandNotes
<1>1. \A notes \in HandNotes : notes.kind \in HandTexts
  BY DEF HandNotes, Notes
<1>2. StockGotchas.kind = "stock"
  BY DEF StockGotchas, Notes
<1>3. \A ledger : renderCuratedMemory(ledger).kind = "projection"
  BY DEF renderCuratedMemory
<1> HIDE DEF HandNotes, StockGotchas, renderCuratedMemory
<1> QED BY <1>1, <1>2, <1>3, NotesAssumption

\* A plan that leaves the notes alone.
LEMMA NotesLeftAlone == ASSUME NEW plan, "gotchas" \notin DOMAIN plan.next PROVE KeepsNotes(plan)
BY DEF KeepsNotes

\* A memory command changes a ledger whose rendering it found in place.
LEMMA MemoryChangeSound == ASSUME NEW request PROVE SoundPlan(memoryChange(request))
<1> DEFINE next == Reduced(request)
           after == [ledger |-> next, gotchas |-> renderCuratedMemory(next)]
           plan == [NoPlan EXCEPT
                      !.request = request, !.saw = Restricted(MemoryFiles),
                      !.next = after, !.guards = MemoryFiles,
                      !.asserts = [c \in Consumed(request) |-> inbox[c]]]
<1>1. \/ memoryChange(request) = NoPlan
      \/ memoryChange(request) = plan /\ next # NoLedger
  BY DEF memoryChange
<1>2. DOMAIN after \subseteq Files /\ "gotchas" \in MemoryFiles
  BY DEF Files, MemoryFiles
<1>3. next # NoLedger => readCuratedStateV1_1 \/ readCuratedState
  BY DEF Reduced
<1>4. next # NoLedger => files["gotchas"] \notin HandNotes
  BY <1>3, NotHandNotes DEF readCuratedStateV1_1, readCuratedState
<1> HIDE DEF after, next
<1>5. /\ plan.next = after /\ plan.bundle = NoBundle /\ plan.guards = MemoryFiles
      /\ plan.saw = Restricted(MemoryFiles)
  BY DEF NoPlan
<1> HIDE DEF plan
<1>6. ASSUME next # NoLedger PROVE KeepsNotes(plan)
  <2>1. plan.saw["gotchas"] = files["gotchas"]
    BY <1>2, <1>5 DEF Restricted
  <2> QED BY <1>2, <1>4, <1>5, <1>6, <2>1 DEF KeepsNotes
<1> QED BY <1>1, <1>2, <1>5, <1>6, NoPlanSound DEF SoundPlan

\* A completed bundle of the files a plan reads, checks and writes.
LEMMA CompletedSound ==
    ASSUME NEW plan, NEW names, names \subseteq Files, NEW id, NEW after, DOMAIN after = names, NEW before,
           before = Restricted(names), id[1] # "brain",
           plan.saw = Restricted(names), plan.next = after, plan.guards = names,
           plan.bundle = Bundle(id, before, after),
           "gotchas" \in names => after["gotchas"] \notin HandNotes
    PROVE  SoundPlan(plan)
<1> DEFINE bundle == Bundle(id, before, after)
<1>1. /\ DOMAIN bundle = DOMAIN NoBundle /\ bundle.id = id /\ bundle.status = "completed"
      /\ bundle.before = before /\ bundle.after = after
  BY DEF Bundle, NoBundle
<1>2. DOMAIN before = names
  BY DEF Restricted
<1> HIDE DEF bundle
<1>3. plan.bundle = bundle
  BY DEF bundle
<1>4. SoundBundle(plan.bundle)
  BY <1>1, <1>2, <1>3 DEF SoundBundle
<1>5. Found(plan.bundle) = plan.saw /\ Left(plan.bundle) = plan.next
  BY <1>1, <1>3 DEF Found, Left
<1>6. DOMAIN plan.bundle.before = names
  BY <1>1, <1>2, <1>3
<1>7. Documented(plan)
  BY <1>5, <1>6 DEF Documented
<1>8. plan.bundle # NoBundle
  BY <1>1, <1>3 DEF NoBundle
<1>9. KeepsNotes(plan)
  BY <1>1, <1>3, <1>6, <1>8 DEF KeepsNotes
<1> QED BY <1>4, <1>7, <1>9 DEF SoundPlan

LEMMA MigrateMemorySound == ASSUME NEW request PROVE SoundPlan(migrateMemory(request))
<1>1. SoundPlan(legacyMigration(request))
  <2> DEFINE next == reduceLegacyMemoryMigration(files["gotchas"], request.title)
             after == [ledger |-> next, gotchas |-> renderCuratedMemory(next)]
             before == Restricted(MemoryFiles)
             id == <<"memory", files["gotchas"], request.time>>
             plan == [NoPlan EXCEPT !.request = request, !.saw = Restricted(MemoryFiles),
                                    !.next = after, !.guards = MemoryFiles,
                                    !.bundle = Bundle(id, before, after)]
  <2>1. legacyMigration(request) \in {NoPlan, plan}
    BY DEF legacyMigration
  <2>2. /\ DOMAIN after = MemoryFiles /\ MemoryFiles \subseteq Files /\ id[1] # "brain"
        /\ after["gotchas"] \notin HandNotes
    BY NotHandNotes DEF MemoryFiles, Files
  <2> HIDE DEF after, id
  <2>3. /\ plan.saw = Restricted(MemoryFiles) /\ plan.next = after
        /\ plan.guards = MemoryFiles /\ plan.bundle = Bundle(id, before, after)
    BY DEF NoPlan
  <2> HIDE DEF plan
  <2>4. SoundPlan(plan)
    BY <2>2, <2>3, CompletedSound
  <2> QED BY <2>1, <2>4, NoPlanSound
<1>2. SoundPlan(curatedMemoryUpgrade(request))
  <2> DEFINE after == [ledger |-> upgradeCuratedMemoryV1(Ledgers)]
             before == Restricted({"ledger"})
             id == <<"memory-state", Ledgers, request.time>>
             plan == [NoPlan EXCEPT !.request = request, !.saw = Restricted({"ledger"}),
                                    !.next = after, !.guards = {"ledger"},
                                    !.bundle = Bundle(id, before, after)]
  <2>1. curatedMemoryUpgrade(request) \in {NoPlan, plan}
    BY DEF curatedMemoryUpgrade
  <2>2. DOMAIN after = {"ledger"} /\ {"ledger"} \subseteq Files /\ id[1] # "brain"
    BY DEF Files, MemoryFiles
  <2> HIDE DEF after, id
  <2>3. /\ plan.saw = Restricted({"ledger"}) /\ plan.next = after
        /\ plan.guards = {"ledger"} /\ plan.bundle = Bundle(id, before, after)
    BY DEF NoPlan
  <2> HIDE DEF plan
  <2>4. SoundPlan(plan)
    BY <2>2, <2>3, CompletedSound
  <2> QED BY <2>1, <2>4, NoPlanSound
<1> QED BY <1>1, <1>2 DEF migrateMemory

LEMMA MigrateConfigSound == ASSUME NEW request PROVE SoundPlan(migrateConfig(request))
<1> DEFINE after == [config |-> upgradeProjectConfiguration(files["config"])]
           before == Restricted({"config"})
           id == <<"config", files["config"], nextConfigAttempt(files["config"])>>
           plan == [NoPlan EXCEPT !.request = request, !.saw = Restricted({"config"}),
                                  !.next = after, !.guards = {"config"},
                                  !.bundle = Bundle(id, before, after)]
<1>1. migrateConfig(request) \in {NoPlan, plan}
  BY DEF migrateConfig
<1>2. DOMAIN after = {"config"} /\ {"config"} \subseteq Files /\ id[1] # "brain"
  BY DEF Files
<1> HIDE DEF after, id
<1>3. /\ plan.saw = Restricted({"config"}) /\ plan.next = after
      /\ plan.guards = {"config"} /\ plan.bundle = Bundle(id, before, after)
  BY DEF NoPlan
<1> HIDE DEF plan
<1>4. SoundPlan(plan)
  BY <1>2, <1>3, CompletedSound
<1> QED BY <1>1, <1>4, NoPlanSound

\* A copy of the legacy Brain records its bundle and checks nothing.
LEMMA BrainSound == ASSUME NEW request PROVE SoundPlan(planBrainMigration(request))
<1> DEFINE copies == {f \in BrainFiles : files[f] = "missing"}
           after == [f \in copies |-> "legacy"]
           bundle == Bundle(<<"brain", request.time>>, Restricted(copies), after)
           plan == [NoPlan EXCEPT !.request = request, !.saw = Restricted(copies),
                                  !.next = after, !.bundle = bundle]
<1>1. planBrainMigration(request) \in {NoPlan, plan}
  BY DEF planBrainMigration
<1>2. plan.bundle = bundle /\ plan.next = after
  BY DEF NoPlan
<1>3. /\ DOMAIN bundle = DOMAIN NoBundle /\ bundle.id[1] = "brain"
      /\ DOMAIN bundle.before = copies /\ DOMAIN bundle.after = copies
      /\ DOMAIN after = copies /\ copies \subseteq Files
      /\ bundle.after = after
  BY DEF Bundle, NoBundle, Restricted, Files
<1>4. "gotchas" \notin copies
  BY NotesAssumption
<1> HIDE DEF bundle, plan, after, copies
<1>5. KeepsNotes(plan)
  BY <1>2, <1>3, <1>4 DEF KeepsNotes
<1>6. SoundBundle(bundle)
  BY <1>3, <1>4 DEF SoundBundle
<1>7. SoundPlan(plan)
  BY <1>2, <1>3, <1>5, <1>6 DEF SoundPlan, Documented
<1> QED BY <1>1, <1>7, NoPlanSound

LEMMA RollbackSound ==
    ASSUME NEW bundle, SoundBundle(bundle)
    PROVE  SoundPlan(observeRollback(bundle))
<1> DEFINE names == DOMAIN bundle.after
           undone == [bundle EXCEPT !.status = "rolled-back"]
           guards == IF bundle.id[1] = "brain" THEN {} ELSE names
           plan == [NoPlan EXCEPT !.request = [op |-> "rollback", bundle |-> bundle],
                                  !.saw = Restricted(names), !.next = bundle.before,
                                  !.guards = guards, !.bundle = undone]
<1>1. \/ observeRollback(bundle) = NoPlan
      \/ observeRollback(bundle) = plan /\ AsMigrated(bundle)
  BY DEF observeRollback
<1>2. /\ DOMAIN undone = DOMAIN NoBundle /\ undone.status = "rolled-back"
      /\ undone.id = bundle.id /\ undone.before = bundle.before /\ undone.after = bundle.after
  BY DEF SoundBundle, NoBundle
<1> HIDE DEF undone, guards
<1>3. /\ plan.saw = Restricted(names) /\ plan.next = bundle.before
      /\ plan.guards = guards /\ plan.bundle = undone
  BY DEF NoPlan
<1> HIDE DEF plan
<1>4. ASSUME AsMigrated(bundle) PROVE SoundPlan(plan)
  <2>1. SoundBundle(plan.bundle) /\ DOMAIN plan.bundle.before = names
    BY <1>2, <1>3 DEF SoundBundle
  <2>2. Found(plan.bundle) = bundle.after /\ Left(plan.bundle) = bundle.before
    BY <1>2, <1>3 DEF Found, Left
  <2>3. \A f \in names : plan.saw[f] = bundle.after[f]
    BY <1>3, <1>4 DEF AsMigrated, Restricted
  <2>4. plan.bundle.id[1] # "brain" => plan.guards = names
    BY <1>2, <1>3 DEF guards
  <2>5. DOMAIN plan.next = names /\ names \subseteq Files
    BY <1>3 DEF SoundBundle
  <2>6. "gotchas" \in names => bundle.id[1] # "brain" /\ bundle.after["gotchas"] \notin HandNotes
    BY DEF SoundBundle
  <2>7. plan.bundle.id = bundle.id
    BY <1>2, <1>3
  <2> HIDE DEF names
  <2>8. Documented(plan)
    BY <1>3, <2>1, <2>2, <2>3, <2>4, <2>5 DEF Documented
  <2>9. KeepsNotes(plan)
    BY <2>3, <2>4, <2>5, <2>6, <2>7 DEF KeepsNotes
  <2> QED BY <2>1, <2>5, <2>8, <2>9 DEF SoundPlan
<1> QED BY <1>1, <1>4, NoPlanSound

LEMMA PlannedSound == ASSUME NEW request PROVE SoundPlan(planned(request))
<1> HIDE DEF SoundPlan
<1>1. /\ SoundPlan(migrateMemory(request)) /\ SoundPlan(migrateConfig(request))
      /\ SoundPlan(planBrainMigration(request)) /\ SoundPlan(memoryChange(request))
  BY MigrateMemorySound, MigrateConfigSound, BrainSound, MemoryChangeSound
<1> QED BY <1>1 DEF planned

-----------------------------------------------------------------------------
(* Reviewed is inductive.                                                  *)

\* No bundle and no process is touched but p, which stays sound.
LEMMA ProcessMoves ==
    ASSUME Reviewed, bundles' = bundles, NEW p \in Procs, NEW state, SoundProcess(state),
           proc' = [proc EXCEPT ![p] = state]
    PROVE  Reviewed'
BY DEF Reviewed

LEMMA IdleSound == SoundProcess(Idle)
BY DEF SoundProcess, Idle

LEMMA PreviewReviewed ==
    ASSUME Reviewed, NEW p \in Procs, NEW request, preview(p, request)
    PROVE  Reviewed'
<1> DEFINE state == [proc[p] EXCEPT !.stage = "reviewed", !.reviewed = planned(request)]
<1>1. DOMAIN state = DOMAIN Idle /\ state.stage = "reviewed"
  BY DEF Reviewed, SoundProcess, Idle
<1>2. SoundProcess(state)
  BY <1>1 DEF SoundProcess
<1>3. proc' = [proc EXCEPT ![p] = state] /\ bundles' = bundles
  BY DEF preview, Reviewed, disk
<1> QED BY <1>2, <1>3, ProcessMoves

LEMMA ApplyReviewed ==
    ASSUME Reviewed, NEW p \in Procs, apply(p)
    PROVE  Reviewed'
<1> DEFINE now == planned(proc[p].reviewed.request)
           state == [proc[p] EXCEPT !.stage = "applying", !.plan = now]
<1>1. /\ DOMAIN state = DOMAIN Idle /\ state.plan = now /\ state.reviewed = proc[p].reviewed
  BY DEF Reviewed, SoundProcess, Idle
<1>2. now = proc[p].reviewed
  BY DEF apply, SameDigest
<1>3. SoundPlan(now)
  BY PlannedSound
<1>4. proc' = [proc EXCEPT ![p] = state] /\ bundles' = bundles
  BY DEF apply, Reviewed, disk
<1> HIDE DEF state, now
<1>5. SoundProcess(state)
  BY <1>1, <1>2, <1>3 DEF SoundProcess
<1> QED BY <1>4, <1>5, ProcessMoves

LEMMA DirectReviewed ==
    ASSUME Reviewed, NEW p \in Procs, NEW plan, SoundPlan(plan), direct(p, plan)
    PROVE  Reviewed'
<1> DEFINE state == [proc[p] EXCEPT !.stage = "applying", !.plan = plan, !.reviewed = plan]
<1>1. DOMAIN state = DOMAIN Idle /\ state.plan = plan /\ state.reviewed = plan
  BY DEF Reviewed, SoundProcess, Idle
<1>2. proc' = [proc EXCEPT ![p] = state] /\ bundles' = bundles
  BY DEF direct, Reviewed, disk
<1> HIDE DEF state
<1>3. SoundProcess(state)
  BY <1>1 DEF SoundProcess
<1> QED BY <1>2, <1>3, ProcessMoves

LEMMA CaptureReviewed ==
    ASSUME Reviewed, NEW p \in Procs, NEW c, captureCandidate(p, c)
    PROVE  Reviewed'
<1> DEFINE plan == [NoPlan EXCEPT !.request = [op |-> "capture", from |-> {c}, time |-> spare],
                                  !.asserts = [k \in {c} |-> inbox[k]]]
<1>1. plan.bundle = NoBundle /\ plan.next = <<>> /\ direct(p, plan)
  BY DEF captureCandidate, NoPlan
<1>2. DOMAIN plan.next = {}
  BY <1>1
<1> HIDE DEF plan
<1>3. SoundPlan(plan)
  BY <1>1, <1>2 DEF SoundPlan, KeepsNotes
<1> QED BY <1>1, <1>3, DirectReviewed

LEMMA CommitReviewed ==
    ASSUME Reviewed, NEW p \in Procs, commit(p)
    PROVE  Reviewed'
<1> DEFINE plan == proc[p].plan
           consumed == IF plan.request.op = "capture" THEN {} ELSE DOMAIN plan.asserts
           cleaning == [proc[p] EXCEPT !.stage = "cleaning", !.cleaning = consumed,
                                       !.reviewed = NoPlan]
           state == IF consumed = {} THEN Idle ELSE cleaning
<1>1. proc[p].stage = "applying" /\ SoundPlan(plan)
  BY DEF commit, Reviewed, SoundProcess
<1>2. \A bundle \in bundles' : SoundBundle(bundle)
  BY <1>1 DEF commit, Reviewed, SoundPlan
<1>3. DOMAIN cleaning = DOMAIN Idle /\ cleaning.stage = "cleaning"
  BY DEF Reviewed, SoundProcess, Idle
<1> HIDE DEF consumed, cleaning
<1>4. SoundProcess(state)
  BY <1>3, IdleSound DEF SoundProcess
<1>5. proc' = [proc EXCEPT ![p] = state]
  BY DEF commit, consumed, cleaning
<1> HIDE DEF state
<1> QED BY <1>2, <1>4, <1>5 DEF Reviewed

LEMMA CleanupReviewed ==
    ASSUME Reviewed, NEW p \in Procs, NEW c, cleanupCandidates(p, c)
    PROVE  Reviewed'
<1> DEFINE cleaned == [proc[p] EXCEPT !.cleaning = @ \ {c}]
<1>1. /\ DOMAIN cleaned = DOMAIN Idle /\ cleaned.stage = proc[p].stage
      /\ cleaned.plan = proc[p].plan /\ cleaned.reviewed = proc[p].reviewed
  BY DEF Reviewed, SoundProcess, Idle
<1>2. Cleaned(p, c) \in {Idle, cleaned}
  BY DEF Cleaned
<1> HIDE DEF cleaned
<1>3. SoundProcess(Cleaned(p, c))
  BY <1>1, <1>2, IdleSound DEF Reviewed, SoundProcess
<1>4. proc' = [proc EXCEPT ![p] = Cleaned(p, c)] /\ bundles' = bundles
  BY DEF cleanupCandidates
<1> HIDE DEF Cleaned
<1> QED BY <1>3, <1>4, ProcessMoves

LEMMA EndReviewed ==
    ASSUME Reviewed, NEW p \in Procs, dismiss(p) \/ refuse(p) \/ abandon(p)
    PROVE  Reviewed'
<1>1. proc' = [proc EXCEPT ![p] = Idle] /\ bundles' = bundles
  BY DEF dismiss, refuse, abandon, disk
<1> HIDE DEF Idle
<1> QED BY <1>1, IdleSound, ProcessMoves

LEMMA NextReviewed == Reviewed /\ [Next]_vars => Reviewed'
<1> SUFFICES ASSUME Reviewed, [Next]_vars PROVE Reviewed'
  OBVIOUS
<1>1. CASE UNCHANGED <<bundles, proc>>
  BY <1>1 DEF Reviewed
<1>2. ASSUME NEW p \in Procs, migrateBrain(p) \/ rollback(p) PROVE Reviewed'
  <2>1. CASE migrateBrain(p)
    BY <2>1, BrainSound, DirectReviewed DEF migrateBrain
  <2>2. CASE rollback(p)
    <3>1. PICK bundle \in bundles : direct(p, observeRollback(bundle))
      BY <2>2 DEF rollback
    <3>2. SoundPlan(observeRollback(bundle))
      BY RollbackSound DEF Reviewed
    <3> QED BY <3>1, <3>2, DirectReviewed
  <2> QED BY <1>2, <2>1, <2>2
<1>3. CASE editGotchas \/ editConfig \/ editBrain
  <2>1. UNCHANGED <<bundles, proc>>
    BY <1>3 DEF editGotchas, editConfig, editBrain, edit
  <2> QED BY <1>1, <2>1
<1>4. CASE UNCHANGED vars
  BY <1>1, <1>4 DEF vars
<1> QED BY <1>2, <1>3, <1>4, PreviewReviewed, ApplyReviewed, CaptureReviewed, CommitReviewed,
           CleanupReviewed, EndReviewed DEF Next

LEMMA InitReviewed == Init => Reviewed
<1> SUFFICES ASSUME Init PROVE Reviewed
  OBVIOUS
<1>1. DOMAIN proc = Procs /\ \A p \in Procs : SoundProcess(proc[p])
  BY IdleSound DEF Init
<1>2. ASSUME NEW start PROVE \A bundle \in StartBundles(start) : SoundBundle(bundle)
  <2> HIDE DEF StockMigrated, StockUpgraded, StockGotchas, NoLedger, renderCuratedMemory
  <2> DEFINE after == [ledger |-> StockMigrated, gotchas |-> renderCuratedMemory(StockMigrated)]
             first == Bundle(<<"memory", StockGotchas, MaxSpare + 2>>,
                             [ledger |-> NoLedger, gotchas |-> StockGotchas], after)
             second == Bundle(<<"memory-state", StockMigrated, MaxSpare + 1>>,
                              [ledger |-> StockMigrated], [ledger |-> StockUpgraded])
  <2>1. after["gotchas"] \notin HandNotes
    BY NotHandNotes
  <2>2. SoundBundle(first)
    BY <2>1 DEF Bundle, SoundBundle, NoBundle, Files, MemoryFiles
  <2>3. SoundBundle(second)
    BY DEF Bundle, SoundBundle, NoBundle, Files, MemoryFiles
  <2>4. StartBundles(start) \subseteq {first, second}
    BY DEF StartBundles
  <2> HIDE DEF first, second
  <2> QED BY <2>2, <2>3, <2>4
<1>3. \A bundle \in bundles : SoundBundle(bundle)
  BY <1>2 DEF Init
<1> QED BY <1>1, <1>3 DEF Reviewed

-----------------------------------------------------------------------------
(* What follows from it.                                                   *)

\* Only a commit changes the bundles, or files and a process.
LEMMA OnlyCommits ==
    ASSUME [Next]_vars, bundles' # bundles \/ (proc' # proc /\ files' # files)
    PROVE  \E p \in Procs : commit(p)
<1>1. ~UNCHANGED vars
  BY DEF vars
<1>2. \A p \in Procs : /\ \A request : ~preview(p, request)
                       /\ ~apply(p) /\ ~dismiss(p) /\ ~refuse(p) /\ ~abandon(p)
                       /\ \A c : ~cleanupCandidates(p, c)
                       /\ \A plan : ~direct(p, plan)
  BY DEF preview, apply, dismiss, refuse, abandon, cleanupCandidates, direct, disk
<1>3. \A p \in Procs : /\ ~migrateBrain(p) /\ ~rollback(p)
                       /\ \A c : ~captureCandidate(p, c)
  BY <1>2 DEF migrateBrain, rollback, captureCandidate
<1>4. ~editGotchas /\ ~editConfig /\ ~editBrain
  BY DEF editGotchas, editConfig, editBrain, edit
<1> QED BY <1>1, <1>2, <1>3, <1>4 DEF Next

\* A commit checks what it guards and writes what it plans.
LEMMA CommitWrites ==
    ASSUME Reviewed, NEW p \in Procs, commit(p)
    PROVE  /\ \A f \in proc[p].plan.guards : files[f] = proc[p].plan.saw[f]
           /\ \A f \in DOMAIN proc[p].plan.next : files'[f] = proc[p].plan.next[f]
<1> DEFINE plan == proc[p].plan
<1>1. PreconditionsHold(plan) /\ DOMAIN plan.next \subseteq Files
  BY DEF commit, Reviewed, SoundProcess, SoundPlan
<1>2. files' = [f \in Files |-> IF f \in DOMAIN plan.next THEN plan.next[f] ELSE files[f]]
  BY DEF commit
<1> HIDE DEF plan
<1>3. \A f \in plan.guards : files[f] = plan.saw[f]
  BY <1>1 DEF PreconditionsHold
<1>4. \A f \in DOMAIN plan.next : files'[f] = plan.next[f]
  BY <1>1, <1>2
<1> QED BY <1>3, <1>4 DEF plan

\* What a command commits is what was shown under the digest the user confirmed,
\* to files that are still as they were shown (memory and migrate with --yes,
\* composition/migration.ts and domain/cli/memory.ts).
THEOREM CommitsAsReviewed == Spec => AppliedAsReviewed
<1> DEFINE A == \A p \in Procs :
                   /\ proc[p].stage = "applying"
                   /\ proc'[p] # proc[p]
                   /\ files' # files
                   => /\ \A f \in DOMAIN proc[p].reviewed.next :
                            files'[f] = proc[p].reviewed.next[f]
                      /\ \A f \in proc[p].reviewed.guards : files[f] = proc[p].reviewed.saw[f]
<1>1. Reviewed /\ [Next]_vars => A
  <2> SUFFICES ASSUME Reviewed, [Next]_vars, NEW p \in Procs,
                      proc[p].stage = "applying", proc'[p] # proc[p], files' # files
               PROVE  /\ \A f \in DOMAIN proc[p].reviewed.next :
                            files'[f] = proc[p].reviewed.next[f]
                      /\ \A f \in proc[p].reviewed.guards : files[f] = proc[p].reviewed.saw[f]
    OBVIOUS
  <2>1. PICK q \in Procs : commit(q)
    BY OnlyCommits
  <2>2. \A r \in Procs : r # q => proc'[r] = proc[r]
    BY <2>1 DEF commit, Reviewed
  <2>3. q = p
    BY <2>2
  <2>4. proc[p].plan = proc[p].reviewed
    BY DEF Reviewed, SoundProcess
  <2> QED BY <2>1, <2>3, <2>4, CommitWrites
<1>2. A => [A]_vars
  OBVIOUS
<1> QED BY <1>1, InitReviewed, NextReviewed, PTL DEF Spec, AppliedAsReviewed

\* The bundle of a migration backs up what the migration replaced and names what
\* it left, and a rollback finds exactly that and restores the backup, whatever
\* commands, edits and other migrations come between (the copy of the legacy
\* Brain aside).
THEOREM RollbacksRestore == Spec => MigrationsReverse
<1> DEFINE A == \A b \in bundles' \ bundles : b.id[1] # "brain" =>
                   LET found == IF b.status = "completed" THEN b.before ELSE b.after
                       left == IF b.status = "completed" THEN b.after ELSE b.before
                   IN  \A f \in DOMAIN b.before : files[f] = found[f] /\ files'[f] = left[f]
<1>1. Reviewed /\ [Next]_vars => A
  <2> SUFFICES ASSUME Reviewed, [Next]_vars, NEW b \in bundles' \ bundles,
                      b.id[1] # "brain", NEW f \in DOMAIN b.before
               PROVE  files[f] = Found(b)[f] /\ files'[f] = Left(b)[f]
    BY DEF Found, Left
  <2>1. PICK p \in Procs : commit(p)
    BY OnlyCommits
  <2>2. b = proc[p].plan.bundle /\ b # NoBundle
    BY <2>1 DEF commit
  <2>3. SoundPlan(proc[p].plan)
    BY <2>1 DEF commit, Reviewed, SoundProcess
  <2>4. /\ f \in proc[p].plan.guards /\ proc[p].plan.saw[f] = Found(b)[f]
        /\ f \in DOMAIN proc[p].plan.next /\ proc[p].plan.next[f] = Left(b)[f]
    BY <2>2, <2>3 DEF SoundPlan, Documented
  <2> QED BY <2>1, <2>4, CommitWrites
<1> QED BY <1>1, InitReviewed, NextReviewed, PTL DEF Spec, MigrationsReverse

\* A command replaces the notes a person wrote into gotchas.md only in the commit
\* that backs up those very notes in its bundle.
THEOREM HandNotesKept == Spec => HandWorkKept
<1> DEFINE A == /\ files["gotchas"] \in HandNotes
                /\ files'["gotchas"] # files["gotchas"]
                /\ proc' # proc
                => \E b \in bundles' : "gotchas" \in DOMAIN b.before
                                        /\ b.before["gotchas"] = files["gotchas"]
<1>1. Reviewed /\ [Next]_vars => A
  <2> SUFFICES ASSUME Reviewed, [Next]_vars, files["gotchas"] \in HandNotes,
                      files'["gotchas"] # files["gotchas"], proc' # proc
               PROVE  \E b \in bundles' : "gotchas" \in DOMAIN b.before
                                           /\ b.before["gotchas"] = files["gotchas"]
    OBVIOUS
  <2>1. PICK p \in Procs : commit(p)
    BY OnlyCommits
  <2> DEFINE plan == proc[p].plan
  <2>2. SoundPlan(plan)
    BY <2>1 DEF commit, Reviewed, SoundProcess
  <2>3. "gotchas" \in DOMAIN plan.next
    BY <2>1 DEF commit, Files, MemoryFiles
  <2>4. plan.saw["gotchas"] = files["gotchas"]
    BY <2>1, <2>2, <2>3, CommitWrites DEF SoundPlan, KeepsNotes
  <2>5. /\ plan.bundle # NoBundle /\ "gotchas" \in DOMAIN plan.bundle.before
        /\ plan.bundle.before["gotchas"] = files["gotchas"]
    BY <2>2, <2>3, <2>4 DEF SoundPlan, KeepsNotes
  <2>6. plan.bundle \in bundles'
    BY <2>1, <2>5 DEF commit
  <2> QED BY <2>5, <2>6
<1> QED BY <1>1, InitReviewed, NextReviewed, PTL DEF Spec, HandWorkKept

-----------------------------------------------------------------------------
(* The attempts to migrate one configuration are numbered one after the    *)
(* other, whoever migrates and rolls back at the same time.                *)

\* The lineage of a source among the bundles B, and the numbers in it.
Of(B, source) == {b \in B : b.id[1] = "config" /\ b.id[2] = source}
Numbers(B, source) == {a.id[3] : a \in Of(B, source)}

\* A configuration bundle is known by its source and its attempt.
IsAttempt(id) == id[1] = "config" => id = <<"config", id[2], id[3]>>

\* Bundles that are numbered without gaps, of which only the last may stand.
Ranked(B) ==
    /\ IsFiniteSet(B)
    /\ \A a, b \in B : a.id = b.id => a = b
    /\ \A b \in B : b.status \in Statuses /\ IsAttempt(b.id)
    /\ \A source : Numbers(B, source) = 1 .. Cardinality(Of(B, source))
    /\ \A b \in B : b.id[1] = "config" /\ b.status = "completed" =>
          b.id[3] = Cardinality(Of(B, b.id[2]))

\* A bundle that follows those in B: every earlier attempt was rolled back, or
\* the bundle is the rollback of one of them.
Joins(x, B) ==
    /\ x.status \in Statuses /\ IsAttempt(x.id)
    /\ x.id[1] = "config" /\ x.status = "completed" =>
          /\ x.id[3] \in Nat \ {0}
          /\ \A j \in 1 .. x.id[3] - 1 :
                \E a \in Of(B, x.id[2]) : a.id[3] = j /\ a.status = "rolled-back"
    /\ x.id[1] = "config" /\ x.status = "rolled-back" => \E a \in B : a.id = x.id

\* What the preconditions of a commit say of the bundle it adds.
Agrees(x, B) ==
    \A b \in B : b.id = x.id =>
        x.status = "rolled-back" /\ (b.status = "completed" \/ b.id[1] = "brain")

Added(x, B) == {b \in B : b.id # x.id} \cup {x}

\* An attempt that was rolled back stays: what follows the bundles still does.
LEMMA AddedJoins ==
    ASSUME NEW B, NEW x, NEW y, Joins(y, B), Agrees(x, B)
    PROVE  Joins(y, Added(x, B))
<1>1. ASSUME NEW a \in B, a.id[1] = "config", a.status = "rolled-back" PROVE a \in Added(x, B)
  BY <1>1 DEF Agrees, Added
<1>2. ASSUME NEW a \in B PROVE \E b \in Added(x, B) : b.id = a.id
  BY DEF Added
<1>3. \A source : \A a \in Of(B, source) : a.status = "rolled-back" => a \in Of(Added(x, B), source)
  BY <1>1 DEF Of
<1> QED BY <1>2, <1>3 DEF Joins

\* Another source has the lineage it had.
LEMMA OtherLineage ==
    ASSUME NEW B, NEW x, NEW source, ~(x.id[1] = "config" /\ x.id[2] = source)
    PROVE  Of(Added(x, B), source) = Of(B, source)
BY DEF Of, Added

\* The next attempt takes the next number, and leaves nothing standing before it.
LEMMA NextAttempt ==
    ASSUME NEW B, NEW x, Ranked(B), Joins(x, B), Agrees(x, B),
           x.id[1] = "config", x.status = "completed"
    PROVE  LET source == x.id[2]  n == Cardinality(Of(B, source))
           IN  /\ n \in Nat /\ x.id[3] = n + 1
               /\ Cardinality(Of(Added(x, B), source)) = n + 1
               /\ Numbers(Added(x, B), source) = 1 .. n + 1
               /\ \A b \in Of(B, source) : b.status # "completed"
<1> DEFINE source == x.id[2]
           old == Of(B, source)
           n == Cardinality(old)
<1>1. \A b \in B : b.id # x.id
  BY DEF Agrees, Statuses
<1>2. Of(Added(x, B), source) = old \cup {x} /\ x \notin old
  BY <1>1 DEF Of, Added
<1>3. IsFiniteSet(old) /\ old \subseteq B
  BY FS_Subset DEF Ranked, Of
<1>4. n \in Nat
  BY <1>3, FS_CardinalityType
<1>5. Cardinality(old \cup {x}) = n + 1
  BY <1>2, <1>3, FS_AddElement
<1>6. Numbers(B, source) = 1 .. n
  BY DEF Ranked
<1>7. x.id[3] \notin 1 .. n
  <2> SUFFICES ASSUME x.id[3] \in 1 .. n PROVE FALSE
    OBVIOUS
  <2>1. PICK a \in old : a.id[3] = x.id[3]
    BY <1>6 DEF Numbers
  <2>2. a.id = <<"config", source, a.id[3]>> /\ x.id = <<"config", source, x.id[3]>> /\ a \in B
    BY <1>3 DEF Ranked, Joins, IsAttempt, Of
  <2> QED BY <1>1, <2>1, <2>2
<1>8. x.id[3] \in Nat \ {0} /\ 1 .. x.id[3] - 1 \subseteq 1 .. n
  BY <1>6 DEF Joins, Numbers
<1>9. x.id[3] = n + 1
  <2> DEFINE k == x.id[3]
  <2>1. k \in Nat \ {0} /\ k \notin 1 .. n /\ (k > 1 => k - 1 \in 1 .. n)
    BY <1>7, <1>8
  <2> HIDE DEF k, n
  <2>2. k = n + 1
    BY <1>4, <2>1
  <2> QED BY <2>2 DEF k
<1>10. Numbers(Added(x, B), source) = Numbers(B, source) \cup {x.id[3]}
  BY <1>2 DEF Numbers
<1>11. Numbers(Added(x, B), source) = 1 .. n + 1
  <2> HIDE DEF n
  <2> QED BY <1>4, <1>6, <1>9, <1>10
<1>12. ASSUME NEW b \in old, b.status = "completed" PROVE FALSE
  <2>1. b \in B /\ b.id[3] = n /\ b.id = <<"config", source, b.id[3]>>
    BY <1>3, <1>12 DEF Ranked, Of, IsAttempt
  <2>2. b.id[3] \in 1 .. n
    BY <1>6 DEF Numbers
  <2>3. n \in 1 .. x.id[3] - 1
    <3> HIDE DEF n
    <3> QED BY <1>4, <1>9, <2>1, <2>2
  <2>4. PICK a \in old : a.id[3] = n /\ a.status = "rolled-back"
    BY <2>3 DEF Joins
  <2>5. a \in B /\ a.id = <<"config", source, a.id[3]>>
    BY <1>3 DEF Ranked, Of, IsAttempt
  <2>6. a.id = b.id
    BY <2>1, <2>4, <2>5
  <2> QED BY <1>12, <2>1, <2>4, <2>5, <2>6 DEF Ranked
<1> QED BY <1>2, <1>4, <1>5, <1>9, <1>11, <1>12

\* A rollback takes the place of the attempt it undoes.
LEMMA UndoneAttempt ==
    ASSUME NEW B, NEW x, Ranked(B), Joins(x, B), x.id[1] = "config", x.status = "rolled-back"
    PROVE  /\ Cardinality(Of(Added(x, B), x.id[2])) = Cardinality(Of(B, x.id[2]))
           /\ Numbers(Added(x, B), x.id[2]) = Numbers(B, x.id[2])
<1> DEFINE source == x.id[2]
           old == Of(B, source)
<1>1. PICK a \in B : a.id = x.id
  BY DEF Joins
<1>2. \A b \in B : b.id = x.id => b = a
  BY <1>1 DEF Ranked
<1>3. a \in old
  BY <1>1 DEF Of
<1>4. Of(Added(x, B), source) = (old \ {a}) \cup {x}
  BY <1>1, <1>2 DEF Of, Added
<1>5. x \notin old \ {a}
  BY <1>2 DEF Of
<1>6. IsFiniteSet(old)
  BY FS_Subset DEF Ranked, Of
<1>7. IsFiniteSet(old \ {a}) /\ Cardinality(old \ {a}) = Cardinality(old) - 1
  BY <1>3, <1>6, FS_RemoveElement
<1>8. Cardinality((old \ {a}) \cup {x}) = Cardinality(old \ {a}) + 1
  BY <1>5, <1>7, FS_AddElement
<1>9. Cardinality(old) \in Nat
  BY <1>6, FS_CardinalityType
<1>10. Numbers(Added(x, B), source) = Numbers(B, source)
  BY <1>1, <1>3, <1>4 DEF Numbers
<1> HIDE DEF old
<1>11. Cardinality((old \ {a}) \cup {x}) = Cardinality(old)
  BY <1>7, <1>8, <1>9
<1> QED BY <1>4, <1>10, <1>11 DEF old

LEMMA AddedRanked ==
    ASSUME NEW B, NEW x, Ranked(B), Joins(x, B), Agrees(x, B)
    PROVE  Ranked(Added(x, B))
<1>1. IsFiniteSet(Added(x, B))
  <2>1. IsFiniteSet({b \in B : b.id # x.id})
    BY FS_Subset DEF Ranked
  <2> QED BY <2>1, FS_AddElement DEF Added
<1>2. \A a, b \in Added(x, B) : a.id = b.id => a = b
  BY DEF Ranked, Added
<1>3. \A b \in Added(x, B) : b.status \in Statuses /\ IsAttempt(b.id)
  BY DEF Ranked, Joins, Added
<1>4. ASSUME NEW source PROVE Numbers(Added(x, B), source) = 1 .. Cardinality(Of(Added(x, B), source))
  <2>1. Numbers(B, source) = 1 .. Cardinality(Of(B, source))
    BY DEF Ranked
  <2>2. CASE ~(x.id[1] = "config" /\ x.id[2] = source)
    BY <2>1, <2>2, OtherLineage DEF Numbers
  <2>3. CASE x.id[1] = "config" /\ x.id[2] = source /\ x.status = "completed"
    BY <2>3, NextAttempt
  <2>4. CASE x.id[1] = "config" /\ x.id[2] = source /\ x.status = "rolled-back"
    BY <2>1, <2>4, UndoneAttempt
  <2> QED BY <2>2, <2>3, <2>4 DEF Joins, Statuses
<1>5. ASSUME NEW b \in Added(x, B), b.id[1] = "config", b.status = "completed"
      PROVE  b.id[3] = Cardinality(Of(Added(x, B), b.id[2]))
  <2>1. CASE b = x
    BY <1>5, <2>1, NextAttempt
  <2>2. CASE b \in B
    <3>1. b.id[3] = Cardinality(Of(B, b.id[2])) /\ b \in Of(B, b.id[2])
      BY <1>5, <2>2 DEF Ranked, Of
    <3>2. CASE ~(x.id[1] = "config" /\ x.id[2] = b.id[2])
      BY <3>1, <3>2, OtherLineage
    <3>3. CASE x.id[1] = "config" /\ x.id[2] = b.id[2] /\ x.status = "completed"
      BY <1>5, <3>1, <3>3, NextAttempt
    <3>4. CASE x.id[1] = "config" /\ x.id[2] = b.id[2] /\ x.status = "rolled-back"
      BY <3>1, <3>4, UndoneAttempt
    <3> QED BY <3>2, <3>3, <3>4 DEF Joins, Statuses
  <2> QED BY <2>1, <2>2 DEF Added
<1> QED BY <1>1, <1>2, <1>3, <1>4, <1>5 DEF Ranked

\* The bundles are ranked, and what a process commits next follows them.
Numbered ==
    /\ Ranked(bundles)
    /\ \A p \in Procs :
          proc[p].stage = "applying" /\ proc[p].plan.bundle # NoBundle
             => Joins(proc[p].plan.bundle, bundles)

\* What a plan adds follows the bundles it was planned over.
Follows(plan) == plan.bundle # NoBundle => Joins(plan.bundle, bundles)

LEMMA NoPlanFollows == Follows(NoPlan)
BY DEF Follows, NoPlan

\* A bundle of memory or of the Brain is numbered by nobody.
LEMMA UnnumberedJoins ==
    ASSUME NEW B, NEW id, id[1] # "config", NEW before, NEW after
    PROVE  Joins(Bundle(id, before, after), B)
<1> DEFINE bundle == Bundle(id, before, after)
<1>1. bundle.id = id /\ bundle.status = "completed"
  BY DEF Bundle
<1> HIDE DEF bundle
<1>2. Joins(bundle, B)
  BY <1>1 DEF Joins, Statuses, IsAttempt
<1> QED BY <1>2 DEF bundle

LEMMA MigrateMemoryFollows == ASSUME NEW request PROVE Follows(migrateMemory(request))
<1> DEFINE Unnumbered(plan) ==
             plan.bundle = NoBundle
             \/ \E id, before, after : id[1] # "config" /\ plan.bundle = Bundle(id, before, after)
<1>1. Unnumbered(NoPlan)
  BY DEF NoPlan
<1>2. Unnumbered(legacyMigration(request))
  <2> DEFINE next == reduceLegacyMemoryMigration(files["gotchas"], request.title)
             after == [ledger |-> next, gotchas |-> renderCuratedMemory(next)]
             id == <<"memory", files["gotchas"], request.time>>
             plan == [NoPlan EXCEPT !.request = request, !.saw = Restricted(MemoryFiles),
                                    !.next = after, !.guards = MemoryFiles,
                                    !.bundle = Bundle(id, Restricted(MemoryFiles), after)]
  <2>1. legacyMigration(request) \in {NoPlan, plan}
    BY DEF legacyMigration
  <2>2. id[1] # "config"
    OBVIOUS
  <2> HIDE DEF after, id
  <2>3. plan.bundle = Bundle(id, Restricted(MemoryFiles), after)
    BY DEF NoPlan
  <2> HIDE DEF plan
  <2> QED BY <1>1, <2>1, <2>2, <2>3
<1>3. Unnumbered(curatedMemoryUpgrade(request))
  <2> DEFINE after == [ledger |-> upgradeCuratedMemoryV1(Ledgers)]
             id == <<"memory-state", Ledgers, request.time>>
             plan == [NoPlan EXCEPT !.request = request, !.saw = Restricted({"ledger"}),
                                    !.next = after, !.guards = {"ledger"},
                                    !.bundle = Bundle(id, Restricted({"ledger"}), after)]
  <2>1. curatedMemoryUpgrade(request) \in {NoPlan, plan}
    BY DEF curatedMemoryUpgrade
  <2>2. id[1] # "config"
    OBVIOUS
  <2> HIDE DEF after, id
  <2>3. plan.bundle = Bundle(id, Restricted({"ledger"}), after)
    BY DEF NoPlan
  <2> HIDE DEF plan
  <2> QED BY <1>1, <2>1, <2>2, <2>3
<1>4. Unnumbered(migrateMemory(request))
  BY <1>2, <1>3 DEF migrateMemory
<1> QED BY <1>4, UnnumberedJoins DEF Follows

LEMMA BrainFollows == ASSUME NEW request PROVE Follows(planBrainMigration(request))
<1> DEFINE copies == {f \in BrainFiles : files[f] = "missing"}
           after == [f \in copies |-> "legacy"]
           id == <<"brain", request.time>>
           plan == [NoPlan EXCEPT !.request = request, !.saw = Restricted(copies),
                                  !.next = after, !.bundle = Bundle(id, Restricted(copies), after)]
<1>1. planBrainMigration(request) \in {NoPlan, plan}
  BY DEF planBrainMigration
<1>2. id[1] # "config"
  OBVIOUS
<1> HIDE DEF copies, after, id
<1>3. plan.bundle = Bundle(id, Restricted(copies), after)
  BY DEF NoPlan
<1> HIDE DEF plan
<1>4. Follows(plan)
  BY <1>2, <1>3, UnnumberedJoins DEF Follows
<1> QED BY <1>1, <1>4, NoPlanFollows

LEMMA MigrateConfigFollows ==
    ASSUME Ranked(bundles), NEW request
    PROVE  Follows(migrateConfig(request))
<1> DEFINE source == files["config"]
           attempt == nextConfigAttempt(source)
           after == [config |-> upgradeProjectConfiguration(source)]
           bundle == Bundle(<<"config", source, attempt>>, Restricted({"config"}), after)
           plan == [NoPlan EXCEPT !.request = request, !.saw = Restricted({"config"}),
                                  !.next = after, !.guards = {"config"}, !.bundle = bundle]
<1>1. \/ migrateConfig(request) = NoPlan
      \/ migrateConfig(request) = plan /\ attempt # 0
  BY DEF migrateConfig
<1>2. /\ bundle.id = <<"config", source, attempt>> /\ bundle.id[1] = "config"
      /\ bundle.id[2] = source /\ bundle.id[3] = attempt /\ bundle.status = "completed"
  BY DEF Bundle
<1>3. Lineage(source) = Of(bundles, source)
  BY DEF Lineage, Of
<1> DEFINE n == Cardinality(Of(bundles, source))
<1>4. n \in Nat
  BY FS_Subset, FS_CardinalityType DEF Ranked, Of
<1>5. attempt # 0 =>
         attempt = n + 1 /\ \A a \in Of(bundles, source) : a.status = "rolled-back"
  BY <1>3 DEF nextConfigAttempt
<1>6. Numbers(bundles, source) = 1 .. n
  BY DEF Ranked
<1> HIDE DEF bundle, source, attempt, after, n
<1>7. plan.bundle = bundle
  BY DEF NoPlan
<1> HIDE DEF plan
<1>8. ASSUME attempt # 0 PROVE Joins(bundle, bundles)
  <2>1. attempt \in Nat \ {0} /\ 1 .. attempt - 1 = 1 .. n
    BY <1>4, <1>5, <1>8
  <2>2. \A j \in 1 .. n : \E a \in Of(bundles, source) : a.id[3] = j /\ a.status = "rolled-back"
    BY <1>5, <1>6, <1>8 DEF Numbers
  <2> QED BY <1>2, <2>1, <2>2 DEF Joins, Statuses, IsAttempt
<1> QED BY <1>1, <1>7, <1>8, NoPlanFollows DEF Follows

LEMMA MemoryChangeFollows == ASSUME NEW request PROVE Follows(memoryChange(request))
<1> DEFINE next == Reduced(request)
           plan == [NoPlan EXCEPT
                      !.request = request, !.saw = Restricted(MemoryFiles),
                      !.next = [ledger |-> next, gotchas |-> renderCuratedMemory(next)],
                      !.guards = MemoryFiles,
                      !.asserts = [c \in Consumed(request) |-> inbox[c]]]
<1>1. memoryChange(request) \in {NoPlan, plan}
  BY DEF memoryChange
<1>2. plan.bundle = NoBundle
  BY DEF NoPlan
<1> HIDE DEF plan
<1> QED BY <1>1, <1>2, NoPlanFollows DEF Follows

LEMMA PlannedFollows == ASSUME Ranked(bundles), NEW request PROVE Follows(planned(request))
<1> HIDE DEF Follows
<1>1. /\ Follows(migrateMemory(request)) /\ Follows(migrateConfig(request))
      /\ Follows(planBrainMigration(request)) /\ Follows(memoryChange(request))
  BY MigrateMemoryFollows, MigrateConfigFollows, BrainFollows, MemoryChangeFollows
<1> QED BY <1>1 DEF planned

LEMMA RollbackFollows ==
    ASSUME Ranked(bundles), NEW bundle \in bundles, SoundBundle(bundle)
    PROVE  Follows(observeRollback(bundle))
<1> DEFINE undone == [bundle EXCEPT !.status = "rolled-back"]
           plan == [NoPlan EXCEPT
                      !.request = [op |-> "rollback", bundle |-> bundle],
                      !.saw = Restricted(DOMAIN bundle.after), !.next = bundle.before,
                      !.guards = IF bundle.id[1] = "brain" THEN {} ELSE DOMAIN bundle.after,
                      !.bundle = undone]
<1>1. observeRollback(bundle) \in {NoPlan, plan}
  BY DEF observeRollback
<1>2. undone.id = bundle.id /\ undone.status = "rolled-back"
  BY DEF SoundBundle, NoBundle
<1> HIDE DEF undone
<1>3. plan.bundle = undone
  BY DEF NoPlan
<1> HIDE DEF plan
<1>4. Joins(undone, bundles)
  BY <1>2 DEF Joins, Ranked, Statuses
<1> QED BY <1>1, <1>3, <1>4, NoPlanFollows DEF Follows

\* No commit: the bundles stay, and p, if it is about to commit, follows them.
LEMMA ProcessNumbered ==
    ASSUME Numbered, bundles' = bundles, NEW p \in Procs,
           \A q \in Procs : q # p => proc'[q] = proc[q],
           proc'[p].stage = "applying" => Follows(proc'[p].plan)
    PROVE  Numbered'
BY DEF Numbered, Follows

LEMMA ApplyNumbered ==
    ASSUME Reviewed, Numbered, NEW p \in Procs, apply(p)
    PROVE  Numbered'
<1> DEFINE now == planned(proc[p].reviewed.request)
           state == [proc[p] EXCEPT !.stage = "applying", !.plan = now]
<1>1. state.plan = now
  BY DEF Reviewed, SoundProcess, Idle
<1>2. Follows(now)
  BY PlannedFollows DEF Numbered
<1>3. proc' = [proc EXCEPT ![p] = state] /\ bundles' = bundles
  BY DEF apply, Reviewed, disk
<1> HIDE DEF state, now
<1>4. proc'[p] = state /\ \A q \in Procs : q # p => proc'[q] = proc[q]
  BY <1>3 DEF Reviewed
<1> QED BY <1>1, <1>2, <1>3, <1>4, ProcessNumbered

LEMMA DirectNumbered ==
    ASSUME Reviewed, Numbered, NEW p \in Procs, NEW plan, Follows(plan), direct(p, plan)
    PROVE  Numbered'
<1> DEFINE state == [proc[p] EXCEPT !.stage = "applying", !.plan = plan, !.reviewed = plan]
<1>1. state.plan = plan
  BY DEF Reviewed, SoundProcess, Idle
<1>2. proc' = [proc EXCEPT ![p] = state] /\ bundles' = bundles
  BY DEF direct, Reviewed, disk
<1> HIDE DEF state
<1>3. proc'[p] = state /\ \A q \in Procs : q # p => proc'[q] = proc[q]
  BY <1>2 DEF Reviewed
<1> QED BY <1>1, <1>2, <1>3, ProcessNumbered

LEMMA CaptureNumbered ==
    ASSUME Reviewed, Numbered, NEW p \in Procs, NEW c, captureCandidate(p, c)
    PROVE  Numbered'
<1> DEFINE plan == [NoPlan EXCEPT !.request = [op |-> "capture", from |-> {c}, time |-> spare],
                                  !.asserts = [k \in {c} |-> inbox[k]]]
<1>1. plan.bundle = NoBundle /\ direct(p, plan)
  BY DEF captureCandidate, NoPlan
<1>2. Follows(plan)
  BY <1>1 DEF Follows
<1> QED BY <1>1, <1>2, DirectNumbered

LEMMA CommitNumbered ==
    ASSUME Reviewed, Numbered, NEW p \in Procs, commit(p)
    PROVE  Numbered'
<1> DEFINE plan == proc[p].plan
           x == plan.bundle
<1>1. proc[p].stage = "applying" /\ Agrees(x, bundles)
  BY DEF commit, PreconditionsHold, Agrees
<1>2. bundles' = IF x = NoBundle THEN bundles ELSE Added(x, bundles)
  BY DEF commit, Added
<1>3. \A q \in Procs : q # p => proc'[q] = proc[q]
  BY DEF commit, Reviewed
<1>4. proc'[p].stage # "applying"
  <2> DEFINE consumed == IF plan.request.op = "capture" THEN {} ELSE DOMAIN plan.asserts
             cleaning == [proc[p] EXCEPT !.stage = "cleaning", !.cleaning = consumed,
                                         !.reviewed = NoPlan]
  <2>1. cleaning.stage = "cleaning" /\ Idle.stage = "idle"
    BY DEF Reviewed, SoundProcess, Idle
  <2>2. proc'[p] \in {Idle, cleaning}
    BY DEF commit, Reviewed
  <2> HIDE DEF cleaning
  <2> QED BY <2>1, <2>2
<1> HIDE DEF plan
<1>5. CASE x = NoBundle
  BY <1>2, <1>3, <1>4, <1>5, ProcessNumbered
<1>6. CASE x # NoBundle
  <2>1. Ranked(bundles) /\ Joins(x, bundles)
    BY <1>1, <1>6 DEF Numbered, plan
  <2>2. bundles' = Added(x, bundles)
    BY <1>2, <1>6
  <2>3. Ranked(bundles')
    BY <1>1, <2>1, <2>2, AddedRanked
  <2>4. \A q \in Procs :
           proc'[q].stage = "applying" /\ proc'[q].plan.bundle # NoBundle
              => Joins(proc'[q].plan.bundle, bundles')
    BY <1>1, <1>3, <1>4, <2>2, AddedJoins DEF Numbered
  <2> QED BY <2>3, <2>4 DEF Numbered
<1> QED BY <1>5, <1>6

\* The other steps of a process leave it nothing new to commit.
LEMMA OtherNumbered ==
    ASSUME Reviewed, Numbered, NEW p \in Procs,
           \/ \E request : preview(p, request)
           \/ \E c : cleanupCandidates(p, c)
           \/ dismiss(p) \/ refuse(p) \/ abandon(p)
    PROVE  Numbered'
<1> DEFINE Moves(state) == proc' = [proc EXCEPT ![p] = state] /\ bundles' = bundles
<1>1. ASSUME NEW state, Moves(state),
             state.stage = "applying" => proc[p].stage = "applying" /\ state.plan = proc[p].plan
      PROVE  Numbered'
  <2>1. proc'[p] = state /\ \A q \in Procs : q # p => proc'[q] = proc[q]
    BY <1>1 DEF Reviewed
  <2> QED BY <1>1, <2>1, ProcessNumbered DEF Numbered, Follows
<1>2. ASSUME Moves(Idle) PROVE Numbered'
  <2>1. Idle.stage = "idle"
    BY DEF Idle
  <2> HIDE DEF Idle
  <2> QED BY <1>1, <1>2, <2>1
<1>3. ASSUME NEW request, preview(p, request) PROVE Numbered'
  <2> DEFINE state == [proc[p] EXCEPT !.stage = "reviewed", !.reviewed = planned(request)]
  <2>1. state.stage = "reviewed"
    BY DEF Reviewed, SoundProcess, Idle
  <2>2. Moves(state)
    BY <1>3 DEF preview, Reviewed, disk
  <2> HIDE DEF state, Moves
  <2> QED BY <1>1, <2>1, <2>2
<1>4. ASSUME NEW c, cleanupCandidates(p, c) PROVE Numbered'
  <2> DEFINE cleaned == [proc[p] EXCEPT !.cleaning = @ \ {c}]
  <2>1. cleaned.stage = proc[p].stage /\ cleaned.plan = proc[p].plan
    BY DEF Reviewed, SoundProcess, Idle
  <2>2. Moves(Idle) \/ Moves(cleaned)
    BY <1>4 DEF cleanupCandidates, Cleaned
  <2> HIDE DEF cleaned, Moves, Idle
  <2> QED BY <1>1, <1>2, <2>1, <2>2
<1>5. ASSUME dismiss(p) \/ refuse(p) \/ abandon(p) PROVE Numbered'
  BY <1>2, <1>5 DEF dismiss, refuse, abandon, disk
<1> HIDE DEF Moves
<1> QED BY <1>3, <1>4, <1>5

LEMMA NextNumbered == Reviewed /\ Numbered /\ [Next]_vars => Numbered'
<1> SUFFICES ASSUME Reviewed, Numbered, [Next]_vars PROVE Numbered'
  OBVIOUS
<1>1. CASE UNCHANGED <<bundles, proc>>
  BY <1>1 DEF Numbered
<1>2. ASSUME NEW p \in Procs, migrateBrain(p) \/ rollback(p) PROVE Numbered'
  <2>1. CASE migrateBrain(p)
    BY <2>1, BrainFollows, DirectNumbered DEF migrateBrain
  <2>2. CASE rollback(p)
    <3>1. PICK bundle \in bundles : direct(p, observeRollback(bundle))
      BY <2>2 DEF rollback
    <3>2. Follows(observeRollback(bundle))
      BY RollbackFollows DEF Reviewed, Numbered
    <3> QED BY <3>1, <3>2, DirectNumbered
  <2> QED BY <1>2, <2>1, <2>2
<1>3. CASE editGotchas \/ editConfig \/ editBrain
  <2>1. UNCHANGED <<bundles, proc>>
    BY <1>3 DEF editGotchas, editConfig, editBrain, edit
  <2> QED BY <1>1, <2>1
<1>4. CASE UNCHANGED vars
  BY <1>1, <1>4 DEF vars
<1> QED BY <1>2, <1>3, <1>4, ApplyNumbered, CaptureNumbered, CommitNumbered, OtherNumbered DEF Next

LEMMA InitNumbered == Init => Numbered
<1> SUFFICES ASSUME Init PROVE Numbered
  OBVIOUS
<1>1. \A p \in Procs : proc[p].stage # "applying"
  BY DEF Init, Idle
<1> DEFINE first == <<"memory", StockGotchas, MaxSpare + 2>>
           second == <<"memory-state", StockMigrated, MaxSpare + 1>>
<1>2. \A start : \E before, after, earlier, later :
         StartBundles(start) \subseteq {Bundle(first, before, after), Bundle(second, earlier, later)}
  BY DEF StartBundles
<1>3. first[1] = "memory" /\ second[1] = "memory-state"
  OBVIOUS
<1> HIDE DEF first, second
<1>4. PICK before, after, earlier, later :
         bundles \subseteq {Bundle(first, before, after), Bundle(second, earlier, later)}
  BY <1>2 DEF Init
<1> DEFINE one == Bundle(first, before, after)
           two == Bundle(second, earlier, later)
<1>5. one.id = first /\ two.id = second /\ one.status = "completed" /\ two.status = "completed"
  BY DEF Bundle
<1> HIDE DEF one, two
<1>6. bundles \subseteq {one, two}
  BY <1>4 DEF one, two
<1>7. IsFiniteSet({one, two})
  <2>1. IsFiniteSet({one} \cup {two})
    BY FS_Singleton, FS_AddElement
  <2> QED BY <2>1
<1>8. IsFiniteSet(bundles)
  BY <1>6, <1>7, FS_Subset
<1>9. \A b \in bundles : b.id[1] # "config" /\ b.status = "completed"
  BY <1>3, <1>5, <1>6
<1>10. \A a, b \in bundles : a.id = b.id => a = b
  BY <1>3, <1>5, <1>6
<1>11. \A source : Of(bundles, source) = {}
  BY <1>9 DEF Of
<1>12. \A source : Numbers(bundles, source) = 1 .. Cardinality(Of(bundles, source))
  <2>1. Cardinality({}) = 0 /\ 1 .. 0 = {}
    BY FS_EmptySet
  <2> QED BY <1>11, <2>1 DEF Numbers
<1>13. Ranked(bundles)
  BY <1>8, <1>9, <1>10, <1>12 DEF Ranked, Statuses, IsAttempt
<1> QED BY <1>1, <1>13 DEF Numbered

\* Whoever migrates, rolls back and edits at the same time, the attempts to migrate
\* one configuration are numbered without gaps, and only the last of them stands
\* (nextConfigAttempt, composition/migration.ts).
THEOREM AttemptsNumbered == Spec => []LineageHasOneHead
<1>1. Numbered => LineageHasOneHead
  <2> SUFFICES ASSUME Numbered, NEW b \in bundles, b.id[1] = "config"
               PROVE  LET attempts == {a.id[3] : a \in Lineage(b.id[2])}
                      IN  /\ attempts = 1 .. Cardinality(Lineage(b.id[2]))
                          /\ b.status = "completed" => b.id[3] = Cardinality(attempts)
    BY DEF LineageHasOneHead
  <2> DEFINE n == Cardinality(Of(bundles, b.id[2]))
  <2>1. Lineage(b.id[2]) = Of(bundles, b.id[2])
    BY DEF Lineage, Of
  <2>2. /\ Numbers(bundles, b.id[2]) = 1 .. n
        /\ b.status = "completed" => b.id[3] = n
    BY DEF Numbered, Ranked
  <2>3. n \in Nat
    BY FS_Subset, FS_CardinalityType DEF Numbered, Ranked, Of
  <2>4. Cardinality(1 .. n) = n
    <3> HIDE DEF n
    <3>1. Cardinality(1 .. n) = IF 1 > n THEN 0 ELSE n - 1 + 1
      BY <2>3, FS_Interval
    <3> QED BY <2>3, <3>1
  <2> QED BY <2>1, <2>2, <2>4 DEF Numbers
<1> QED BY <1>1, InitReviewed, NextReviewed, InitNumbered, NextNumbered, PTL DEF Spec
=============================================================================
