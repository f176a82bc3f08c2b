---------------------- MODULE ManagedTransactionProofs ----------------------
(***************************************************************************)
(* Proofs about ManagedTransaction, for any number of processes,           *)
(* transactions, plans, crashes, faults, edits and power losses.           *)
(***************************************************************************)
EXTENDS ManagedTransaction, TLAPS

\* Where a driver owns a transaction, where it replaces progress.json, and
\* where progress.json is what the driver believes it to be.
Persisting == {"clear", "write", "rename"}

Settled == {"mkStaging", "stage", "fill", "manifest", "fillManifest", "precheck", "authorize",
            "publish", "apply", "verify", "decide", "recheck", "cleanup", "finish"}

Failing == {"failed", "classify"}

Owning == Persisting \cup Settled \cup Failing

\* What a driver's registers hold, by the place it stands at.
DriverShape(d) ==
    /\ d.pc \in Owning => d.tx \in TxId
    /\ d.tx \in TxId => d.back # "begin"
    /\ d.pc \in Persisting \cup Settled => d.mem \in Progress
    /\ d.pc \in {"unNext", "unDir"} =>
          d.tgt \in TxId /\ (d.tx = d.tgt \/ (d.tx = NoTx /\ d.back \in {"observe", "begin"}))
    /\ d.sync \in {"root", "staging", "parent"} => d.tx \in TxId
    /\ d.sync = "parent" => d.pc = "verify"
    /\ d.pc \in {"pre", "inspect"} => d.back \in {"observe", "begin"}
    /\ d.pc \in {"pre", "inspect", "observe", "begin", "idle"} => d.tx = NoTx
    /\ d.back = "begin" \/ d.pc = "begin" => ValidPlan(d.ops)
    /\ d.pc \in Persisting => d.back \in {"mkStaging", "authorize", "publish", "decide", "cleanup"}
    /\ d.pc \in {"cleanup", "finish"} => Terminal(d.mem.phase)
    /\ d.pc \in Persisting /\ d.back = "cleanup" => Terminal(d.mem.phase)
    /\ d.pc \in {"publish", "apply", "verify", "recheck"} => d.mem.published + 1 = d.idx
    /\ d.pc \in Persisting /\ d.back = "publish" => d.mem.published + 1 = d.idx
    /\ d.pc = "authorize" => d.mem.published = 0
    /\ d.pc \in Persisting /\ d.back = "authorize" => d.mem.published = 0
    /\ d.pc \in {"fill", "apply", "verify", "recheck"} => d.idx <= Len(ops[d.tx])

Files ==
    /\ dest \in [Path -> Fingerprint]
    /\ jn \in [TxId -> Journal]
    /\ disk \in [dest : [Path -> Fingerprint], jn : [TxId -> Journal],
                 applied : [TxId -> SUBSET (1 .. MaxOps)]]
    /\ ops \in [TxId -> Manifest]
    /\ applied \in [TxId -> SUBSET (1 .. MaxOps)]
    /\ budget \in [crash : 0 .. MaxCrash, power : 0 .. MaxPower,
                   fault : 0 .. MaxFault, edits : 0 .. MaxEdits]

Registers ==
    /\ drv \in [Worker -> Driver]
    /\ answer \in [Worker -> [code : Code, tx : TxId \cup {NoTx}]]
    /\ \A w \in Worker : DriverShape(drv[w])

Shape == Files /\ Registers

-----------------------------------------------------------------------------
(* Registers: what the building blocks of actions do to the driver.        *)

LEMMA ProgressFacts ==
    /\ NoProgress \notin Progress
    /\ NoProgress.phase = "missing"
    /\ \A p \in Progress : p.phase \in Phase /\ p.bound \in BOOLEAN /\ p.published \in 0 .. MaxOps
BY BoundAssumption DEF Progress, NoProgress, Phase

LEMMA IdleShape == Idle \in Driver /\ DriverShape(Idle)
<1>1. NoPlan \in Plan
  BY DEF NoPlan, Plan
<1>2. <<>> \in Seq(Operation)
  OBVIOUS
<1>3. Idle \in Driver
  BY <1>1, <1>2, BoundAssumption DEF Idle, Driver, PC
<1>4. DriverShape(Idle)
  BY InstanceAssumption DEF DriverShape, Idle, Owning, Persisting, Settled, Failing
<1> QED BY <1>3, <1>4

LEMMA DriverUpdate ==
    ASSUME NEW e \in Driver, NEW pc \in PC, NEW idx \in 1 .. MaxOps + 1,
           NEW mem \in Progress \cup {NoProgress}, NEW back \in PC
    PROVE  [e EXCEPT !.pc = pc, !.idx = idx, !.mem = mem, !.back = back] \in Driver
BY DEF Driver

LEMMA OwnRegisters ==
    ASSUME Shape, NEW w \in Worker
    PROVE  drv[w] \in Driver /\ DriverShape(drv[w])
BY DEF Shape, Registers

LEMMA OwnManifest ==
    ASSUME Files, NEW t \in TxId
    PROVE  ops[t] \in Seq(Operation) /\ Len(ops[t]) \in 0 .. MaxOps
BY BoundAssumption DEF Files, Manifest

\* One driver moves and keeps its shape, the manifests stay: all keep theirs.
LEMMA OneDriverMoves ==
    ASSUME Shape, NEW w \in Worker, NEW d \in Driver, drv' = [drv EXCEPT ![w] = d],
           DriverShape(d), ops' = ops, answer' = answer
    PROVE  Registers'
<1>1. drv' \in [Worker -> Driver]
  BY DEF Shape, Registers
<1>2. ASSUME NEW u \in Worker PROVE DriverShape(drv[u])'
  <2>1. CASE u = w
    BY <2>1 DEF DriverShape, Shape, Registers
  <2>2. CASE u # w
    BY <2>2 DEF DriverShape, Shape, Registers
  <2> QED BY <2>1, <2>2
<1> QED BY <1>1, <1>2 DEF Shape, Registers

LEMMA ReturnShape ==
    ASSUME Shape, NEW w \in Worker, NEW code \in Code, Return(w, code), ops' = ops
    PROVE  Registers'
<1>1. drv' \in [Worker -> Driver]
  BY IdleShape DEF Return, Shape, Registers
<1>2. ASSUME NEW u \in Worker PROVE DriverShape(drv[u])'
  <2>1. CASE u = w
    BY <2>1, IdleShape DEF Return, DriverShape, Shape, Registers
  <2>2. CASE u # w
    BY <2>2 DEF Return, DriverShape, Shape, Registers
  <2> QED BY <2>1, <2>2
<1>3. drv[w].tx \in TxId \cup {NoTx}
  BY OwnRegisters DEF Driver
<1>4. answer' \in [Worker -> [code : Code, tx : TxId \cup {NoTx}]]
  BY <1>3 DEF Return, Shape, Registers
<1> QED BY <1>1, <1>2, <1>4 DEF Registers

\* A driver that fails still owns its transaction.
LEMMA FailShape ==
    ASSUME Shape, NEW w \in Worker, NEW why \in Reason \cup {"raw"}, Fail(w, why),
           drv[w].tx \in TxId, ops' = ops, answer' = answer
    PROVE  Registers'
<1> DEFINE d == [drv[w] EXCEPT !.pc = "failed", !.why = why, !.sync = "none"]
<1>1. drv' = [drv EXCEPT ![w] = d]
  BY DEF Fail, Shape, Registers
<1>2. drv[w] \in Driver /\ DriverShape(drv[w])
  BY OwnRegisters
<1>3. "failed" \in PC
  BY DEF PC
<1>4. d \in Driver
  BY <1>2, <1>3 DEF Driver
<1>5. DriverShape(d)
  BY <1>2 DEF DriverShape, Driver, Owning, Persisting, Settled, Failing
<1> QED BY <1>1, <1>4, <1>5, OneDriverMoves

\* A driver moves to a place that asks nothing new of its registers.
LEMMA GotoShape ==
    ASSUME Shape, NEW w \in Worker, NEW pc \in PC, Goto(w, pc),
           DriverShape([drv[w] EXCEPT !.pc = pc]), ops' = ops, answer' = answer
    PROVE  Registers'
<1> DEFINE d == [drv[w] EXCEPT !.pc = pc]
<1>1. drv' = [drv EXCEPT ![w] = d]
  BY DEF Goto, Shape, Registers
<1>2. drv[w] \in Driver
  BY OwnRegisters
<1>3. d \in Driver
  BY <1>2 DEF Driver
<1> QED BY <1>1, <1>3, OneDriverMoves

\* A driver starts to replace progress.json.
LEMMA PersistShape ==
    ASSUME Shape, NEW w \in Worker, NEW prog \in Progress,
           NEW back \in {"mkStaging", "authorize", "publish", "decide", "cleanup"},
           Persist(w, prog, back), drv[w].tx \in TxId, drv[w].sync = "none",
           back = "cleanup" => Terminal(prog.phase),
           back = "publish" => prog.published + 1 = drv[w].idx,
           back = "authorize" => prog.published = 0,
           ops' = ops, answer' = answer
    PROVE  Registers'
<1> DEFINE d == [drv[w] EXCEPT !.pc = "clear", !.mem = prog, !.back = back]
<1>1. drv' = [drv EXCEPT ![w] = d]
  BY DEF Persist, Shape, Registers
<1>2. drv[w] \in Driver
  BY OwnRegisters
<1>3. "clear" \in PC /\ back \in PC
  BY DEF PC
<1>4. d \in Driver
  BY <1>2, <1>3 DEF Driver
<1>5. DriverShape(d)
  BY <1>2 DEF DriverShape, Driver, Owning, Persisting, Settled, Failing
<1> QED BY <1>1, <1>4, <1>5, OneDriverMoves

-----------------------------------------------------------------------------
(* Actions that only move a driver.                                        *)

LEMMA SubmitShape ==
    ASSUME Shape, NEW w \in Worker, NEW plan \in Plans, Submit(w, plan)
    PROVE  Registers'
<1> DEFINE d == [Idle EXCEPT !.pc = "pre", !.plan = plan, !.back = "observe"]
<1>1. d \in Driver
  <2>1. "pre" \in PC /\ "observe" \in PC
    BY DEF PC
  <2>2. plan \in Plan
    BY InstanceAssumption
  <2> QED BY <2>1, <2>2, IdleShape DEF Driver
<1>2. DriverShape(d)
  BY InstanceAssumption DEF DriverShape, Idle, Owning, Persisting, Settled, Failing
<1>3. drv' = [drv EXCEPT ![w] = d] /\ ops' = ops
  BY DEF Submit
<1>4. ASSUME NEW u \in Worker PROVE DriverShape(drv[u])'
  <2>1. CASE u = w
    BY <2>1, <1>2, <1>3 DEF DriverShape, Shape, Registers
  <2>2. CASE u # w
    BY <2>2, <1>3 DEF DriverShape, Shape, Registers
  <2> QED BY <2>1, <2>2
<1>5. NoAnswer \in [code : Code, tx : TxId \cup {NoTx}]
  BY DEF NoAnswer, Code
<1> QED BY <1>1, <1>3, <1>4, <1>5 DEF Submit, Shape, Registers

LEMMA ReconcileUnmarkedShape ==
    ASSUME Shape, NEW w \in Worker, NEW t \in TxId, ReconcileUnmarked(w, t)
    PROVE  Registers'
<1>0. drv[w] \in Driver /\ DriverShape(drv[w]) /\ drv[w].pc = "pre" /\ ops' = ops
  BY OwnRegisters DEF ReconcileUnmarked, At
<1>1. CASE jn[t].staging \/ jn[t].man # "missing"
  <2>1. Return(w, "state_corrupt") /\ "state_corrupt" \in Code
    BY <1>1 DEF ReconcileUnmarked, Code, Reason
  <2> QED BY <1>0, <2>1, ReturnShape
<1>2. CASE ~(jn[t].staging \/ jn[t].man # "missing")
  <2> DEFINE pc == IF jn[t].next # NoProgress THEN "unNext" ELSE "unDir"
             d == [drv[w] EXCEPT !.tgt = t, !.pc = pc]
  <2>1. drv' = [drv EXCEPT ![w] = d] /\ answer' = answer
    BY <1>2 DEF ReconcileUnmarked, Shape, Registers
  <2>2. pc \in PC /\ pc \in {"unNext", "unDir"}
    BY DEF PC
  <2> HIDE DEF pc
  <2>3. d \in Driver
    BY <1>0, <2>2 DEF Driver
  <2>4. DriverShape(d)
    BY <1>0, <2>2, InstanceAssumption DEF DriverShape, Driver, Owning, Persisting, Settled, Failing
  <2> QED BY <1>0, <2>1, <2>3, <2>4, OneDriverMoves
<1> QED BY <1>1, <1>2

LEMMA ReconcileDoneShape ==
    ASSUME Shape, NEW w \in Worker, ReconcileDone(w)
    PROVE  Registers'
<1>1. drv[w] \in Driver /\ DriverShape(drv[w]) /\ drv[w].pc = "pre"
  BY OwnRegisters DEF ReconcileDone, At
<1>2. "inspect" \in PC /\ Goto(w, "inspect") /\ ops' = ops /\ answer' = answer
  BY DEF PC, ReconcileDone
<1>3. DriverShape([drv[w] EXCEPT !.pc = "inspect"])
  BY <1>1 DEF DriverShape, Driver, Owning, Persisting, Settled, Failing
<1> QED BY <1>2, <1>3, GotoShape

LEMMA InspectShape ==
    ASSUME Shape, NEW w \in Worker, Inspect(w)
    PROVE  Registers'
<1>0. drv[w] \in Driver /\ DriverShape(drv[w]) /\ drv[w].pc = "inspect" /\ ops' = ops
  BY OwnRegisters DEF Inspect, At
<1>1. ASSUME NEW code \in {"state_corrupt", "recovery_required"}, Return(w, code)
      PROVE  Registers'
  <2>1. code \in Code
    BY DEF Code, Reason
  <2> QED BY <1>0, <1>1, <2>1, ReturnShape
<1>2. CASE Goto(w, drv[w].back) /\ answer' = answer
  <2>1. drv[w].back \in {"observe", "begin"} /\ drv[w].tx = NoTx
    BY <1>0 DEF DriverShape
  <2>2. drv[w].back \in PC
    BY <1>0 DEF Driver
  <2>3. DriverShape([drv[w] EXCEPT !.pc = drv[w].back])
    BY <1>0, <2>1 DEF DriverShape, Driver, Owning, Persisting, Settled, Failing
  <2> QED BY <1>0, <1>2, <2>2, <2>3, GotoShape
<1> QED BY <1>1, <1>2 DEF Inspect

LEMMA ObserveShape ==
    ASSUME Shape, NEW w \in Worker, Observe(w)
    PROVE  Registers'
<1> DEFINE o == Normalize(drv[w].plan.effects, dest).ops
           d == [drv[w] EXCEPT !.ops = o, !.pc = "pre", !.back = "begin"]
<1>0. drv[w] \in Driver /\ DriverShape(drv[w]) /\ drv[w].pc = "observe" /\ ops' = ops
  BY OwnRegisters DEF Observe, At
<1>1. ASSUME NEW code \in {"state_corrupt", "revision_conflict", "noop"}, Return(w, code)
      PROVE  Registers'
  <2>1. code \in Code
    BY DEF Code, Reason
  <2> QED BY <1>0, <1>1, <2>1, ReturnShape
<1>2. \/ \E code \in {"state_corrupt", "revision_conflict", "noop"} : Return(w, code)
      \/ /\ ValidPlan(o)
         /\ drv' = [drv EXCEPT ![w].ops = o, ![w].pc = "pre", ![w].back = "begin"]
         /\ answer' = answer
  BY DEF Observe
<1> HIDE DEF o
<1>3. CASE /\ ValidPlan(o)
           /\ drv' = [drv EXCEPT ![w].ops = o, ![w].pc = "pre", ![w].back = "begin"]
           /\ answer' = answer
  <2>1. drv' = [drv EXCEPT ![w] = d]
    BY <1>3 DEF Shape, Registers
  <2>2. o \in Seq(Operation)
    BY <1>3 DEF ValidPlan
  <2>3. "pre" \in PC /\ "begin" \in PC
    BY DEF PC
  <2>4. d \in Driver
    BY <1>0, <2>2, <2>3 DEF Driver
  <2>5. DriverShape(d)
    BY <1>0, <1>3, InstanceAssumption DEF DriverShape, Driver, Owning, Persisting, Settled, Failing
  <2> QED BY <1>0, <1>3, <2>1, <2>4, <2>5, OneDriverMoves
<1> QED BY <1>1, <1>2, <1>3

LEMMA PrepareShape ==
    ASSUME Shape, NEW w \in Worker, Prepare(w)
    PROVE  Registers'
<1> DEFINE prog == [phase |-> "prepared", bound |-> TRUE, published |-> 0]
<1>0. /\ drv[w].tx \in TxId /\ drv[w].sync = "none"
      /\ ops' = ops /\ answer' = answer
  BY OwnRegisters DEF Prepare, At, DriverShape, Owning, Settled
<1>1. prog \in Progress
  BY BoundAssumption DEF Progress, Phase
<1>2. CASE Persist(w, prog, "authorize")
  BY <1>0, <1>1, <1>2, PersistShape
<1>3. CASE Fail(w, "revision_conflict")
  BY <1>0, <1>3, FailShape DEF Reason
<1> QED BY <1>2, <1>3 DEF Prepare

LEMMA AuthorizeShape ==
    ASSUME Shape, NEW w \in Worker, Authorize(w)
    PROVE  Registers'
<1> DEFINE prog == [drv[w].mem EXCEPT !.phase = "publishing"]
           d == [drv[w] EXCEPT !.pc = "clear", !.idx = 1, !.mem = prog, !.back = "publish"]
<1>0. /\ drv[w] \in Driver /\ DriverShape(drv[w])
      /\ drv[w].pc = "authorize" /\ drv[w].sync = "none" /\ drv[w].tx \in TxId /\ drv[w].mem \in Progress
      /\ ops' = ops /\ answer' = answer
  BY OwnRegisters DEF Authorize, At, DriverShape, Owning, Settled
<1>1. CASE Fail(w, "revision_conflict")
  BY <1>0, <1>1, FailShape DEF Reason
<1>2. CASE drv' = [drv EXCEPT ![w].pc = "clear", ![w].idx = 1, ![w].back = "publish",
                              ![w].mem = prog]
  <2>1. drv' = [drv EXCEPT ![w] = d]
    BY <1>2 DEF Shape, Registers
  <2>2. prog \in Progress /\ prog.published = 0
    BY <1>0 DEF DriverShape, Progress, Phase
  <2>3. "clear" \in PC /\ "publish" \in PC
    BY DEF PC
  <2> HIDE DEF prog
  <2>4. d \in Driver
    <3>1. 1 \in 1 .. MaxOps + 1
      BY BoundAssumption
    <3> QED BY <1>0, <2>2, <2>3, <3>1, DriverUpdate
  <2>5. DriverShape(d)
    BY <1>0, <2>2 DEF DriverShape, Driver, Owning, Persisting, Settled, Failing
  <2> QED BY <1>0, <2>1, <2>4, <2>5, OneDriverMoves
<1> QED BY <1>1, <1>2 DEF Authorize

LEMMA CheckPublishableShape ==
    ASSUME Shape, NEW w \in Worker, CheckPublishable(w)
    PROVE  Registers'
<1>0. /\ drv[w] \in Driver /\ DriverShape(drv[w])
      /\ drv[w].pc = "publish" /\ drv[w].sync = "none" /\ drv[w].tx \in TxId
      /\ drv[w].idx <= Len(ops[drv[w].tx])
      /\ ops' = ops /\ answer' = answer
  BY OwnRegisters DEF CheckPublishable, LastOp, At, DriverShape, Owning, Settled
<1>1. ASSUME NEW why \in {"revision_conflict", "state_corrupt"}, Fail(w, why)
      PROVE  Registers'
  BY <1>0, <1>1, FailShape DEF Reason
<1>2. CASE Goto(w, "apply")
  <2>1. "apply" \in PC
    BY DEF PC
  <2>2. DriverShape([drv[w] EXCEPT !.pc = "apply"])
    BY <1>0 DEF DriverShape, Driver, Owning, Persisting, Settled, Failing
  <2> QED BY <1>0, <1>2, <2>1, <2>2, GotoShape
<1> QED BY <1>1, <1>2 DEF CheckPublishable

LEMMA VerifyShape ==
    ASSUME Shape, NEW w \in Worker, Verify(w)
    PROVE  Registers'
<1> DEFINE prog == [drv[w].mem EXCEPT !.published = @ + 1]
           back == IF drv[w].mode = "exec" THEN "publish" ELSE "decide"
           idx == drv[w].idx + 1
           d == [drv[w] EXCEPT !.pc = "clear", !.idx = idx, !.mem = prog, !.back = back]
<1>0. /\ drv[w] \in Driver /\ DriverShape(drv[w])
      /\ drv[w].pc = "verify" /\ drv[w].sync = "none" /\ drv[w].tx \in TxId
      /\ drv[w].mem \in Progress /\ drv[w].mem.published + 1 = drv[w].idx
      /\ drv[w].idx <= Len(ops[drv[w].tx])
      /\ ops' = ops /\ answer' = answer
  BY OwnRegisters DEF Verify, At, DriverShape, Owning, Settled
<1>1. CASE Fail(w, "state_corrupt")
  BY <1>0, <1>1, FailShape DEF Reason
<1>2. CASE drv' = [drv EXCEPT ![w].pc = "clear", ![w].idx = idx, ![w].mem = prog,
                              ![w].back = back]
  <2>1. drv' = [drv EXCEPT ![w] = d]
    BY <1>2 DEF Shape, Registers
  <2>2. drv[w].idx \in 1 .. MaxOps
    <3>1. Len(ops[drv[w].tx]) \in 0 .. MaxOps
      BY <1>0, OwnManifest DEF Shape
    <3>2. drv[w].idx \in 1 .. MaxOps + 1
      BY <1>0 DEF Driver
    <3> QED BY <1>0, <3>1, <3>2, BoundAssumption
  <2>3. prog \in Progress /\ prog.published = drv[w].idx
    BY <1>0, <2>2, BoundAssumption DEF Progress
  <2>4. back \in {"publish", "decide"} /\ back \in PC /\ "clear" \in PC
    BY DEF PC
  <2>5. idx \in 1 .. MaxOps + 1 /\ prog.published + 1 = idx
    BY <2>2, <2>3, BoundAssumption
  <2> HIDE DEF prog, back, idx
  <2>6. d \in Driver
    BY <1>0, <2>3, <2>4, <2>5, DriverUpdate
  <2>7. DriverShape(d)
    BY <1>0, <2>3, <2>4, <2>5 DEF DriverShape, Driver, Owning, Persisting, Settled, Failing
  <2> QED BY <1>0, <2>1, <2>6, <2>7, OneDriverMoves
<1> QED BY <1>1, <1>2 DEF Verify

LEMMA CommitShape ==
    ASSUME Shape, NEW w \in Worker, Commit(w)
    PROVE  Registers'
<1> DEFINE prog == [drv[w].mem EXCEPT !.phase = "committed"]
<1>0. /\ drv[w].tx \in TxId /\ drv[w].sync = "none" /\ drv[w].mem \in Progress
      /\ ops' = ops /\ answer' = answer
  BY OwnRegisters DEF Commit, At, DriverShape, Owning, Settled
<1>1. ASSUME NEW why \in {"revision_conflict", "state_corrupt"}, Fail(w, why)
      PROVE  Registers'
  BY <1>0, <1>1, FailShape DEF Reason
<1>2. CASE Persist(w, prog, "cleanup")
  <2>1. prog \in Progress /\ Terminal(prog.phase)
    BY <1>0 DEF Progress, Phase, Terminal
  <2> QED BY <1>0, <1>2, <2>1, PersistShape
<1> QED BY <1>1, <1>2 DEF Commit

LEMMA FinishShape ==
    ASSUME Shape, NEW w \in Worker, Finish(w)
    PROVE  Registers'
<1>1. drv[w].mem.phase \in Code
  BY OwnRegisters DEF Finish, At, DriverShape, Terminal, Code
<1> QED BY <1>1, ReturnShape DEF Finish

LEMMA RecheckShape ==
    ASSUME Shape, NEW w \in Worker, Recheck(w)
    PROVE  Registers'
<1> DEFINE prog == [drv[w].mem EXCEPT !.published = @ + 1]
<1>0. /\ drv[w] \in Driver /\ DriverShape(drv[w])
      /\ drv[w].pc = "recheck" /\ drv[w].sync = "none" /\ drv[w].tx \in TxId
      /\ drv[w].mem \in Progress /\ drv[w].mem.published + 1 = drv[w].idx
      /\ drv[w].idx <= Len(ops[drv[w].tx])
      /\ ops' = ops /\ answer' = answer
  BY OwnRegisters DEF Recheck, At, DriverShape, Owning, Settled
<1>1. CASE Fail(w, "state_corrupt")
  BY <1>0, <1>1, FailShape DEF Reason
<1>2. CASE Persist(w, prog, "decide")
  <2>1. Len(ops[drv[w].tx]) \in 0 .. MaxOps
    BY <1>0, OwnManifest DEF Shape
  <2>2. prog \in Progress
    BY <1>0, <2>1, BoundAssumption DEF Progress, Driver
  <2> QED BY <1>0, <1>2, <2>2, PersistShape
<1>3. CASE Goto(w, "apply")
  <2>1. "apply" \in PC
    BY DEF PC
  <2>2. DriverShape([drv[w] EXCEPT !.pc = "apply"])
    BY <1>0 DEF DriverShape, Driver, Owning, Persisting, Settled, Failing
  <2> QED BY <1>0, <1>3, <2>1, <2>2, GotoShape
<1> QED BY <1>1, <1>2, <1>3 DEF Recheck

LEMMA CleanupUnmarkedShape ==
    ASSUME Shape, NEW w \in Worker, CleanupUnmarked(w)
    PROVE  Registers'
<1> DEFINE pc == IF Mine(w).next # NoProgress THEN "unNext" ELSE "unDir"
           d == [drv[w] EXCEPT !.tgt = drv[w].tx, !.pc = pc]
<1>0. /\ drv[w] \in Driver /\ DriverShape(drv[w])
      /\ drv[w].pc = "failed" /\ drv[w].sync = "none" /\ drv[w].tx \in TxId
      /\ ops' = ops /\ answer' = answer
  BY OwnRegisters DEF CleanupUnmarked, At, DriverShape, Owning, Failing
<1>1. drv' = [drv EXCEPT ![w] = d]
  BY DEF CleanupUnmarked, Shape, Registers
<1>2. pc \in PC /\ pc \in {"unNext", "unDir"}
  BY DEF PC
<1> HIDE DEF pc
<1>3. d \in Driver
  BY <1>0, <1>2 DEF Driver
<1>4. DriverShape(d)
  BY <1>0, <1>2 DEF DriverShape, Driver, Owning, Persisting, Settled, Failing
<1> QED BY <1>0, <1>1, <1>3, <1>4, OneDriverMoves

\* What recovery may ask for: one more publication recorded, or the operation
\* right after the recorded ones.
LEMMA DecisionFacts ==
    ASSUME NEW o \in Seq(Operation), NEW prog \in Progress, NEW dst, NEW pay
    PROVE  LET d == DecideRecovery(o, prog, dst, pay)
           IN  /\ d.kind = "record_published" => d.op = prog.published + 1 /\ d.op <= Len(o)
               /\ d.kind = "publish" => d.op = prog.published + 1 /\ d.op <= Len(o)
               /\ d.kind \in {"record_published", "publish", "commit"} => prog.phase = "publishing"
               /\ d.kind = "abort" => prog.phase \in {"begun", "prepared"}
               /\ d.kind \in {"cleanup", "complete"} => Terminal(prog.phase)
<1> DEFINE d == DecideRecovery(o, prog, dst, pay)
           done == ResultsObserved(o, dst)
           k == CHOOSE n \in 0 .. Len(o) : done = 1 .. n
           dp == DecidePublishing(o, prog, dst, pay)
<1>0. prog.published \in 0 .. MaxOps /\ prog.phase \in Phase /\ Len(o) \in Nat
  BY ProgressFacts
<1>1. \/ d = Blocked
      \/ prog.phase \in {"begun", "prepared"} /\ d = Decision("abort", 0)
      \/ Terminal(prog.phase) /\ (d = Decision("cleanup", 0) \/ d = Decision("complete", 0))
      \/ prog.phase = "publishing" /\ d = dp
  BY <1>0 DEF DecideRecovery, DecideTerminal, DecidePrepublication, Terminal, Phase
<1>2. \/ dp = Blocked
      \/ dp = Decision("record_published", prog.published + 1) /\ prog.published + 1 <= Len(o)
      \/ dp = Decision("publish", prog.published + 1) /\ prog.published + 1 <= Len(o)
      \/ dp = Decision("commit", 0)
  <2>1. CASE \A n \in 0 .. Len(o) : done # 1 .. n
    BY <2>1 DEF DecidePublishing
  <2>2. CASE \E n \in 0 .. Len(o) : done = 1 .. n
    <3>1. k \in 0 .. Len(o)
      BY <2>2
    <3> HIDE DEF k, done
    <3>2. dp \in {Blocked,
                  IF prog.published < k THEN Decision("record_published", prog.published + 1)
                  ELSE IF k < Len(o) THEN Decision("publish", k + 1)
                  ELSE Decision("commit", 0)} /\ (prog.published > k => dp = Blocked)
      BY DEF DecidePublishing, k, done
    <3> QED BY <1>0, <3>1, <3>2
  <2> QED BY <2>1, <2>2
<1> HIDE DEF d, dp
<1>3. d.kind = "record_published" => d.op = prog.published + 1 /\ d.op <= Len(o)
  BY <1>1, <1>2 DEF Decision, Blocked
<1>4. d.kind = "publish" => d.op = prog.published + 1 /\ d.op <= Len(o)
  BY <1>1, <1>2 DEF Decision, Blocked
<1>5. d.kind \in {"record_published", "publish", "commit"} => prog.phase = "publishing"
  BY <1>1 DEF Decision, Blocked
<1>6. d.kind = "abort" => prog.phase \in {"begun", "prepared"}
  BY <1>1, <1>2 DEF Decision, Blocked
<1>7. d.kind \in {"cleanup", "complete"} => Terminal(prog.phase)
  BY <1>1, <1>2 DEF Decision, Blocked
<1> QED BY <1>3, <1>4, <1>5, <1>6, <1>7 DEF d

LEMMA DecideShape ==
    ASSUME Shape, NEW w \in Worker, Decide(w)
    PROVE  Registers'
<1> DEFINE t == drv[w].tx
           mem == drv[w].mem
           d == DecideRecovery(ops[t], mem, dest, jn[t].pay)
           Tidies == \E pc \in {"cleanup", "finish"}, back \in {"decide", "finish"} :
                        drv' = [drv EXCEPT ![w].pc = pc, ![w].back = back]
<1>0. /\ drv[w] \in Driver /\ DriverShape(drv[w])
      /\ drv[w].pc = "decide" /\ drv[w].sync = "none" /\ t \in TxId /\ mem \in Progress
      /\ ops' = ops /\ answer' = answer
  BY OwnRegisters DEF Decide, At, DriverShape, Owning, Settled
<1>1. ops[t] \in Seq(Operation) /\ Len(ops[t]) \in 0 .. MaxOps
  BY <1>0, OwnManifest DEF Shape
<1>2. /\ d.kind = "record_published" => d.op = mem.published + 1 /\ d.op <= Len(ops[t])
      /\ d.kind = "publish" => d.op = mem.published + 1 /\ d.op <= Len(ops[t])
      /\ d.kind \in {"cleanup", "complete"} => Terminal(mem.phase)
  BY <1>0, <1>1, DecisionFacts
<1>3. \/ Persist(w, [mem EXCEPT !.phase = "aborted", !.published = 0], "decide")
      \/ d.kind = "record_published" /\ Persist(w, [mem EXCEPT !.published = d.op], "decide")
      \/ d.kind = "publish" /\ drv' = [drv EXCEPT ![w].pc = "recheck", ![w].idx = d.op]
      \/ Persist(w, [mem EXCEPT !.phase = "committed", !.published = LastOp(w)], "decide")
      \/ Terminal(mem.phase) /\ Tidies
      \/ Fail(w, "state_corrupt")
  BY <1>2 DEF Decide
<1> HIDE DEF d
<1>4. mem.published \in 0 .. MaxOps
  BY <1>0, ProgressFacts
<1>5. CASE Persist(w, [mem EXCEPT !.phase = "aborted", !.published = 0], "decide")
  <2>0. 0 \in 0 .. MaxOps
    BY BoundAssumption
  <2>1. [mem EXCEPT !.phase = "aborted", !.published = 0] \in Progress
    BY <1>0, <2>0 DEF Progress, Phase
  <2> QED BY <1>0, <1>5, <2>1, PersistShape
<1>6. CASE d.kind = "record_published" /\ Persist(w, [mem EXCEPT !.published = d.op], "decide")
  <2>0. d.op = mem.published + 1 /\ d.op <= Len(ops[t])
    BY <1>2, <1>6
  <2>1. d.op \in 0 .. MaxOps
    BY <1>1, <1>4, <2>0, BoundAssumption
  <2>2. [mem EXCEPT !.published = d.op] \in Progress
    BY <1>0, <2>1 DEF Progress
  <2> QED BY <1>0, <1>6, <2>2, PersistShape
<1>7. CASE d.kind = "publish" /\ drv' = [drv EXCEPT ![w].pc = "recheck", ![w].idx = d.op]
  <2> DEFINE e == [drv[w] EXCEPT !.pc = "recheck", !.idx = d.op]
  <2>1. drv' = [drv EXCEPT ![w] = e]
    BY <1>7 DEF Shape, Registers
  <2>2. d.op \in 1 .. MaxOps + 1
    BY <1>1, <1>2, <1>4, <1>7, BoundAssumption
  <2>3. "recheck" \in PC
    BY DEF PC
  <2>4. e \in Driver
    BY <1>0, <2>2, <2>3 DEF Driver
  <2>5. DriverShape(e)
    BY <1>0, <1>2, <1>7, <2>2 DEF DriverShape, Driver, Owning, Persisting, Settled, Failing
  <2> QED BY <1>0, <2>1, <2>4, <2>5, OneDriverMoves
<1>8. CASE Persist(w, [mem EXCEPT !.phase = "committed", !.published = LastOp(w)], "decide")
  <2>1. [mem EXCEPT !.phase = "committed", !.published = LastOp(w)] \in Progress
    BY <1>0, <1>1 DEF Progress, Phase, LastOp
  <2> QED BY <1>0, <1>8, <2>1, PersistShape
<1>9. ASSUME NEW pc \in {"cleanup", "finish"}, NEW back \in {"decide", "finish"},
             drv' = [drv EXCEPT ![w].pc = pc, ![w].back = back], Terminal(mem.phase)
      PROVE  Registers'
  <2> DEFINE e == [drv[w] EXCEPT !.pc = pc, !.back = back]
  <2>1. drv' = [drv EXCEPT ![w] = e]
    BY <1>9 DEF Shape, Registers
  <2>2. pc \in PC /\ back \in PC
    BY DEF PC
  <2>3. e \in Driver
    BY <1>0, <2>2 DEF Driver
  <2>4. DriverShape(e)
    BY <1>0, <1>9 DEF DriverShape, Driver, Owning, Persisting, Settled, Failing
  <2> QED BY <1>0, <2>1, <2>3, <2>4, OneDriverMoves
<1>10. CASE Fail(w, "state_corrupt")
  BY <1>0, <1>10, FailShape DEF Reason
<1> QED BY <1>3, <1>5, <1>6, <1>7, <1>8, <1>9, <1>10

LEMMA RecoverShape ==
    ASSUME Shape, NEW w \in Worker, NEW t \in TxId, NEW token \in BOOLEAN, Recover(w, t, token)
    PROVE  Registers'
<1> DEFINE prog == jn[t].prog
           start == [Idle EXCEPT !.mode = "rec", !.tx = t, !.mem = prog, !.sure = TRUE]
           mem == [prog EXCEPT !.phase = "aborted", !.published = 0]
           d == IF token THEN [start EXCEPT !.pc = "decide"]
                ELSE IF prog.phase = "aborted" THEN [start EXCEPT !.pc = "cleanup"]
                ELSE [start EXCEPT !.pc = "clear", !.back = "cleanup", !.mem = mem]
<1>1. prog \in Progress
  BY DEF Recover, Marked, Shape, Files, Journal
<1>2. mem \in Progress /\ mem.phase = "aborted"
  <2>1. 0 \in 0 .. MaxOps
    BY BoundAssumption
  <2> QED BY <1>1, <2>1 DEF Progress, Phase
<1> HIDE DEF prog
<1>3. start \in Driver
  BY <1>1, IdleShape DEF Driver
<1>4. start.tx = t /\ start.mem = prog /\ start.back = "idle" /\ start.sync = "none"
  BY DEF Idle
<1> HIDE DEF mem, start
<1>5. "decide" \in PC /\ "cleanup" \in PC /\ "clear" \in PC
  BY DEF PC
<1>6. [start EXCEPT !.pc = "decide"] \in Driver /\ [start EXCEPT !.pc = "cleanup"] \in Driver
  BY <1>3, <1>5 DEF Driver
<1>7. [start EXCEPT !.pc = "clear", !.back = "cleanup", !.mem = mem] \in Driver
  BY <1>2, <1>3, <1>5 DEF Driver
<1>8. DriverShape([start EXCEPT !.pc = "decide"])
  BY <1>1, <1>3, <1>4 DEF DriverShape, Driver, Owning, Persisting, Settled, Failing
<1>9. prog.phase = "aborted" => DriverShape([start EXCEPT !.pc = "cleanup"])
  BY <1>1, <1>3, <1>4 DEF DriverShape, Driver, Owning, Persisting, Settled, Failing, Terminal
<1>10. DriverShape([start EXCEPT !.pc = "clear", !.back = "cleanup", !.mem = mem])
  BY <1>2, <1>3, <1>4 DEF DriverShape, Driver, Owning, Persisting, Settled, Failing, Terminal
<1>11. d \in Driver /\ DriverShape(d)
  BY <1>6, <1>7, <1>8, <1>9, <1>10
<1>12. drv' = drv \/ drv' = [drv EXCEPT ![w] = d]
  <2>1. d = RecoveryDriver(t, token)
    BY DEF RecoveryDriver, d, start, mem, prog
  <2> HIDE DEF d
  <2> QED BY <2>1 DEF Recover
<1>13. ops' = ops /\ answer' \in [Worker -> [code : Code, tx : TxId \cup {NoTx}]]
  <2>1. /\ NoAnswer \in [code : Code, tx : TxId \cup {NoTx}]
        /\ [code |-> "state_corrupt", tx |-> t] \in [code : Code, tx : TxId \cup {NoTx}]
        /\ [code |-> "recovery_required", tx |-> t] \in [code : Code, tx : TxId \cup {NoTx}]
    BY DEF NoAnswer, Code, Reason
  <2> QED BY <2>1 DEF Recover, Shape, Registers
<1> HIDE DEF d
<1>14. ASSUME NEW u \in Worker PROVE DriverShape(drv[u])'
  BY <1>11, <1>12, <1>13 DEF DriverShape, Shape, Registers
<1> QED BY <1>11, <1>12, <1>13, <1>14 DEF Shape, Registers

LEMMA ClassifyShape ==
    ASSUME Shape, NEW w \in Worker, Classify(w)
    PROVE  Registers'
<1> DEFINE d == [drv[w] EXCEPT !.pc = "finish", !.mem = Mine(w).prog, !.sync = "root"]
<1>0. /\ drv[w] \in Driver /\ DriverShape(drv[w])
      /\ drv[w].pc \in Failing /\ drv[w].tx \in TxId /\ ops' = ops
  BY OwnRegisters DEF Classify, At, DriverShape, Owning, Failing
<1>1. Verdict(w) \in Code
  <2>1. drv[w].why \in Reason \cup {"none", "raw"}
    BY <1>0 DEF Driver
  <2> QED BY <2>1 DEF Verdict, ProjectVerdict, PublishingVerdict, Terminal, Code, Reason
<1>2. CASE Terminal(Verdict(w))
  <2>1. drv[w].why \in Reason \cup {"none", "raw"}
    BY <1>0 DEF Driver
  <2>2. Marked(jn[drv[w].tx]) /\ Terminal(jn[drv[w].tx].prog.phase)
    BY <1>2, <2>1 DEF Verdict, ProjectVerdict, PublishingVerdict, Terminal, Reason
  <2>3. Mine(w).prog \in Progress /\ Terminal(Mine(w).prog.phase)
    BY <1>0, <2>2 DEF Marked, Mine, Shape, Files, Journal
  <2>4. drv' = [drv EXCEPT ![w] = d] /\ answer' = answer
    BY <1>2 DEF Classify, Shape, Registers
  <2>5. "finish" \in PC
    BY DEF PC
  <2>6. d \in Driver
    BY <1>0, <2>3, <2>5 DEF Driver
  <2>7. DriverShape(d)
    BY <1>0, <2>3 DEF DriverShape, Driver, Owning, Persisting, Settled, Failing
  <2> QED BY <1>0, <2>4, <2>6, <2>7, OneDriverMoves
<1>3. CASE ~Terminal(Verdict(w))
  BY <1>0, <1>1, <1>3, ReturnShape DEF Classify
<1> QED BY <1>2, <1>3

-----------------------------------------------------------------------------
(* Actions that also change files, and the environment.                    *)

LEMMA SyncShape ==
    ASSUME Shape, NEW w \in Worker, Sync(w)
    PROVE  Registers'
<1> DEFINE sure == drv[w].sure \/ drv[w].pc = "publish"
           d == [drv[w] EXCEPT !.sync = "none", !.sure = sure]
<1>0. drv[w] \in Driver /\ DriverShape(drv[w]) /\ ops' = ops /\ answer' = answer
  BY OwnRegisters DEF Sync
<1>1. CASE drv[w].tx \in TxId /\ Fail(w, "raw")
  BY <1>0, <1>1, FailShape
<1>2. CASE drv' = [drv EXCEPT ![w].sync = "none", ![w].sure = sure]
  <2>1. drv' = [drv EXCEPT ![w] = d]
    BY <1>2 DEF Shape, Registers
  <2>2. d \in Driver
    BY <1>0 DEF Driver
  <2>3. DriverShape(d)
    BY <1>0 DEF DriverShape, Driver, Owning, Persisting, Settled, Failing
  <2> QED BY <1>0, <2>1, <2>2, <2>3, OneDriverMoves
<1> QED BY <1>0, <1>1, <1>2 DEF Sync, DriverShape

LEMMA UnmarkNextShape ==
    ASSUME Shape, NEW w \in Worker, UnmarkNext(w)
    PROVE  Registers'
<1>0. drv[w] \in Driver /\ DriverShape(drv[w]) /\ drv[w].pc = "unNext" /\ ops' = ops
  BY OwnRegisters DEF UnmarkNext, At
<1>1. CASE Return(w, "internal_failure")
  BY <1>0, <1>1, ReturnShape DEF Code, Reason
<1>2. CASE Goto(w, "unDir") /\ answer' = answer
  <2>1. "unDir" \in PC
    BY DEF PC
  <2>2. DriverShape([drv[w] EXCEPT !.pc = "unDir"])
    BY <1>0 DEF DriverShape, Driver, Owning, Persisting, Settled, Failing
  <2> QED BY <1>0, <1>2, <2>1, <2>2, GotoShape
<1> QED BY <1>1, <1>2 DEF UnmarkNext

LEMMA UnmarkDirectoryShape ==
    ASSUME Shape, NEW w \in Worker, UnmarkDirectory(w)
    PROVE  Registers'
<1> DEFINE own == drv[w].tx = drv[w].tgt
           pc == IF own THEN "classify" ELSE "pre"
           d == [drv[w] EXCEPT !.pc = pc, !.sync = "transactions"]
<1>0. drv[w] \in Driver /\ DriverShape(drv[w]) /\ drv[w].pc = "unDir" /\ ops' = ops
  BY OwnRegisters DEF UnmarkDirectory, At
<1>1. ASSUME NEW code \in {"internal_failure", "state_corrupt"}, Return(w, code)
      PROVE  Registers'
  <2>1. code \in Code
    BY DEF Code, Reason
  <2> QED BY <1>0, <1>1, <2>1, ReturnShape
<1>2. CASE own /\ Goto(w, "classify") /\ answer' = answer
  <2>1. "classify" \in PC
    BY DEF PC
  <2>2. DriverShape([drv[w] EXCEPT !.pc = "classify"])
    BY <1>0, <1>2 DEF DriverShape, Driver, Owning, Persisting, Settled, Failing
  <2> QED BY <1>0, <1>2, <2>1, <2>2, GotoShape
<1>3. CASE drv' = [drv EXCEPT ![w].pc = pc, ![w].sync = "transactions"] /\ answer' = answer
  <2>1. drv' = [drv EXCEPT ![w] = d]
    BY <1>3 DEF Shape, Registers
  <2>2. pc \in PC
    BY DEF PC
  <2>3. (own => pc = "classify") /\ (~own => pc = "pre")
    OBVIOUS
  <2>4. drv[w].tgt \in TxId /\ (own \/ (drv[w].tx = NoTx /\ drv[w].back \in {"observe", "begin"}))
    BY <1>0 DEF DriverShape
  <2> HIDE DEF pc
  <2>5. d \in Driver
    BY <1>0, <2>2 DEF Driver
  <2>6. DriverShape(d)
    BY <1>0, <2>3, <2>4, InstanceAssumption
       DEF DriverShape, Driver, Owning, Persisting, Settled, Failing
  <2> QED BY <1>0, <1>3, <2>1, <2>5, <2>6, OneDriverMoves
<1> QED BY <1>1, <1>2, <1>3 DEF UnmarkDirectory

LEMMA BeginShape ==
    ASSUME Shape, NEW w \in Worker, NEW t \in TxId, Begin(w, t)
    PROVE  Registers'
<1> DEFINE mem == [phase |-> "begun", bound |-> FALSE, published |-> 0]
           d == [drv[w] EXCEPT !.tx = t, !.ops = <<>>, !.pc = "clear", !.mem = mem,
                               !.back = "mkStaging", !.sync = "transactions"]
<1>0. drv[w] \in Driver /\ DriverShape(drv[w]) /\ drv[w].pc = "begin" /\ ops[t] = <<>>
  BY OwnRegisters DEF Begin, At, Unused
<1>1. CASE Return(w, "revision_conflict") /\ ops' = ops
  BY <1>1, ReturnShape DEF Code, Reason
<1>2. CASE /\ ops' = [ops EXCEPT ![t] = drv[w].ops]
           /\ drv' = [drv EXCEPT ![w].tx = t, ![w].ops = <<>>, ![w].pc = "clear",
                                 ![w].mem = mem, ![w].back = "mkStaging",
                                 ![w].sync = "transactions"]
           /\ answer' = answer
  <2>1. drv' = [drv EXCEPT ![w] = d]
    BY <1>2 DEF Shape, Registers
  <2>2. mem \in Progress
    BY BoundAssumption DEF Progress, Phase
  <2>3. "clear" \in PC /\ "mkStaging" \in PC
    BY DEF PC
  <2> HIDE DEF mem
  <2>4. d \in Driver
    <3>1. <<>> \in Seq(Operation)
      OBVIOUS
    <3> QED BY <1>0, <2>2, <2>3, <3>1 DEF Driver
  <2>5. PICK e \in Driver : /\ drv' = [drv EXCEPT ![w] = e] /\ e.tx = t /\ e.pc = "clear"
                            /\ e.mem \in Progress /\ e.back = "mkStaging" /\ e.sync = "transactions"
    BY <1>0, <2>1, <2>2, <2>4 DEF Driver
  <2>6. ASSUME NEW u \in Worker, u # w PROVE DriverShape(drv[u])'
    <3>1. drv'[u] = drv[u] /\ drv[u] \in Driver /\ DriverShape(drv[u])
      BY <2>1, <2>6, OwnRegisters DEF Shape, Registers
    <3>2. drv[u].pc \in {"fill", "apply", "verify", "recheck"} => drv[u].idx <= Len(ops'[drv[u].tx])
      <4>1. drv[u].idx \in 1 .. MaxOps + 1
        BY <3>1 DEF Driver
      <4>2. drv[u].tx = t => ~(drv[u].idx <= Len(ops[drv[u].tx]))
        BY <1>0, <4>1, BoundAssumption
      <4>3. drv[u].tx # t => ops'[drv[u].tx] = ops[drv[u].tx]
        BY <1>2 DEF Shape, Files
      <4> QED BY <3>1, <4>2, <4>3 DEF DriverShape
    <3> QED BY <3>1, <3>2 DEF DriverShape
  <2>7. ASSUME NEW u \in Worker, u = w PROVE DriverShape(drv[u])'
    <3>1. drv'[u] = e
      BY <2>5, <2>7 DEF Shape, Registers
    <3> QED BY <2>5, <3>1, InstanceAssumption DEF DriverShape, Owning, Persisting, Settled, Failing
  <2>8. drv' \in [Worker -> Driver] /\ answer' \in [Worker -> [code : Code, tx : TxId \cup {NoTx}]]
    <3>1. answer \in [Worker -> [code : Code, tx : TxId \cup {NoTx}]] /\ drv \in [Worker -> Driver]
      BY DEF Shape, Registers
    <3>2. answer' = answer
      BY <1>2
    <3>3. drv' \in [Worker -> Driver]
      BY <2>5, <3>1
    <3> QED BY <3>1, <3>2, <3>3
  <2> QED BY <2>6, <2>7, <2>8 DEF Registers
<1> QED BY <1>1, <1>2 DEF Begin

\* A driver goes on and synchronises a directory of its transaction.
LEMMA GotoSyncShape ==
    ASSUME Shape, NEW w \in Worker, NEW pc \in PC, NEW s \in {"none", "root", "staging", "parent"},
           NEW idx \in 1 .. MaxOps + 1,
           drv' = [drv EXCEPT ![w].pc = pc, ![w].idx = idx, ![w].sync = s],
           drv[w].tx \in TxId, s = "parent" => pc = "verify",
           DriverShape([drv[w] EXCEPT !.pc = pc, !.idx = idx, !.sync = "none"]),
           ops' = ops, answer' = answer
    PROVE  Registers'
<1> DEFINE d == [drv[w] EXCEPT !.pc = pc, !.idx = idx, !.sync = s]
<1>1. drv' = [drv EXCEPT ![w] = d]
  BY DEF Shape, Registers
<1>2. drv[w] \in Driver
  BY OwnRegisters
<1>3. d \in Driver
  BY <1>2 DEF Driver
<1>4. DriverShape(d)
  BY <1>2 DEF DriverShape, Driver
<1> QED BY <1>1, <1>3, <1>4, OneDriverMoves

LEMMA ClearNextShape ==
    ASSUME Shape, NEW w \in Worker, ClearNext(w)
    PROVE  Registers'
<1>0. /\ drv[w] \in Driver /\ DriverShape(drv[w]) /\ drv[w].pc = "clear" /\ drv[w].sync = "none"
      /\ drv[w].tx \in TxId /\ ops' = ops /\ answer' = answer
  BY OwnRegisters DEF ClearNext, At, DriverShape, Owning, Persisting
<1>1. "write" \in PC /\ drv[w].idx \in 1 .. MaxOps + 1
  BY <1>0 DEF PC, Driver
<1>2. CASE drv' = [drv EXCEPT ![w].pc = "write", ![w].sync = "root"]
  <2>1. drv' = [drv EXCEPT ![w].pc = "write", ![w].idx = drv[w].idx, ![w].sync = "root"]
    BY <1>0, <1>2 DEF Shape, Registers, Driver
  <2>2. DriverShape([drv[w] EXCEPT !.pc = "write", !.idx = drv[w].idx, !.sync = "none"])
    BY <1>0 DEF DriverShape, Driver, Owning, Persisting, Settled, Failing
  <2> QED BY <1>0, <1>1, <2>1, <2>2, GotoSyncShape
<1>3. CASE Goto(w, "write")
  <2>1. DriverShape([drv[w] EXCEPT !.pc = "write"])
    BY <1>0 DEF DriverShape, Driver, Owning, Persisting, Settled, Failing
  <2> QED BY <1>0, <1>1, <1>3, <2>1, GotoShape
<1> QED BY <1>2, <1>3 DEF ClearNext

LEMMA WriteNextShape ==
    ASSUME Shape, NEW w \in Worker, WriteNext(w)
    PROVE  Registers'
<1>0. /\ drv[w] \in Driver /\ DriverShape(drv[w]) /\ drv[w].pc = "write" /\ drv[w].sync = "none"
      /\ drv[w].tx \in TxId /\ ops' = ops /\ answer' = answer
  BY OwnRegisters DEF WriteNext, At, DriverShape, Owning, Persisting
<1>1. CASE Goto(w, "rename")
  <2>1. "rename" \in PC
    BY DEF PC
  <2>2. DriverShape([drv[w] EXCEPT !.pc = "rename"])
    BY <1>0 DEF DriverShape, Driver, Owning, Persisting, Settled, Failing
  <2> QED BY <1>0, <1>1, <2>1, <2>2, GotoShape
<1>2. CASE Fail(w, "raw")
  BY <1>0, <1>2, FailShape
<1> QED BY <1>1, <1>2 DEF WriteNext

LEMMA RenameNextShape ==
    ASSUME Shape, NEW w \in Worker, RenameNext(w)
    PROVE  Registers'
<1>0. /\ drv[w] \in Driver /\ DriverShape(drv[w]) /\ drv[w].pc = "rename" /\ drv[w].sync = "none"
      /\ drv[w].tx \in TxId /\ drv[w].mem \in Progress /\ ops' = ops /\ answer' = answer
      /\ drv[w].back \in {"mkStaging", "authorize", "publish", "decide", "cleanup"}
  BY OwnRegisters DEF RenameNext, At, DriverShape, Owning, Persisting
<1>1. drv[w].back \in PC /\ drv[w].idx \in 1 .. MaxOps + 1
  BY <1>0 DEF Driver
<1>2. CASE drv' = [drv EXCEPT ![w].pc = drv[w].back, ![w].sync = "root"]
  <2>1. drv' = [drv EXCEPT ![w].pc = drv[w].back, ![w].idx = drv[w].idx, ![w].sync = "root"]
    BY <1>0, <1>2 DEF Shape, Registers, Driver
  <2>2. DriverShape([drv[w] EXCEPT !.pc = drv[w].back, !.idx = drv[w].idx, !.sync = "none"])
    BY <1>0 DEF DriverShape, Driver, Owning, Persisting, Settled, Failing
  <2> QED BY <1>0, <1>1, <2>1, <2>2, GotoSyncShape
<1>3. CASE Fail(w, "raw")
  BY <1>0, <1>3, FailShape
<1> QED BY <1>2, <1>3 DEF RenameNext, ProgressSync

LEMMA MakeStagingShape ==
    ASSUME Shape, NEW w \in Worker, MakeStaging(w)
    PROVE  Registers'
<1>0. /\ drv[w] \in Driver /\ DriverShape(drv[w]) /\ drv[w].pc = "mkStaging" /\ drv[w].sync = "none"
      /\ drv[w].tx \in TxId /\ ops' = ops /\ answer' = answer
  BY OwnRegisters DEF MakeStaging, At, DriverShape, Owning, Settled
<1>1. "stage" \in PC /\ drv[w].idx \in 1 .. MaxOps + 1
  BY <1>0 DEF PC, Driver
<1>2. CASE drv' = [drv EXCEPT ![w].pc = "stage", ![w].sync = "root"]
  <2>1. drv' = [drv EXCEPT ![w].pc = "stage", ![w].idx = drv[w].idx, ![w].sync = "root"]
    BY <1>0, <1>2 DEF Shape, Registers, Driver
  <2>2. DriverShape([drv[w] EXCEPT !.pc = "stage", !.idx = drv[w].idx, !.sync = "none"])
    BY <1>0 DEF DriverShape, Driver, Owning, Persisting, Settled, Failing
  <2> QED BY <1>0, <1>1, <2>1, <2>2, GotoSyncShape
<1>3. CASE Fail(w, "raw")
  BY <1>0, <1>3, FailShape
<1> QED BY <1>2, <1>3 DEF MakeStaging

LEMMA StageShape ==
    ASSUME Shape, NEW w \in Worker, Stage(w)
    PROVE  Registers'
<1>0. /\ drv[w] \in Driver /\ DriverShape(drv[w]) /\ drv[w].pc = "stage" /\ drv[w].sync = "none"
      /\ drv[w].tx \in TxId /\ ops' = ops /\ answer' = answer
  BY OwnRegisters DEF Stage, At, DriverShape, Owning, Settled
<1>1. drv[w].idx \in 1 .. MaxOps + 1 /\ Len(ops[drv[w].tx]) \in 0 .. MaxOps
  BY <1>0, OwnManifest DEF Driver, Shape
<1>2. CASE Goto(w, "manifest")
  <2>1. "manifest" \in PC
    BY DEF PC
  <2>2. DriverShape([drv[w] EXCEPT !.pc = "manifest"])
    BY <1>0 DEF DriverShape, Driver, Owning, Persisting, Settled, Failing
  <2> QED BY <1>0, <1>2, <2>1, <2>2, GotoShape
<1>3. CASE ~(drv[w].idx > LastOp(w)) /\ drv' = [drv EXCEPT ![w].idx = drv[w].idx + 1]
  <2>1. drv' = [drv EXCEPT ![w].pc = "stage", ![w].idx = drv[w].idx + 1, ![w].sync = "none"]
    BY <1>0, <1>3 DEF Shape, Registers, Driver
  <2>2. drv[w].idx + 1 \in 1 .. MaxOps + 1
    BY <1>1, <1>3, BoundAssumption DEF LastOp
  <2>3. DriverShape([drv[w] EXCEPT !.pc = "stage", !.idx = drv[w].idx + 1, !.sync = "none"])
    BY <1>0 DEF DriverShape, Driver, Owning, Persisting, Settled, Failing
  <2>4. "stage" \in PC
    BY DEF PC
  <2> QED BY <1>0, <2>1, <2>2, <2>3, <2>4, GotoSyncShape
<1>4. CASE ~(drv[w].idx > LastOp(w)) /\ Goto(w, "fill")
  <2>1. "fill" \in PC
    BY DEF PC
  <2>2. drv[w].idx <= Len(ops[drv[w].tx])
    BY <1>1, <1>4 DEF LastOp
  <2>3. DriverShape([drv[w] EXCEPT !.pc = "fill"])
    BY <1>0, <2>2 DEF DriverShape, Driver, Owning, Persisting, Settled, Failing
  <2> QED BY <1>0, <1>4, <2>1, <2>3, GotoShape
<1>5. CASE Fail(w, "raw")
  BY <1>0, <1>5, FailShape
<1> QED BY <1>2, <1>3, <1>4, <1>5 DEF Stage

LEMMA FillPayloadShape ==
    ASSUME Shape, NEW w \in Worker, FillPayload(w)
    PROVE  Registers'
<1>0. /\ drv[w] \in Driver /\ DriverShape(drv[w]) /\ drv[w].pc = "fill" /\ drv[w].sync = "none"
      /\ drv[w].tx \in TxId /\ drv[w].idx <= Len(ops[drv[w].tx]) /\ ops' = ops /\ answer' = answer
  BY OwnRegisters DEF FillPayload, At, DriverShape, Owning, Settled
<1>1. drv[w].idx \in 1 .. MaxOps + 1 /\ Len(ops[drv[w].tx]) \in 0 .. MaxOps
  BY <1>0, OwnManifest DEF Driver, Shape
<1>2. CASE drv' = [drv EXCEPT ![w].pc = "stage", ![w].idx = drv[w].idx + 1, ![w].sync = "staging"]
  <2>1. drv[w].idx + 1 \in 1 .. MaxOps + 1
    BY <1>0, <1>1, BoundAssumption
  <2>2. DriverShape([drv[w] EXCEPT !.pc = "stage", !.idx = drv[w].idx + 1, !.sync = "none"])
    BY <1>0 DEF DriverShape, Driver, Owning, Persisting, Settled, Failing
  <2>3. "stage" \in PC
    BY DEF PC
  <2> QED BY <1>0, <1>2, <2>1, <2>2, <2>3, GotoSyncShape
<1>3. CASE Fail(w, "state_corrupt")
  BY <1>0, <1>3, FailShape DEF Reason
<1> QED BY <1>2, <1>3 DEF FillPayload, StagingSync

LEMMA WriteManifestShape ==
    ASSUME Shape, NEW w \in Worker, WriteManifest(w)
    PROVE  Registers'
<1>0. /\ drv[w] \in Driver /\ DriverShape(drv[w]) /\ drv[w].pc = "manifest" /\ drv[w].sync = "none"
      /\ drv[w].tx \in TxId /\ ops' = ops /\ answer' = answer
  BY OwnRegisters DEF WriteManifest, At, DriverShape, Owning, Settled
<1>1. CASE Goto(w, "fillManifest")
  <2>1. "fillManifest" \in PC
    BY DEF PC
  <2>2. DriverShape([drv[w] EXCEPT !.pc = "fillManifest"])
    BY <1>0 DEF DriverShape, Driver, Owning, Persisting, Settled, Failing
  <2> QED BY <1>0, <1>1, <2>1, <2>2, GotoShape
<1>2. CASE Fail(w, "raw")
  BY <1>0, <1>2, FailShape
<1> QED BY <1>1, <1>2 DEF WriteManifest

LEMMA FillManifestShape ==
    ASSUME Shape, NEW w \in Worker, FillManifest(w)
    PROVE  Registers'
<1>0. /\ drv[w] \in Driver /\ DriverShape(drv[w])
      /\ drv[w].pc = "fillManifest" /\ drv[w].sync = "none"
      /\ drv[w].tx \in TxId /\ ops' = ops /\ answer' = answer
  BY OwnRegisters DEF FillManifest, At, DriverShape, Owning, Settled
<1>1. "precheck" \in PC /\ drv[w].idx \in 1 .. MaxOps + 1
  BY <1>0 DEF PC, Driver
<1>2. drv' = [drv EXCEPT ![w].pc = "precheck", ![w].idx = drv[w].idx, ![w].sync = "root"]
  BY <1>0 DEF FillManifest, Shape, Registers, Driver
<1>3. DriverShape([drv[w] EXCEPT !.pc = "precheck", !.idx = drv[w].idx, !.sync = "none"])
  BY <1>0 DEF DriverShape, Driver, Owning, Persisting, Settled, Failing
<1> QED BY <1>0, <1>1, <1>2, <1>3, GotoSyncShape

LEMMA ApplyShape ==
    ASSUME Shape, NEW w \in Worker, Apply(w)
    PROVE  Registers'
<1>0. /\ drv[w] \in Driver /\ DriverShape(drv[w]) /\ drv[w].pc = "apply" /\ drv[w].sync = "none"
      /\ drv[w].tx \in TxId /\ ops' = ops /\ answer' = answer
  BY OwnRegisters DEF Apply, At, DriverShape, Owning, Settled
<1>1. "verify" \in PC /\ drv[w].idx \in 1 .. MaxOps + 1
  BY <1>0 DEF PC, Driver
<1>2. CASE drv' = [drv EXCEPT ![w].pc = "verify", ![w].sync = "parent"]
  <2>1. drv' = [drv EXCEPT ![w].pc = "verify", ![w].idx = drv[w].idx, ![w].sync = "parent"]
    BY <1>0, <1>2 DEF Shape, Registers, Driver
  <2>2. DriverShape([drv[w] EXCEPT !.pc = "verify", !.idx = drv[w].idx, !.sync = "none"])
    BY <1>0 DEF DriverShape, Driver, Owning, Persisting, Settled, Failing
  <2> QED BY <1>0, <1>1, <2>1, <2>2, GotoSyncShape
<1>3. CASE Fail(w, "raw")
  BY <1>0, <1>3, FailShape
<1> QED BY <1>2, <1>3 DEF Apply, PublishSync

\* Nobody's registers change.
LEMMA NobodyMoves ==
    ASSUME Shape, drv' = drv, ops' = ops, answer' = answer
    PROVE  Registers'
BY DEF Shape, Registers, DriverShape

LEMMA CleanupStepShape ==
    ASSUME Shape, NEW w \in Worker, CleanupStep(w)
    PROVE  Registers'
<1>0. /\ drv[w] \in Driver /\ DriverShape(drv[w]) /\ drv[w].pc = "cleanup" /\ drv[w].sync = "none"
      /\ drv[w].tx \in TxId /\ ops' = ops /\ answer' = answer
  BY OwnRegisters DEF CleanupStep, At, DriverShape, Owning, Settled
<1>1. CASE drv' = drv
  BY <1>0, <1>1, NobodyMoves
<1>2. ASSUME NEW pc \in {"decide", "finish"}, drv' = [drv EXCEPT ![w].pc = pc, ![w].sync = "root"]
      PROVE  Registers'
  <2>1. drv' = [drv EXCEPT ![w].pc = pc, ![w].idx = drv[w].idx, ![w].sync = "root"]
    BY <1>0, <1>2 DEF Shape, Registers, Driver
  <2>2. DriverShape([drv[w] EXCEPT !.pc = pc, !.idx = drv[w].idx, !.sync = "none"])
    BY <1>0 DEF DriverShape, Driver, Owning, Persisting, Settled, Failing
  <2>3. pc \in PC /\ drv[w].idx \in 1 .. MaxOps + 1
    BY <1>0 DEF PC, Driver
  <2> QED BY <1>0, <2>1, <2>2, <2>3, GotoSyncShape
<1> QED BY <1>1, <1>2 DEF CleanupStep

LEMMA CrashShape ==
    ASSUME Shape, NEW w \in Worker, Crash(w)
    PROVE  Registers'
BY IdleShape, OneDriverMoves DEF Crash

LEMMA FaultShape ==
    ASSUME Shape, NEW w \in Worker, Fault(w)
    PROVE  Registers'
<1>0. drv[w] \in Driver /\ ops' = ops
  BY OwnRegisters DEF Fault
<1>1. ASSUME NEW code \in Code, Return(w, code)
      PROVE  Registers'
  BY <1>0, <1>1, ReturnShape
<1>2. CASE drv[w].tx # NoTx /\ Fail(w, "raw") /\ answer' = answer
  <2>1. drv[w].tx \in TxId
    BY <1>0, <1>2 DEF Driver
  <2> QED BY <1>0, <1>2, <2>1, FailShape
<1>3. "internal_failure" \in Code /\ ProjectVerdict \in Code /\ Unclassified(w) \in Code
  <2>1. drv[w].why \in Reason \cup {"none", "raw"}
    BY <1>0 DEF Driver
  <2> QED BY <2>1 DEF ProjectVerdict, Unclassified, Code, Reason
<1> QED BY <1>1, <1>2, <1>3 DEF Fault

LEMMA PowerLossShape ==
    ASSUME Shape, PowerLoss
    PROVE  Registers'
<1>1. drv' = [w \in Worker |-> Idle] /\ ops' = ops /\ answer' = answer
  BY DEF PowerLoss
<1>2. ASSUME NEW u \in Worker PROVE DriverShape(drv[u])'
  BY <1>1, IdleShape DEF DriverShape
<1> QED BY <1>1, <1>2, IdleShape DEF Shape, Registers

-----------------------------------------------------------------------------
(* Files: what each action leaves on the file system.                      *)

\* The files of one journal change, and nothing else.
LEMMA OneJournalChanges ==
    ASSUME Files, NEW t \in TxId, NEW j \in Journal, jn' = [jn EXCEPT ![t] = j],
           UNCHANGED <<dest, disk, ops, applied, budget>>
    PROVE  Files'
BY DEF Files

LEMMA NoFileChanges ==
    ASSUME Files, UNCHANGED <<dest, jn, disk, ops, applied, budget>>
    PROVE  Files'
BY DEF Files

LEMMA JournalFields ==
    ASSUME NEW j \in Journal
    PROVE  /\ j.pay \in [1 .. MaxOps -> FileState]
           /\ \A r \in BOOLEAN : [j EXCEPT !.root = r] \in Journal /\ [j EXCEPT !.staging = r] \in Journal
           /\ \A p \in Progress \cup {NoProgress} : [j EXCEPT !.next = p] \in Journal
           /\ [j EXCEPT !.prog = j.next, !.next = NoProgress] \in Journal
           /\ \A f \in FileState : [j EXCEPT !.man = f] \in Journal
           /\ \A i, f : f \in FileState => [j EXCEPT !.pay[i] = f] \in Journal
           /\ \A pay \in [1 .. MaxOps -> FileState] : [j EXCEPT !.pay = pay] \in Journal
BY DEF Journal

LEMMA EmptyJournal == NoJournal \in Journal
BY DEF NoJournal, Journal, NoPayloads, FileState

LEMMA PreflightFiles ==
    ASSUME Shape, NEW w \in Worker, UnmarkNext(w) \/ UnmarkDirectory(w)
    PROVE  Files'
<1> DEFINE t == drv[w].tgt
<1>1. t \in TxId /\ jn[t] \in Journal /\ Files
  BY OwnRegisters DEF Shape, Files, UnmarkNext, UnmarkDirectory, At, DriverShape
<1>2. \/ jn' = jn
      \/ jn' = [jn EXCEPT ![t] = [jn[t] EXCEPT !.next = NoProgress]]
      \/ jn' = [jn EXCEPT ![t] = NoJournal]
  <2>1. CASE UnmarkNext(w)
    BY <1>1, <2>1 DEF UnmarkNext, Files
  <2>2. CASE UnmarkDirectory(w)
    BY <2>2 DEF UnmarkDirectory
  <2> QED BY <2>1, <2>2
<1>3. UNCHANGED <<dest, disk, ops, applied, budget>>
  <2>1. CASE UnmarkNext(w)
    BY <2>1 DEF UnmarkNext
  <2>2. CASE UnmarkDirectory(w)
    BY <2>2 DEF UnmarkDirectory
  <2> QED BY <2>1, <2>2
<1>4. [jn[t] EXCEPT !.next = NoProgress] \in Journal /\ NoJournal \in Journal
  BY <1>1, JournalFields, EmptyJournal
<1> QED BY <1>1, <1>2, <1>3, <1>4, OneJournalChanges, NoFileChanges

LEMMA BeginFiles ==
    ASSUME Shape, NEW w \in Worker, NEW t \in TxId, Begin(w, t)
    PROVE  Files'
<1>1. jn' = jn \/ jn' = [jn EXCEPT ![t] = [jn[t] EXCEPT !.root = TRUE]]
  BY DEF Begin, Shape, Files
<1>2. jn' \in [TxId -> Journal]
  <2>1. [jn[t] EXCEPT !.root = TRUE] \in Journal
    BY JournalFields DEF Shape, Files
  <2> QED BY <1>1, <2>1 DEF Shape, Files
<1>3. ops' \in [TxId -> Manifest]
  <2>1. drv[w].ops \in Manifest
    BY OwnRegisters DEF Begin, At, DriverShape, ValidPlan, Manifest
  <2> QED BY <2>1 DEF Begin, Shape, Files
<1> QED BY <1>2, <1>3 DEF Begin, Shape, Files

LEMMA JournalActionFiles ==
    ASSUME Shape, NEW w \in Worker,
           \/ ClearNext(w) \/ WriteNext(w) \/ RenameNext(w) \/ MakeStaging(w) \/ Stage(w)
           \/ FillPayload(w) \/ WriteManifest(w) \/ FillManifest(w) \/ CleanupStep(w)
    PROVE  Files'
<1> DEFINE t == drv[w].tx
           j == jn[t]
<1>0. /\ drv[w] \in Driver /\ t \in TxId /\ j \in Journal /\ Files
      /\ jn \in [TxId -> Journal] /\ UNCHANGED <<dest, disk, ops, applied, budget>>
  BY OwnRegisters DEF Shape, Files, DriverShape, Owning, Persisting, Settled, At, ClearNext,
     WriteNext, RenameNext, MakeStaging, Stage, FillPayload, WriteManifest, FillManifest, CleanupStep
<1>1. ASSUME NEW k \in Journal, jn' = [jn EXCEPT ![t] = k] PROVE Files'
  BY <1>0, <1>1, OneJournalChanges
<1>2. CASE jn' = jn
  BY <1>0, <1>2, NoFileChanges
<1>3. CASE ClearNext(w) \/ WriteNext(w) \/ RenameNext(w)
  <2>1. CASE ClearNext(w)
    <3>1. jn' = jn \/ jn' = [jn EXCEPT ![t] = [j EXCEPT !.next = NoProgress]]
      BY <1>0, <2>1 DEF ClearNext
    <3>2. [j EXCEPT !.next = NoProgress] \in Journal
      BY <1>0, JournalFields
    <3> QED BY <1>1, <1>2, <3>1, <3>2
  <2>2. CASE WriteNext(w)
    <3>1. jn' = jn \/ jn' = [jn EXCEPT ![t] = [j EXCEPT !.next = drv[w].mem]]
      BY <1>0, <2>2 DEF WriteNext
    <3>2. [j EXCEPT !.next = drv[w].mem] \in Journal
      BY <1>0, JournalFields DEF Driver
    <3> QED BY <1>1, <1>2, <3>1, <3>2
  <2>3. CASE RenameNext(w)
    <3>1. jn' = jn \/ jn' = [jn EXCEPT ![t] = [j EXCEPT !.prog = j.next, !.next = NoProgress]]
      BY <1>0, <2>3 DEF RenameNext
    <3>2. [j EXCEPT !.prog = j.next, !.next = NoProgress] \in Journal
      BY <1>0, JournalFields
    <3> QED BY <1>1, <1>2, <3>1, <3>2
  <2> QED BY <1>3, <2>1, <2>2, <2>3
<1>4. CASE MakeStaging(w) \/ Stage(w) \/ FillPayload(w)
  <2>1. CASE MakeStaging(w)
    <3>1. jn' = jn \/ jn' = [jn EXCEPT ![t] = [j EXCEPT !.staging = TRUE]]
      BY <1>0, <2>1 DEF MakeStaging
    <3>2. [j EXCEPT !.staging = TRUE] \in Journal
      BY <1>0, JournalFields
    <3> QED BY <1>1, <1>2, <3>1, <3>2
  <2>2. CASE Stage(w)
    <3>1. jn' = jn \/ jn' = [jn EXCEPT ![t] = [j EXCEPT !.pay[drv[w].idx] = "torn"]]
      BY <1>0, <2>2 DEF Stage
    <3>2. [j EXCEPT !.pay[drv[w].idx] = "torn"] \in Journal
      BY <1>0, JournalFields DEF FileState
    <3> QED BY <1>1, <1>2, <3>1, <3>2
  <2>3. CASE FillPayload(w)
    <3>1. jn' = jn \/ jn' = [jn EXCEPT ![t] = [j EXCEPT !.pay[drv[w].idx] = "full"]]
      BY <1>0, <2>3 DEF FillPayload
    <3>2. [j EXCEPT !.pay[drv[w].idx] = "full"] \in Journal
      BY <1>0, JournalFields DEF FileState
    <3> QED BY <1>1, <1>2, <3>1, <3>2
  <2> QED BY <1>4, <2>1, <2>2, <2>3
<1>5. CASE WriteManifest(w) \/ FillManifest(w)
  <2>1. CASE WriteManifest(w)
    <3>1. jn' = jn \/ jn' = [jn EXCEPT ![t] = [j EXCEPT !.man = "torn"]]
      BY <1>0, <2>1 DEF WriteManifest
    <3>2. [j EXCEPT !.man = "torn"] \in Journal
      BY <1>0, JournalFields DEF FileState
    <3> QED BY <1>1, <1>2, <3>1, <3>2
  <2>2. CASE FillManifest(w)
    <3> DEFINE man == IF j.man = "torn" THEN "full" ELSE j.man
    <3>1. jn' = [jn EXCEPT ![t] = [j EXCEPT !.man = man]]
      BY <1>0, <2>2 DEF FillManifest
    <3>2. man \in FileState
      BY <1>0 DEF Journal, FileState
    <3>3. [j EXCEPT !.man = man] \in Journal
      BY <1>0, <3>2, JournalFields
    <3> QED BY <1>1, <3>1, <3>3
  <2> QED BY <1>5, <2>1, <2>2
<1>6. CASE CleanupStep(w)
  <2> DEFINE left == {i \in 1 .. MaxOps : jn[t].pay[i] # "missing"}
             first == CHOOSE i \in left : \A k \in left : i <= k
  <2>1. \/ jn' = jn
        \/ jn' = [jn EXCEPT ![t] = [j EXCEPT !.pay[first] = "missing"]]
        \/ jn' = [jn EXCEPT ![t] = [j EXCEPT !.staging = FALSE]]
        \/ jn' = [jn EXCEPT ![t] = [j EXCEPT !.next = NoProgress]]
        \/ jn' = [jn EXCEPT ![t] = [j EXCEPT !.man = "missing"]]
    BY <1>0, <1>6 DEF CleanupStep
  <2> HIDE DEF first, left
  <2>2. /\ [j EXCEPT !.pay[first] = "missing"] \in Journal
        /\ [j EXCEPT !.staging = FALSE] \in Journal
        /\ [j EXCEPT !.next = NoProgress] \in Journal
        /\ [j EXCEPT !.man = "missing"] \in Journal
    BY <1>0, JournalFields DEF FileState
  <2> QED BY <1>1, <1>2, <2>1, <2>2
<1> QED BY <1>3, <1>4, <1>5, <1>6

LEMMA ApplyFiles ==
    ASSUME Shape, NEW w \in Worker, Apply(w)
    PROVE  Files'
<1> DEFINE t == drv[w].tx
           i == drv[w].idx
<1>0. /\ t \in TxId /\ i \in 1 .. Len(ops[t]) /\ Files /\ jn[t] \in Journal
      /\ UNCHANGED <<disk, ops, budget>>
  <2>1. drv[w] \in Driver /\ DriverShape(drv[w]) /\ drv[w].pc = "apply"
    BY OwnRegisters DEF Apply, At
  <2>2. t \in TxId /\ i <= Len(ops[t]) /\ i \in 1 .. MaxOps + 1
    BY <2>1 DEF DriverShape, Owning, Settled, Driver
  <2>3. Len(ops[t]) \in 0 .. MaxOps
    BY <2>2, OwnManifest DEF Shape
  <2> QED BY <2>2, <2>3, BoundAssumption DEF Apply, Shape, Files
<1>1. Op(w).path \in Path /\ Op(w).result \in Fingerprint /\ i \in 1 .. MaxOps
  <2>1. ops[t] \in Seq(Operation) /\ Len(ops[t]) \in 0 .. MaxOps
    BY <1>0, OwnManifest
  <2>2. ops[t][i] \in Operation
    BY <1>0, <2>1
  <2> QED BY <1>0, <2>1, <2>2, BoundAssumption DEF Op, Operation
<1>2. CASE UNCHANGED <<dest, jn, applied>>
  BY <1>0, <1>2 DEF Files
<1>3. CASE /\ dest' = [dest EXCEPT ![Op(w).path] = Op(w).result]
           /\ jn' = [jn EXCEPT ![t].pay[i] = "missing"]
           /\ applied' = [applied EXCEPT ![t] = @ \cup {i}]
  <2>1. jn' = [jn EXCEPT ![t] = [jn[t] EXCEPT !.pay[i] = "missing"]]
    BY <1>0, <1>3 DEF Files
  <2>2. [jn[t] EXCEPT !.pay[i] = "missing"] \in Journal
    BY <1>0, JournalFields DEF FileState
  <2>3. jn' \in [TxId -> Journal]
    BY <1>0, <2>1, <2>2 DEF Files
  <2>4. applied' \in [TxId -> SUBSET (1 .. MaxOps)]
    BY <1>0, <1>1, <1>3 DEF Files
  <2>5. dest' \in [Path -> Fingerprint]
    BY <1>0, <1>1, <1>3 DEF Files
  <2> QED BY <1>0, <2>3, <2>4, <2>5 DEF Files
<1> QED BY <1>2, <1>3 DEF Apply

LEMMA SyncFiles ==
    ASSUME Shape, NEW w \in Worker, Sync(w)
    PROVE  Files'
<1> DEFINE t == drv[w].tx
<1>0. Files /\ UNCHANGED <<dest, jn, ops, applied, budget>> /\ drv[w] \in Driver /\ DriverShape(drv[w])
  BY OwnRegisters DEF Sync, Shape
<1>1. \A u \in TxId : jn[u] \in Journal /\ disk.jn[u] \in Journal
  BY <1>0 DEF Files
<1> DEFINE Disk == [dest : [Path -> Fingerprint], jn : [TxId -> Journal],
                    applied : [TxId -> SUBSET (1 .. MaxOps)]]
<1>2. disk \in Disk
  BY <1>0 DEF Files
<1>3. ASSUME NEW k \in Journal, t \in TxId PROVE [disk EXCEPT !.jn[t] = k] \in Disk
  BY <1>2
<1>4. SyncTransactions \in Disk
  <2> DEFINE f == [u \in TxId |-> IF jn[u].root THEN [disk.jn[u] EXCEPT !.root = TRUE] ELSE NoJournal]
  <2>1. ASSUME NEW u \in TxId PROVE f[u] \in Journal
    <3>1. [disk.jn[u] EXCEPT !.root = TRUE] \in Journal
      BY <1>1, JournalFields
    <3> QED BY <3>1, EmptyJournal
  <2>2. f \in [TxId -> Journal]
    BY <2>1
  <2> HIDE DEF f
  <2>3. [disk EXCEPT !.jn = f] \in Disk
    BY <1>2, <2>2
  <2> QED BY <2>3 DEF SyncTransactions, f
<1>5. t \in TxId => SyncRoot(t) \in Disk
  <2> SUFFICES ASSUME t \in TxId PROVE SyncRoot(t) \in Disk
    OBVIOUS
  <2> DEFINE pay == IF jn[t].staging THEN disk.jn[t].pay ELSE jn[t].pay
             k == [jn[t] EXCEPT !.root = disk.jn[t].root, !.pay = pay]
  <2>1. jn[t] \in Journal /\ disk.jn[t].root \in BOOLEAN /\ pay \in [1 .. MaxOps -> FileState]
    BY <1>1 DEF Journal
  <2>2. SyncRoot(t) = [disk EXCEPT !.jn[t] = k]
    BY <1>1 DEF SyncRoot, Journal
  <2> HIDE DEF pay
  <2>3. k \in Journal
    BY <2>1 DEF Journal
  <2> HIDE DEF k
  <2> QED BY <1>3, <2>2, <2>3
<1>6. t \in TxId => SyncStaging(t) \in Disk
  <2> SUFFICES ASSUME t \in TxId PROVE SyncStaging(t) \in Disk
    OBVIOUS
  <2> DEFINE k == [disk.jn[t] EXCEPT !.pay = jn[t].pay]
  <2>1. k \in Journal
    BY <1>1, JournalFields
  <2>2. SyncStaging(t) = [disk EXCEPT !.jn[t] = k]
    BY <1>2 DEF SyncStaging
  <2> HIDE DEF k
  <2> QED BY <1>3, <2>1, <2>2
<1>7. \A p : SyncParent(p) \in Disk
  <2> TAKE p
  <2> DEFINE now(u) == {i \in applied[u] : ops[u][i].path \in Siblings(p)}
             a == [q \in Path |-> IF q \in Siblings(p) THEN dest[q] ELSE disk.dest[q]]
             b == [u \in TxId |-> disk.applied[u] \cup now(u)]
             pay(u) == [i \in 1 .. MaxOps |-> IF i \in now(u) THEN "missing" ELSE disk.jn[u].pay[i]]
             c == [u \in TxId |-> [disk.jn[u] EXCEPT !.pay = pay(u)]]
  <2>1. a \in [Path -> Fingerprint]
    BY <1>0, <1>2 DEF Files
  <2>2. b \in [TxId -> SUBSET (1 .. MaxOps)]
    BY <1>0, <1>2 DEF Files
  <2>3. ASSUME NEW u \in TxId PROVE [disk.jn[u] EXCEPT !.pay = pay(u)] \in Journal
    <3>1. pay(u) \in [1 .. MaxOps -> FileState]
      BY <1>1 DEF Journal, FileState
    <3> HIDE DEF pay
    <3> QED BY <1>1, <3>1, JournalFields
  <2>4. c \in [TxId -> Journal]
    BY <2>3
  <2>5. SyncParent(p) = [dest |-> a, applied |-> b, jn |-> c]
    BY DEF SyncParent
  <2> HIDE DEF a, b, c
  <2> QED BY <2>1, <2>2, <2>4, <2>5
<1>8. disk' \in Disk
  <2>1. drv[w].sync \in {"root", "staging"} => t \in TxId
    BY <1>0 DEF DriverShape
  <2>2. \/ disk' = disk
        \/ disk' = SyncTransactions
        \/ drv[w].sync = "root" /\ disk' = SyncRoot(t)
        \/ drv[w].sync = "staging" /\ disk' = SyncStaging(t)
        \/ disk' = SyncParent(Op(w).path)
    BY DEF Sync
  <2> HIDE DEF Disk
  <2> QED BY <1>2, <1>4, <1>5, <1>6, <1>7, <2>1, <2>2
<1> QED BY <1>0, <1>8 DEF Files

LEMMA EnvironmentFiles ==
    ASSUME Shape, (\E w \in Worker : Crash(w) \/ Fault(w)) PROVE Files'
<1>1. UNCHANGED <<dest, jn, disk, ops, applied>>
  BY DEF Crash, Fault
<1>2. budget' \in [crash : 0 .. MaxCrash, power : 0 .. MaxPower,
                   fault : 0 .. MaxFault, edits : 0 .. MaxEdits]
  BY InstanceAssumption DEF Crash, Fault, Shape, Files
<1> QED BY <1>1, <1>2 DEF Shape, Files

LEMMA EditFiles ==
    ASSUME Shape, NEW p \in Path, NEW c \in Content \cup {Missing}, Edit(p, c)
    PROVE  Files'
<1>1. c \in Fingerprint
  BY DEF Fingerprint
<1>2. budget' \in [crash : 0 .. MaxCrash, power : 0 .. MaxPower,
                   fault : 0 .. MaxFault, edits : 0 .. MaxEdits]
  BY InstanceAssumption DEF Edit, Shape, Files
<1> DEFINE b == [t \in TxId |-> disk.applied[t] \cup {i \in applied[t] : ops[t][i].path = p}]
           a == [disk.dest EXCEPT ![p] = c]
<1>3. /\ disk \in [dest : [Path -> Fingerprint], jn : [TxId -> Journal],
                   applied : [TxId -> SUBSET (1 .. MaxOps)]]
      /\ a \in [Path -> Fingerprint] /\ b \in [TxId -> SUBSET (1 .. MaxOps)]
  BY <1>1 DEF Shape, Files
<1>4. disk' = [disk EXCEPT !.dest = a, !.applied = b]
  BY DEF Edit
<1> HIDE DEF a, b
<1>5. disk' \in [dest : [Path -> Fingerprint], jn : [TxId -> Journal],
                 applied : [TxId -> SUBSET (1 .. MaxOps)]]
  BY <1>3, <1>4
<1>6. dest' \in [Path -> Fingerprint]
  BY <1>1 DEF Edit, Shape, Files
<1> QED BY <1>2, <1>5, <1>6 DEF Edit, Shape, Files

LEMMA PowerLossFiles ==
    ASSUME Shape, PowerLoss
    PROVE  Files'
<1>0. PICK J \in SUBSET TxId, D \in SUBSET Path :
         LET kept(t) == disk.applied[t] \cup {i \in applied[t] : ops[t][i].path \in D}
             base(t) == IF t \in J THEN jn[t] ELSE disk.jn[t]
             left(t) ==
               [base(t) EXCEPT !.pay = [i \in 1 .. MaxOps |->
                  CASE i \in kept(t) \/ ~base(t).staging -> "missing"
                    [] i \in applied[t] \ kept(t)        -> disk.jn[t].pay[i]
                    [] OTHER                             -> base(t).pay[i]]]
             now == [p \in Path |-> IF p \in D THEN dest[p] ELSE disk.dest[p]]
         IN  /\ dest' = now
             /\ jn' = [t \in TxId |-> IF base(t).root THEN left(t) ELSE NoJournal]
             /\ applied' = [t \in TxId |-> kept(t)]
             /\ disk' = [dest |-> dest', jn |-> jn', applied |-> applied']
  BY DEF PowerLoss
<1> DEFINE kept(t) == disk.applied[t] \cup {i \in applied[t] : ops[t][i].path \in D}
           base(t) == IF t \in J THEN jn[t] ELSE disk.jn[t]
           pay(t) == [i \in 1 .. MaxOps |->
                        CASE i \in kept(t) \/ ~base(t).staging -> "missing"
                          [] i \in applied[t] \ kept(t)        -> disk.jn[t].pay[i]
                          [] OTHER                             -> base(t).pay[i]]
<1>1. jn' = [t \in TxId |-> IF base(t).root THEN [base(t) EXCEPT !.pay = pay(t)] ELSE NoJournal]
  BY <1>0
<1>2. ASSUME NEW t \in TxId PROVE base(t) \in Journal /\ pay(t) \in [1 .. MaxOps -> FileState]
  <2>1. jn[t] \in Journal /\ disk.jn[t] \in Journal
    BY DEF Shape, Files
  <2>2. base(t) \in Journal
    BY <2>1
  <2>3. \A i \in 1 .. MaxOps : base(t).pay[i] \in FileState /\ disk.jn[t].pay[i] \in FileState
    BY <2>1, <2>2 DEF Journal
  <2> HIDE DEF base, kept
  <2>4. "missing" \in FileState
    BY DEF FileState
  <2>5. ASSUME NEW i \in 1 .. MaxOps PROVE pay(t)[i] \in FileState
    BY <2>3, <2>4
  <2>6. pay(t) \in [1 .. MaxOps -> FileState]
    BY <2>5
  <2> QED BY <2>2, <2>6
<1> HIDE DEF base, pay
<1>3. jn' \in [TxId -> Journal]
  <2>1. ASSUME NEW t \in TxId PROVE [base(t) EXCEPT !.pay = pay(t)] \in Journal
    BY <1>2, JournalFields
  <2> QED BY <1>1, <2>1, EmptyJournal
<1>4. applied' \in [TxId -> SUBSET (1 .. MaxOps)]
  <2>1. applied' = [t \in TxId |-> kept(t)]
    BY <1>0
  <2>2. ASSUME NEW t \in TxId PROVE kept(t) \subseteq 1 .. MaxOps
    BY DEF Shape, Files
  <2> HIDE DEF kept
  <2> QED BY <2>1, <2>2
<1>5. dest' \in [Path -> Fingerprint]
  <2>1. dest' = [p \in Path |-> IF p \in D THEN dest[p] ELSE disk.dest[p]]
    BY <1>0
  <2> QED BY <2>1 DEF Shape, Files
<1>6. disk' = [dest |-> dest', jn |-> jn', applied |-> applied']
  BY <1>0
<1>7. budget' \in [crash : 0 .. MaxCrash, power : 0 .. MaxPower,
                   fault : 0 .. MaxFault, edits : 0 .. MaxEdits]
  BY InstanceAssumption DEF PowerLoss, Shape, Files
<1>8. ops' = ops
  BY DEF PowerLoss
<1> QED BY <1>3, <1>4, <1>5, <1>6, <1>7, <1>8 DEF Shape, Files

-----------------------------------------------------------------------------
(* Shape is inductive.                                                     *)

LEMMA InitShape == Init => Shape
<1> SUFFICES ASSUME Init PROVE Shape
  OBVIOUS
<1>1. <<>> \in Manifest
  BY BoundAssumption DEF Manifest
<1>2. Files
  BY <1>1, EmptyJournal, InstanceAssumption DEF Init, Files
<1>3. NoAnswer \in [code : Code, tx : TxId \cup {NoTx}]
  BY DEF NoAnswer, Code
<1>4. Registers
  BY <1>3, IdleShape DEF Init, Registers
<1> QED BY <1>2, <1>4 DEF Shape

LEMMA PreflightKeepsShape ==
    ASSUME Shape, NEW w \in Worker, Preflight(w) PROVE Shape'
<1>1. CASE \E t \in TxId : ReconcileUnmarked(w, t)
  BY <1>1, ReconcileUnmarkedShape, NoFileChanges DEF ReconcileUnmarked, Shape
<1>2. CASE UnmarkNext(w) \/ UnmarkDirectory(w)
  BY <1>2, UnmarkNextShape, UnmarkDirectoryShape, PreflightFiles DEF Shape
<1>3. CASE ReconcileDone(w)
  BY <1>3, ReconcileDoneShape, NoFileChanges DEF ReconcileDone, Shape
<1>4. CASE Inspect(w)
  BY <1>4, InspectShape, NoFileChanges DEF Inspect, Shape
<1>5. CASE Observe(w)
  <2>1. UNCHANGED <<dest, jn, disk, ops, applied, budget>>
    BY <1>5 DEF Observe
  <2> QED BY <1>5, <2>1, ObserveShape, NoFileChanges DEF Shape
<1> QED BY <1>1, <1>2, <1>3, <1>4, <1>5 DEF Preflight

LEMMA DriveExecutionKeepsShape ==
    ASSUME Shape, NEW w \in Worker, DriveExecution(w) PROVE Shape'
<1>1. CASE \E t \in TxId : Begin(w, t)
  BY <1>1, BeginShape, BeginFiles DEF Shape
<1>2. CASE MakeStaging(w) \/ Stage(w) \/ FillPayload(w) \/ WriteManifest(w) \/ FillManifest(w)
  BY <1>2, MakeStagingShape, StageShape, FillPayloadShape, WriteManifestShape, FillManifestShape,
     JournalActionFiles DEF Shape
<1>3. CASE Prepare(w)
  BY <1>3, PrepareShape, NoFileChanges DEF Prepare, Shape
<1>4. CASE Authorize(w)
  BY <1>4, AuthorizeShape, NoFileChanges DEF Authorize, Shape
<1>5. CASE CheckPublishable(w)
  BY <1>5, CheckPublishableShape, NoFileChanges DEF CheckPublishable, Shape
<1>6. CASE Commit(w)
  BY <1>6, CommitShape, NoFileChanges DEF Commit, Shape
<1> QED BY <1>1, <1>2, <1>3, <1>4, <1>5, <1>6 DEF DriveExecution

LEMMA ConcludeKeepsShape ==
    ASSUME Shape, NEW w \in Worker, Conclude(w) PROVE Shape'
<1>1. CASE CleanupStep(w)
  BY <1>1, CleanupStepShape, JournalActionFiles DEF Shape
<1>2. CASE Finish(w)
  BY <1>2, FinishShape, NoFileChanges DEF Finish, Shape
<1>3. CASE CleanupUnmarked(w)
  BY <1>3, CleanupUnmarkedShape, NoFileChanges DEF CleanupUnmarked, Shape
<1>4. CASE Classify(w)
  <2>1. UNCHANGED <<dest, jn, disk, ops, applied, budget>>
    BY <1>4 DEF Classify
  <2> QED BY <1>4, <2>1, ClassifyShape, NoFileChanges DEF Shape
<1> QED BY <1>1, <1>2, <1>3, <1>4 DEF Conclude

LEMMA StepKeepsShape ==
    ASSUME Shape, NEW w \in Worker, Step(w) PROVE Shape'
<1>1. CASE Sync(w)
  BY <1>1, SyncShape, SyncFiles DEF Shape
<1>2. CASE PersistProgress(w)
  BY <1>2, ClearNextShape, WriteNextShape, RenameNextShape, JournalActionFiles
     DEF PersistProgress, Shape
<1>3. CASE Apply(w)
  BY <1>3, ApplyShape, ApplyFiles DEF Shape
<1>4. CASE Verify(w)
  BY <1>4, VerifyShape, NoFileChanges DEF Verify, Shape
<1>5. CASE Decide(w)
  <2>1. UNCHANGED <<dest, jn, disk, ops, applied, budget>>
    BY <1>5 DEF Decide
  <2> QED BY <1>5, <2>1, DecideShape, NoFileChanges DEF Shape
<1>6. CASE Recheck(w)
  <2>1. UNCHANGED <<dest, jn, disk, ops, applied, budget>>
    BY <1>6 DEF Recheck
  <2> QED BY <1>6, <2>1, RecheckShape, NoFileChanges DEF Shape
<1> QED BY <1>1, <1>2, <1>3, <1>4, <1>5, <1>6, PreflightKeepsShape, DriveExecutionKeepsShape,
        ConcludeKeepsShape DEF Step, Publish, DriveRecovery

LEMMA CallKeepsShape ==
    ASSUME Shape, NEW w \in Worker, Call(w) PROVE Shape'
<1>1. ASSUME NEW plan \in Plans, Submit(w, plan) PROVE Shape'
  BY <1>1, SubmitShape, NoFileChanges DEF Submit, Shape
<1>2. ASSUME NEW t \in TxId, NEW token \in BOOLEAN, Recover(w, t, token) PROVE Shape'
  <2>1. UNCHANGED <<dest, jn, disk, ops, applied, budget>>
    BY <1>2 DEF Recover
  <2> QED BY <1>2, <2>1, RecoverShape, NoFileChanges DEF Shape
<1> QED BY <1>1, <1>2 DEF Call

LEMMA EnvironmentKeepsShape ==
    ASSUME Shape, Environment PROVE Shape'
<1>1. ASSUME NEW w \in Worker, Crash(w) \/ Fault(w) PROVE Shape'
  BY <1>1, CrashShape, FaultShape, EnvironmentFiles DEF Shape
<1>2. CASE PowerLoss
  BY <1>2, PowerLossShape, PowerLossFiles DEF Shape
<1>3. ASSUME NEW p \in Path, NEW c \in Content \cup {Missing}, Edit(p, c) PROVE Shape'
  BY <1>3, NobodyMoves, EditFiles DEF Edit, Shape
<1> QED BY <1>1, <1>2, <1>3 DEF Environment

LEMMA NextKeepsShape == Shape /\ [Next]_vars => Shape'
<1> SUFFICES ASSUME Shape, [Next]_vars PROVE Shape'
  OBVIOUS
<1>1. CASE UNCHANGED vars
  BY <1>1, NobodyMoves, NoFileChanges DEF vars, Shape
<1>2. CASE Next
  BY <1>2, StepKeepsShape, CallKeepsShape, EnvironmentKeepsShape DEF Next
<1> QED BY <1>1, <1>2

\* Every reachable state of processes, journals and disk has the shape the code
\* assumes: driveExecution and driveRecovery never step outside their manifest,
\* no progress document records more operations than a manifest may hold, and
\* every driver that publishes holds the progress and the position that belong
\* together, whatever crashes, faults, edits and power losses happen.
THEOREM TypeCorrect == Spec => []TypeOK
<1>1. Shape => TypeOK
  BY DEF Shape, Files, Registers, TypeOK
<1> QED BY <1>1, InitShape, NextKeepsShape, PTL DEF Spec

-----------------------------------------------------------------------------
(***************************************************************************)
(* Custody: why phases only move forward and why nothing is published      *)
(* without authority, for any number of processes, transactions, plans,    *)
(* crashes, faults and edits.  As long as nobody recovers a transaction    *)
(* that is still driven, a transaction has one driver, and what that       *)
(* driver remembers is what progress.json says.                            *)
(***************************************************************************)

\* Short of "prepared" a progress document does not name a manifest.
Sane(p) == ~p.bound => p.phase \in {"missing", "begun", "aborted"}

\* The phase a driver has to be in to stand at pc.
InPhase(pc, phase) ==
    /\ pc \in {"mkStaging", "stage", "fill", "manifest", "fillManifest", "precheck"} =>
          phase = "begun"
    /\ pc = "authorize" => phase = "prepared"
    /\ pc \in {"publish", "apply", "verify", "recheck"} => phase = "publishing"

\* What may replace a progress document: the next phase, or one more publication.
Replaces(new, old) ==
    <<old.phase, new.phase>> \in LegalTransitions \cup {<<"publishing", "publishing">>}

\* A driver's memory agrees with the journal j of its transaction.
Agrees(d, j) ==
    /\ Sane(d.mem)
    /\ d.pc \in Settled => j.prog = d.mem /\ InPhase(d.pc, d.mem.phase)
    /\ d.pc \in Persisting => Replaces(d.mem, j.prog) /\ InPhase(d.back, d.mem.phase)
    /\ d.pc = "rename" => j.next \in {NoProgress, d.mem}

SoleDriver ==
    \A w, u \in Worker : drv[w].tx \in TxId /\ drv[w].tx = drv[u].tx => w = u

\* An identifier nobody used yet left no trace.
UnusedIsBlank ==
    \A t \in TxId : ops[t] = <<>> =>
        /\ jn[t] = NoJournal /\ disk.jn[t] = NoJournal
        /\ \A w \in Worker : drv[w].tx # t

SaneJournals ==
    \A t \in TxId : /\ Sane(jn[t].prog) /\ Sane(jn[t].next)
                    /\ Sane(disk.jn[t].prog) /\ Sane(disk.jn[t].next)

DriversAgree ==
    \A w \in Worker : drv[w].tx \in TxId => Agrees(drv[w], jn[drv[w].tx])

Custody == Shape /\ SoleDriver /\ UnusedIsBlank /\ SaneJournals /\ DriversAgree

-----------------------------------------------------------------------------
(* Steps that leave progress.json alone.                                   *)

\* At most a scratch file goes away, and blank journals stay blank.
Calm ==
    /\ ops' = ops /\ disk'.jn = disk.jn
    /\ \A t \in TxId : /\ jn'[t].prog = jn[t].prog
                       /\ jn'[t].next \in {jn[t].next, NoProgress}
                       /\ ops[t] = <<>> => jn'[t] = NoJournal

LEMMA SaneNoProgress == Sane(NoProgress)
BY DEF Sane, NoProgress

LEMMA CalmStill ==
    ASSUME Custody, UNCHANGED <<jn, disk, ops>>
    PROVE  Calm
BY DEF Calm, Custody, UnusedIsBlank

LEMMA CalmOwn ==
    ASSUME Custody, NEW w \in Worker, drv[w].tx \in TxId, NEW k,
           jn' = [jn EXCEPT ![drv[w].tx] = k],
           k.prog = jn[drv[w].tx].prog, k.next \in {jn[drv[w].tx].next, NoProgress},
           UNCHANGED <<disk, ops>>
    PROVE  Calm
<1>1. jn \in [TxId -> Journal] /\ ops[drv[w].tx] # <<>>
  BY DEF Custody, UnusedIsBlank, Shape, Files
<1> QED BY <1>1 DEF Calm, Custody, UnusedIsBlank

LEMMA AgreesStable ==
    ASSUME NEW d, NEW j, NEW k, Agrees(d, j), k.prog = j.prog, k.next \in {j.next, NoProgress}
    PROVE  Agrees(d, k)
BY DEF Agrees

LEMMA CalmMove ==
    ASSUME Custody, Shape', Calm, NEW w \in Worker, NEW d, drv' = [drv EXCEPT ![w] = d],
           d.tx \in {drv[w].tx, NoTx}, d.tx \in TxId => Agrees(d, jn[d.tx])
    PROVE  Custody'
<1>0. drv \in [Worker -> Driver]
  BY DEF Custody, Shape, Registers
<1>1. \A u \in Worker : drv'[u] = IF u = w THEN d ELSE drv[u]
  BY <1>0
<1>2. SoleDriver'
  BY <1>1, InstanceAssumption DEF Custody, SoleDriver
<1>3. UnusedIsBlank'
  BY <1>1, InstanceAssumption DEF Custody, UnusedIsBlank, Calm
<1>4. SaneJournals'
  BY SaneNoProgress DEF Custody, SaneJournals, Calm
<1>5. ASSUME NEW u \in Worker, drv'[u].tx \in TxId PROVE Agrees(drv'[u], jn'[drv'[u].tx])
  <2>1. Agrees(drv'[u], jn[drv'[u].tx])
    BY <1>1, <1>5 DEF Custody, DriversAgree
  <2> QED BY <1>5, <2>1, AgreesStable DEF Calm
<1>6. DriversAgree'
  BY <1>5 DEF DriversAgree
<1> QED BY <1>2, <1>3, <1>4, <1>6 DEF Custody

LEMMA CalmIdle ==
    ASSUME Custody, Shape', Calm, NEW w \in Worker, drv' = [drv EXCEPT ![w] = Idle]
    PROVE  Custody'
<1>1. Idle.tx = NoTx
  BY DEF Idle
<1> QED BY <1>1, CalmMove, InstanceAssumption

LEMMA CalmFail ==
    ASSUME Custody, Shape', Calm, NEW w \in Worker, NEW why, Fail(w, why)
    PROVE  Custody'
<1> DEFINE d == [drv[w] EXCEPT !.pc = "failed", !.why = why, !.sync = "none"]
<1>1. drv' = [drv EXCEPT ![w] = d] /\ drv[w] \in Driver
  BY DEF Fail, Custody, Shape, Registers
<1>2. d.tx = drv[w].tx /\ d.pc = "failed" /\ d.mem = drv[w].mem
  BY <1>1 DEF Driver
<1>3. drv[w].tx \in TxId => Sane(drv[w].mem)
  BY DEF Custody, DriversAgree, Agrees
<1> HIDE DEF d
<1>4. d.tx \in TxId => Agrees(d, jn[d.tx])
  BY <1>2, <1>3 DEF Agrees, Settled, Persisting
<1> QED BY <1>1, <1>2, <1>4, CalmMove

LEMMA CalmPersist ==
    ASSUME Custody, Shape', Calm, NEW w \in Worker, NEW prog, NEW back, Persist(w, prog, back),
           Sane(prog), Replaces(prog, jn[drv[w].tx].prog), InPhase(back, prog.phase)
    PROVE  Custody'
<1> DEFINE d == [drv[w] EXCEPT !.pc = "clear", !.mem = prog, !.back = back]
<1>1. drv' = [drv EXCEPT ![w] = d] /\ drv[w] \in Driver
  BY DEF Persist, Custody, Shape, Registers
<1>2. d.tx = drv[w].tx /\ d.pc = "clear" /\ d.mem = prog /\ d.back = back
  BY <1>1 DEF Driver
<1> HIDE DEF d
<1>3. d.tx \in TxId => Agrees(d, jn[d.tx])
  BY <1>2 DEF Agrees, Settled, Persisting
<1> QED BY <1>1, <1>2, <1>3, CalmMove

LEMMA CalmGoto ==
    ASSUME Custody, Shape', Calm, NEW w \in Worker, NEW pc, Goto(w, pc),
           drv[w].tx \in TxId => Agrees([drv[w] EXCEPT !.pc = pc], jn[drv[w].tx])
    PROVE  Custody'
<1> DEFINE d == [drv[w] EXCEPT !.pc = pc]
<1>1. drv' = [drv EXCEPT ![w] = d] /\ drv[w] \in Driver
  BY DEF Goto, Custody, Shape, Registers
<1>2. d.tx = drv[w].tx
  BY <1>1 DEF Driver
<1> HIDE DEF d
<1>3. d.tx \in TxId => Agrees(d, jn[d.tx])
  BY <1>2 DEF d
<1> QED BY <1>1, <1>2, <1>3, CalmMove

\* A driver without a transaction moves.
LEMMA CalmUnowned ==
    ASSUME Custody, Shape', Calm, NEW w \in Worker, NEW d, drv' = [drv EXCEPT ![w] = d], d.tx = NoTx
    PROVE  Custody'
BY CalmMove, InstanceAssumption

-----------------------------------------------------------------------------
(* The actions, one by one.                                                *)

LEMMA OwnCustody ==
    ASSUME Custody, NEW w \in Worker
    PROVE  /\ drv[w] \in Driver /\ DriverShape(drv[w])
           /\ drv[w].tx \in TxId => Agrees(drv[w], jn[drv[w].tx])
BY OwnRegisters DEF Custody, DriversAgree

LEMMA SubmitCustody ==
    ASSUME Custody, Shape', NEW w \in Worker, NEW plan \in Plans, Submit(w, plan)
    PROVE  Custody'
<1> DEFINE d == [Idle EXCEPT !.pc = "pre", !.plan = plan, !.back = "observe"]
<1>1. Calm
  BY CalmStill DEF Submit
<1>2. d.tx = NoTx /\ drv' = [drv EXCEPT ![w] = d]
  BY DEF Submit, Idle
<1> QED BY <1>1, <1>2, CalmUnowned

LEMMA ReconcileCustody ==
    ASSUME Custody, Shape', NEW w \in Worker,
           (\E t \in TxId : ReconcileUnmarked(w, t)) \/ ReconcileDone(w) \/ Inspect(w)
    PROVE  Custody'
<1>1. Calm
  BY CalmStill DEF ReconcileUnmarked, ReconcileDone, Inspect
<1>2. drv[w].tx = NoTx /\ drv[w] \in Driver
  BY OwnCustody DEF ReconcileUnmarked, ReconcileDone, Inspect, At, DriverShape
<1>3. drv \in [Worker -> Driver]
  BY DEF Custody, Shape, Registers
<1>4. CASE drv' = [drv EXCEPT ![w] = Idle]
  BY <1>1, <1>4, CalmIdle
<1>5. ASSUME NEW t \in TxId, NEW pc \in PC, drv' = [drv EXCEPT ![w].tgt = t, ![w].pc = pc]
      PROVE  Custody'
  <2> DEFINE d == [drv[w] EXCEPT !.tgt = t, !.pc = pc]
  <2>1. drv' = [drv EXCEPT ![w] = d] /\ d.tx = NoTx
    BY <1>2, <1>3, <1>5 DEF Driver
  <2> QED BY <1>1, <2>1, CalmUnowned
<1>6. ASSUME NEW pc \in PC, Goto(w, pc)
      PROVE  Custody'
  BY <1>1, <1>2, <1>6, CalmGoto, InstanceAssumption
<1>7. CASE \E t \in TxId : ReconcileUnmarked(w, t)
  <2>1. PICK t \in TxId : ReconcileUnmarked(w, t)
    BY <1>7
  <2>2. "unNext" \in PC /\ "unDir" \in PC
    BY DEF PC
  <2>3. (IF jn[t].next # NoProgress THEN "unNext" ELSE "unDir") \in PC
    BY <2>2
  <2> QED BY <1>4, <1>5, <2>1, <2>3 DEF ReconcileUnmarked, Return
<1>8. CASE ReconcileDone(w)
  <2>1. "inspect" \in PC
    BY DEF PC
  <2> QED BY <1>6, <1>8, <2>1 DEF ReconcileDone
<1>9. CASE Inspect(w)
  <2>1. drv[w].back \in PC
    BY <1>2 DEF Driver
  <2> QED BY <1>4, <1>6, <1>9, <2>1 DEF Inspect, Return
<1> QED BY <1>7, <1>8, <1>9

LEMMA ObserveCustody ==
    ASSUME Custody, Shape', NEW w \in Worker, Observe(w)
    PROVE  Custody'
<1> DEFINE o == Normalize(drv[w].plan.effects, dest).ops
           d == [drv[w] EXCEPT !.ops = o, !.pc = "pre", !.back = "begin"]
<1>1. Calm
  BY CalmStill DEF Observe
<1>2. drv[w].tx = NoTx /\ drv[w] \in Driver
  BY OwnCustody DEF Observe, At, DriverShape
<1>3. \/ drv' = [drv EXCEPT ![w] = Idle]
      \/ drv' = [drv EXCEPT ![w].ops = o, ![w].pc = "pre", ![w].back = "begin"]
  BY DEF Observe, Return
<1> HIDE DEF o
<1>4. CASE drv' = [drv EXCEPT ![w] = Idle]
  BY <1>1, <1>4, CalmIdle
<1>5. CASE drv' = [drv EXCEPT ![w].ops = o, ![w].pc = "pre", ![w].back = "begin"]
  <2>1. drv' = [drv EXCEPT ![w] = d] /\ d.tx = NoTx
    BY <1>2, <1>5 DEF Custody, Shape, Registers, Driver
  <2> QED BY <1>1, <2>1, CalmUnowned
<1> QED BY <1>3, <1>4, <1>5

\* Tidying up a residue of its own or of another never touches a progress document.
LEMMA UnmarkCalm ==
    ASSUME Custody, NEW w \in Worker, UnmarkNext(w) \/ UnmarkDirectory(w)
    PROVE  Calm
<1> DEFINE t == drv[w].tgt
<1>1. t \in TxId /\ jn \in [TxId -> Journal] /\ UNCHANGED <<disk, ops>>
  <2>1. UNCHANGED <<disk, ops>> /\ drv[w].pc \in {"unNext", "unDir"}
    BY DEF UnmarkNext, UnmarkDirectory, At
  <2> QED BY <2>1, OwnCustody DEF Custody, Shape, Files, DriverShape
<1>2. CASE jn' = jn
  BY <1>1, <1>2, CalmStill
<1>3. CASE jn' = [jn EXCEPT ![t].next = NoProgress]
  <2>1. ASSUME NEW u \in TxId
        PROVE  /\ jn'[u].prog = jn[u].prog /\ jn'[u].next \in {jn[u].next, NoProgress}
               /\ ops[u] = <<>> => jn'[u] = NoJournal
    <3>1. jn[u] \in Journal
      BY <1>1
    <3>2. jn'[u] = jn[u] \/ jn'[u] = [jn[u] EXCEPT !.next = NoProgress]
      BY <1>1, <1>3
    <3>3. [NoJournal EXCEPT !.next = NoProgress] = NoJournal
      <4>1. NoJournal.next = NoProgress /\ NoJournal \in Journal
        BY EmptyJournal DEF NoJournal
      <4> QED BY <4>1 DEF Journal
    <3> QED BY <3>1, <3>2, <3>3 DEF Custody, UnusedIsBlank, Journal
  <2> QED BY <1>1, <2>1 DEF Calm
<1>4. CASE jn' = [jn EXCEPT ![t] = NoJournal] /\ [jn[t] EXCEPT !.root = FALSE] = NoJournal
  <2>1. jn[t].prog = NoJournal.prog /\ jn[t].next = NoJournal.next
    <3>1. jn[t] \in Journal
      BY <1>1
    <3>2. /\ [jn[t] EXCEPT !.root = FALSE].prog = jn[t].prog
          /\ [jn[t] EXCEPT !.root = FALSE].next = jn[t].next
      BY <3>1 DEF Journal
    <3> QED BY <1>4, <3>2
  <2> QED BY <1>1, <1>4, <2>1 DEF Calm, Custody, UnusedIsBlank
<1>5. CASE UnmarkNext(w)
  BY <1>2, <1>3, <1>5 DEF UnmarkNext
<1>6. CASE UnmarkDirectory(w)
  BY <1>2, <1>4, <1>6 DEF UnmarkDirectory
<1> QED BY <1>5, <1>6

LEMMA UnmarkCustody ==
    ASSUME Custody, Shape', NEW w \in Worker, UnmarkNext(w) \/ UnmarkDirectory(w)
    PROVE  Custody'
<1>1. Calm
  BY UnmarkCalm
<1>2. drv[w] \in Driver /\ drv \in [Worker -> Driver]
  BY OwnCustody DEF Custody, Shape, Registers
<1>3. CASE drv' = [drv EXCEPT ![w] = Idle]
  BY <1>1, <1>3, CalmIdle
<1>4. ASSUME NEW pc \in {"unDir", "classify", "pre"}, NEW s \in {"none", "transactions"} \cup {drv[w].sync},
             drv' = [drv EXCEPT ![w].pc = pc, ![w].sync = s]
      PROVE  Custody'
  <2> DEFINE d == [drv[w] EXCEPT !.pc = pc, !.sync = s]
  <2>1. drv' = [drv EXCEPT ![w] = d] /\ d.tx = drv[w].tx /\ d.pc = pc /\ d.mem = drv[w].mem
    BY <1>2, <1>4 DEF Driver
  <2>2. drv[w].tx \in TxId => Sane(drv[w].mem)
    BY OwnCustody DEF Agrees
  <2> HIDE DEF d
  <2>3. d.tx \in TxId => Agrees(d, jn[d.tx])
    BY <2>1, <2>2 DEF Agrees, Settled, Persisting
  <2> QED BY <1>1, <2>1, <2>3, CalmMove
<1>5. ASSUME NEW pc \in {"unDir", "classify"}, Goto(w, pc) PROVE Custody'
  <2>1. drv' = [drv EXCEPT ![w].pc = pc, ![w].sync = drv[w].sync]
    BY <1>2, <1>5 DEF Goto, Driver
  <2> QED BY <1>4, <2>1
<1>6. CASE UnmarkNext(w)
  BY <1>3, <1>5, <1>6 DEF UnmarkNext, Return
<1>7. CASE UnmarkDirectory(w)
  <2>1. \/ drv' = [drv EXCEPT ![w] = Idle]
        \/ Goto(w, "classify")
        \/ \E pc \in {"classify", "pre"} : drv' = [drv EXCEPT ![w].pc = pc, ![w].sync = "transactions"]
    BY <1>7 DEF UnmarkDirectory, Return
  <2> QED BY <1>3, <1>4, <1>5, <2>1
<1> QED BY <1>6, <1>7

\* A settled driver goes on within its phase.
LEMMA CalmStep ==
    ASSUME Custody, Shape', Calm, NEW w \in Worker, NEW d, drv' = [drv EXCEPT ![w] = d],
           drv[w].pc \in Settled, d.pc \in Settled, d.tx = drv[w].tx, d.mem = drv[w].mem,
           InPhase(d.pc, d.mem.phase)
    PROVE  Custody'
<1>1. d.tx \in TxId => Agrees(d, jn[d.tx])
  BY OwnCustody DEF Agrees, Settled, Persisting
<1> QED BY <1>1, CalmMove

LEMMA CalmFinished ==
    ASSUME Custody, Shape', Calm, NEW w \in Worker, drv[w].pc \in Settled,
           NEW pc \in Settled, Goto(w, pc), InPhase(pc, drv[w].mem.phase)
    PROVE  Custody'
<1> DEFINE d == [drv[w] EXCEPT !.pc = pc]
<1>1. drv' = [drv EXCEPT ![w] = d] /\ d.pc = pc /\ d.tx = drv[w].tx /\ d.mem = drv[w].mem
  BY OwnCustody DEF Goto, Custody, Shape, Registers, Driver
<1> HIDE DEF d
<1> QED BY <1>1, CalmStep

\* The actions that stage payloads and manifest, publish and clean up.
LEMMA JournalActionCalm ==
    ASSUME Custody, NEW w \in Worker,
           \/ ClearNext(w) \/ MakeStaging(w) \/ Stage(w) \/ FillPayload(w) \/ WriteManifest(w)
           \/ FillManifest(w) \/ Apply(w) \/ CleanupStep(w)
    PROVE  Calm
<1> DEFINE t == drv[w].tx
           j == jn[t]
<1>0. t \in TxId /\ j \in Journal /\ jn \in [TxId -> Journal] /\ UNCHANGED <<disk, ops>>
  BY OwnCustody DEF Custody, Shape, Files, DriverShape, Owning, Persisting, Settled, At, ClearNext,
     MakeStaging, Stage, FillPayload, WriteManifest, FillManifest, Apply, CleanupStep
<1>1. ASSUME NEW k, jn' = [jn EXCEPT ![t] = k], k.prog = j.prog, k.next \in {j.next, NoProgress}
      PROVE  Calm
  BY <1>0, <1>1, CalmOwn
<1>2. CASE jn' = jn
  BY <1>0, <1>2, CalmStill
<1>3. \A f : LET k == [j EXCEPT !.man = f] IN k.prog = j.prog /\ k.next = j.next
  BY <1>0 DEF Journal
<1>4. \A f, i : LET k == [j EXCEPT !.pay[i] = f] IN k.prog = j.prog /\ k.next = j.next
  BY <1>0 DEF Journal
<1>5. \A f : LET k == [j EXCEPT !.staging = f] IN k.prog = j.prog /\ k.next = j.next
  BY <1>0 DEF Journal
<1>6. LET k == [j EXCEPT !.next = NoProgress] IN k.prog = j.prog /\ k.next = NoProgress
  BY <1>0 DEF Journal
<1>7. CASE ClearNext(w)
  <2>1. jn' = jn \/ jn' = [jn EXCEPT ![t] = [j EXCEPT !.next = NoProgress]]
    BY <1>0, <1>7 DEF ClearNext
  <2> QED BY <1>1, <1>2, <1>6, <2>1
<1>8. CASE MakeStaging(w)
  <2>1. jn' = jn \/ jn' = [jn EXCEPT ![t] = [j EXCEPT !.staging = TRUE]]
    BY <1>0, <1>8 DEF MakeStaging
  <2> QED BY <1>1, <1>2, <1>5, <2>1
<1>9. CASE Stage(w) \/ FillPayload(w) \/ Apply(w)
  <2> DEFINE i == drv[w].idx
  <2>1. \/ jn' = jn
        \/ jn' = [jn EXCEPT ![t] = [j EXCEPT !.pay[i] = "torn"]]
        \/ jn' = [jn EXCEPT ![t] = [j EXCEPT !.pay[i] = "full"]]
        \/ jn' = [jn EXCEPT ![t] = [j EXCEPT !.pay[i] = "missing"]]
    <3>1. CASE Stage(w)
      BY <1>0, <3>1 DEF Stage
    <3>2. CASE FillPayload(w)
      BY <1>0, <3>2 DEF FillPayload
    <3>3. CASE Apply(w)
      BY <1>0, <3>3 DEF Apply
    <3> QED BY <1>9, <3>1, <3>2, <3>3
  <2> QED BY <1>1, <1>2, <1>4, <2>1
<1>10. CASE WriteManifest(w) \/ FillManifest(w)
  <2>1. jn' = jn \/ \E f : jn' = [jn EXCEPT ![t] = [j EXCEPT !.man = f]]
    <3>1. CASE WriteManifest(w)
      BY <1>0, <3>1 DEF WriteManifest
    <3>2. CASE FillManifest(w)
      BY <1>0, <3>2 DEF FillManifest
    <3> QED BY <1>10, <3>1, <3>2
  <2> QED BY <1>1, <1>2, <1>3, <2>1
<1>11. CASE CleanupStep(w)
  <2> DEFINE left == {i \in 1 .. MaxOps : jn[t].pay[i] # "missing"}
             first == CHOOSE i \in left : \A k \in left : i <= k
  <2>1. \/ jn' = jn
        \/ jn' = [jn EXCEPT ![t] = [j EXCEPT !.pay[first] = "missing"]]
        \/ jn' = [jn EXCEPT ![t] = [j EXCEPT !.staging = FALSE]]
        \/ jn' = [jn EXCEPT ![t] = [j EXCEPT !.next = NoProgress]]
        \/ jn' = [jn EXCEPT ![t] = [j EXCEPT !.man = "missing"]]
    BY <1>0, <1>11 DEF CleanupStep
  <2> HIDE DEF first, left
  <2> QED BY <1>1, <1>2, <1>3, <1>4, <1>5, <1>6, <2>1
<1> QED BY <1>7, <1>8, <1>9, <1>10, <1>11

LEMMA StagingCustody ==
    ASSUME Custody, Shape', NEW w \in Worker,
           \/ MakeStaging(w) \/ Stage(w) \/ FillPayload(w) \/ WriteManifest(w) \/ FillManifest(w)
           \/ Apply(w) \/ CleanupStep(w)
    PROVE  Custody'
<1>0. Calm
  BY JournalActionCalm
<1>1. drv[w] \in Driver /\ drv \in [Worker -> Driver] /\ drv[w].pc \in Settled /\ drv[w].tx \in TxId
  BY OwnCustody DEF Custody, Shape, Registers, At, Settled, Owning, DriverShape, MakeStaging, Stage,
     FillPayload, WriteManifest, FillManifest, Apply, CleanupStep
<1>2. Agrees(drv[w], jn[drv[w].tx]) /\ InPhase(drv[w].pc, drv[w].mem.phase)
  BY <1>1, OwnCustody DEF Agrees
<1>3. ASSUME NEW pc \in Settled, NEW i, NEW s, drv' = [drv EXCEPT ![w].pc = pc, ![w].idx = i, ![w].sync = s],
             InPhase(pc, drv[w].mem.phase)
      PROVE  Custody'
  <2> DEFINE d == [drv[w] EXCEPT !.pc = pc, !.idx = i, !.sync = s]
  <2>1. drv' = [drv EXCEPT ![w] = d] /\ d.pc = pc /\ d.tx = drv[w].tx /\ d.mem = drv[w].mem
    BY <1>1, <1>3 DEF Driver
  <2> HIDE DEF d
  <2> QED BY <1>0, <1>1, <1>3, <2>1, CalmStep
<1>4. CASE \E why : Fail(w, why)
  BY <1>0, <1>4, CalmFail
<1>5. CASE MakeStaging(w) \/ FillManifest(w)
  <2>1. CASE drv' = [drv EXCEPT ![w].pc = "stage", ![w].sync = "root"] /\ drv[w].pc = "mkStaging"
    <3>1. drv' = [drv EXCEPT ![w].pc = "stage", ![w].idx = drv[w].idx, ![w].sync = "root"]
      BY <1>1, <2>1 DEF Driver
    <3>2. "stage" \in Settled /\ InPhase("stage", drv[w].mem.phase)
      BY <1>2, <2>1 DEF Settled, InPhase
    <3> QED BY <1>3, <3>1, <3>2
  <2>2. CASE drv' = [drv EXCEPT ![w].pc = "precheck", ![w].sync = "root"] /\ drv[w].pc = "fillManifest"
    <3>1. drv' = [drv EXCEPT ![w].pc = "precheck", ![w].idx = drv[w].idx, ![w].sync = "root"]
      BY <1>1, <2>2 DEF Driver
    <3>2. "precheck" \in Settled /\ InPhase("precheck", drv[w].mem.phase)
      BY <1>2, <2>2 DEF Settled, InPhase
    <3> QED BY <1>3, <3>1, <3>2
  <2> QED BY <1>4, <1>5, <2>1, <2>2 DEF MakeStaging, FillManifest, At
<1>6. CASE Stage(w) \/ WriteManifest(w)
  <2>1. ASSUME NEW pc \in {"manifest", "fill", "fillManifest"}, Goto(w, pc),
               drv[w].pc \in {"stage", "manifest"}
        PROVE  Custody'
    BY <1>0, <1>1, <1>2, <2>1, CalmFinished DEF Settled, InPhase
  <2>2. CASE drv' = [drv EXCEPT ![w].idx = drv[w].idx + 1] /\ drv[w].pc = "stage" /\ drv[w].sync = "none"
    <3>1. drv' = [drv EXCEPT ![w].pc = "stage", ![w].idx = drv[w].idx + 1, ![w].sync = "none"]
      BY <1>1, <2>2 DEF Driver
    <3>2. "stage" \in Settled /\ InPhase("stage", drv[w].mem.phase)
      BY <1>2, <2>2 DEF Settled, InPhase
    <3> QED BY <1>3, <3>1, <3>2
  <2>3. CASE Stage(w)
    BY <1>4, <2>1, <2>2, <2>3 DEF Stage, At
  <2>4. CASE WriteManifest(w)
    BY <1>4, <2>1, <2>4 DEF WriteManifest, At
  <2> QED BY <1>6, <2>3, <2>4
<1>7. CASE FillPayload(w)
  <2>1. drv[w].pc = "fill"
    BY <1>7 DEF FillPayload, At
  <2>2. "stage" \in Settled /\ InPhase("stage", drv[w].mem.phase)
    BY <1>2, <2>1 DEF Settled, InPhase
  <2> QED BY <1>3, <1>4, <1>7, <2>2 DEF FillPayload
<1>8. CASE Apply(w)
  <2>1. CASE drv' = [drv EXCEPT ![w].pc = "verify", ![w].sync = PublishSync] /\ drv[w].pc = "apply"
    <3>1. drv' = [drv EXCEPT ![w].pc = "verify", ![w].idx = drv[w].idx, ![w].sync = PublishSync]
      BY <1>1, <2>1 DEF Driver
    <3>2. "verify" \in Settled /\ InPhase("verify", drv[w].mem.phase)
      BY <1>2, <2>1 DEF Settled, InPhase
    <3> QED BY <1>3, <3>1, <3>2
  <2> QED BY <1>4, <1>8, <2>1 DEF Apply, At
<1>9. CASE CleanupStep(w)
  <2>1. CASE drv' = drv
    <3>1. drv' = [drv EXCEPT ![w].pc = drv[w].pc, ![w].idx = drv[w].idx, ![w].sync = drv[w].sync]
      BY <1>1, <2>1 DEF Driver
    <3> QED BY <1>1, <1>2, <1>3, <3>1
  <2>2. ASSUME NEW pc \in {"decide", "finish"}, drv' = [drv EXCEPT ![w].pc = pc, ![w].sync = "root"]
        PROVE  Custody'
    <3>1. drv' = [drv EXCEPT ![w].pc = pc, ![w].idx = drv[w].idx, ![w].sync = "root"]
      BY <1>1, <2>2 DEF Driver
    <3> QED BY <1>3, <3>1 DEF Settled, InPhase
  <2> QED BY <1>9, <2>1, <2>2 DEF CleanupStep
<1> QED BY <1>5, <1>6, <1>7, <1>8, <1>9

\* A settled driver knows its progress document.
LEMMA SettledKnows ==
    ASSUME Custody, NEW w \in Worker, drv[w].pc \in Settled
    PROVE  /\ drv[w].tx \in TxId /\ drv[w].mem \in Progress /\ jn[drv[w].tx].prog = drv[w].mem
           /\ Sane(drv[w].mem) /\ InPhase(drv[w].pc, drv[w].mem.phase)
BY OwnCustody DEF DriverShape, Owning, Agrees

LEMMA PrepareCustody ==
    ASSUME Custody, Shape', NEW w \in Worker, Prepare(w)
    PROVE  Custody'
<1> DEFINE prog == [phase |-> "prepared", bound |-> TRUE, published |-> 0]
<1>1. Calm
  BY CalmStill DEF Prepare
<1>2. jn[drv[w].tx].prog.phase = "begun"
  BY SettledKnows DEF Prepare, At, Settled, InPhase
<1>3. Sane(prog) /\ Replaces(prog, jn[drv[w].tx].prog) /\ InPhase("authorize", prog.phase)
  BY <1>2 DEF Sane, Replaces, LegalTransitions, InPhase
<1> QED BY <1>1, <1>3, CalmPersist, CalmFail DEF Prepare

LEMMA AuthorizeCustody ==
    ASSUME Custody, Shape', NEW w \in Worker, Authorize(w)
    PROVE  Custody'
<1> DEFINE prog == [drv[w].mem EXCEPT !.phase = "publishing"]
           d == [drv[w] EXCEPT !.pc = "clear", !.idx = 1, !.back = "publish", !.mem = prog]
<1>1. Calm
  BY CalmStill DEF Authorize
<1>2. /\ jn[drv[w].tx].prog = drv[w].mem /\ drv[w].mem \in Progress
      /\ drv[w].mem.phase = "prepared" /\ drv[w].mem.bound
  BY SettledKnows, ProgressFacts DEF Authorize, At, Settled, InPhase, Sane
<1>3. prog.phase = "publishing" /\ prog.bound
  BY <1>2 DEF Progress
<1> HIDE DEF prog
<1>4. Sane(prog) /\ Replaces(prog, jn[drv[w].tx].prog) /\ InPhase("publish", prog.phase)
  BY <1>2, <1>3 DEF Sane, Replaces, LegalTransitions, InPhase
<1>5. CASE drv' = [drv EXCEPT ![w].pc = "clear", ![w].idx = 1, ![w].back = "publish", ![w].mem = prog]
  <2>1. /\ drv' = [drv EXCEPT ![w] = d] /\ d.tx = drv[w].tx
        /\ d.pc = "clear" /\ d.back = "publish" /\ d.mem = prog
    <3>1. drv \in [Worker -> Driver] /\ drv[w] \in Driver
      BY DEF Custody, Shape, Registers
    <3>2. drv' = [drv EXCEPT ![w] = d]
      BY <1>5, <3>1
    <3>3. d.tx = drv[w].tx /\ d.pc = "clear" /\ d.back = "publish" /\ d.mem = prog
      BY <3>1 DEF Driver
    <3> QED BY <3>2, <3>3
  <2> HIDE DEF d
  <2>2. Agrees(d, jn[d.tx])
    BY <1>4, <2>1 DEF Agrees, Settled, Persisting
  <2> QED BY <1>1, <2>1, <2>2, CalmMove
<1>6. CASE Fail(w, "revision_conflict")
  BY <1>1, <1>6, CalmFail
<1> QED BY <1>5, <1>6 DEF Authorize, prog

LEMMA CheckPublishableCustody ==
    ASSUME Custody, Shape', NEW w \in Worker, CheckPublishable(w)
    PROVE  Custody'
<1>1. Calm
  BY CalmStill DEF CheckPublishable
<1>2. drv[w].pc \in Settled /\ "apply" \in Settled /\ InPhase("apply", drv[w].mem.phase)
  BY SettledKnows DEF CheckPublishable, At, Settled, InPhase
<1> QED BY <1>1, <1>2, CalmFinished, CalmFail DEF CheckPublishable

\* One more publication is recorded while publishing.
LEMMA RecordsPublication ==
    ASSUME NEW old \in Progress, Sane(old), old.phase = "publishing", NEW n
    PROVE  LET new == [old EXCEPT !.published = n]
           IN  Sane(new) /\ Replaces(new, old) /\ new.phase = "publishing"
BY DEF Progress, Sane, Replaces

LEMMA VerifyCustody ==
    ASSUME Custody, Shape', NEW w \in Worker, Verify(w)
    PROVE  Custody'
<1> DEFINE prog == [drv[w].mem EXCEPT !.published = @ + 1]
           back == IF drv[w].mode = "exec" THEN "publish" ELSE "decide"
           d == [drv[w] EXCEPT !.pc = "clear", !.idx = drv[w].idx + 1, !.mem = prog, !.back = back]
<1>1. Calm
  BY CalmStill DEF Verify
<1>2. /\ jn[drv[w].tx].prog = drv[w].mem /\ drv[w].mem \in Progress /\ Sane(drv[w].mem)
      /\ drv[w].mem.phase = "publishing"
  BY SettledKnows DEF Verify, At, Settled, InPhase
<1>3. Sane(prog) /\ Replaces(prog, jn[drv[w].tx].prog) /\ prog.phase = "publishing"
  BY <1>2, RecordsPublication
<1>4. back \in {"publish", "decide"}
  OBVIOUS
<1>5. CASE drv' = [drv EXCEPT ![w].pc = "clear", ![w].idx = drv[w].idx + 1, ![w].mem = prog,
                              ![w].back = back]
  <2> HIDE DEF prog, back
  <2>1. /\ drv' = [drv EXCEPT ![w] = d] /\ d.tx = drv[w].tx
        /\ d.pc = "clear" /\ d.back = back /\ d.mem = prog
    <3>1. drv \in [Worker -> Driver] /\ drv[w] \in Driver
      BY DEF Custody, Shape, Registers
    <3>2. drv' = [drv EXCEPT ![w] = d]
      BY <1>5, <3>1
    <3>3. d.tx = drv[w].tx /\ d.pc = "clear" /\ d.back = back /\ d.mem = prog
      BY <3>1 DEF Driver
    <3> QED BY <3>2, <3>3
  <2> HIDE DEF d
  <2>2. Agrees(d, jn[d.tx])
    BY <1>3, <1>4, <2>1 DEF Agrees, Settled, Persisting, InPhase
  <2> QED BY <1>1, <2>1, <2>2, CalmMove
<1>6. CASE Fail(w, "state_corrupt")
  BY <1>1, <1>6, CalmFail
<1> QED BY <1>5, <1>6 DEF Verify

LEMMA CommitCustody ==
    ASSUME Custody, Shape', NEW w \in Worker, Commit(w)
    PROVE  Custody'
<1> DEFINE prog == [drv[w].mem EXCEPT !.phase = "committed"]
<1>1. Calm
  BY CalmStill DEF Commit
<1>2. /\ jn[drv[w].tx].prog = drv[w].mem /\ drv[w].mem \in Progress /\ Sane(drv[w].mem)
      /\ drv[w].mem.phase = "publishing"
  BY SettledKnows DEF Commit, At, Settled, InPhase
<1>3. Sane(prog) /\ Replaces(prog, jn[drv[w].tx].prog) /\ InPhase("cleanup", prog.phase)
  BY <1>2 DEF Progress, Sane, Replaces, LegalTransitions, InPhase
<1> HIDE DEF prog
<1>4. CASE Persist(w, prog, "cleanup")
  BY <1>1, <1>3, <1>4, CalmPersist
<1>5. CASE \E why : Fail(w, why)
  BY <1>1, <1>5, CalmFail
<1> QED BY <1>4, <1>5 DEF Commit, prog

LEMMA FinishCustody ==
    ASSUME Custody, Shape', NEW w \in Worker, Finish(w)
    PROVE  Custody'
BY CalmStill, CalmIdle DEF Finish, Return

LEMMA DecideCustody ==
    ASSUME Custody, Shape', NEW w \in Worker, Decide(w)
    PROVE  Custody'
<1> DEFINE t == drv[w].tx
           mem == drv[w].mem
           d == DecideRecovery(ops[t], mem, dest, jn[t].pay)
           Tidies == \E pc \in {"cleanup", "finish"}, back \in {"decide", "finish"} :
                        drv' = [drv EXCEPT ![w].pc = pc, ![w].back = back]
<1>0. Calm /\ drv[w].pc \in Settled
  BY CalmStill DEF Decide, At, Settled
<1>1. t \in TxId /\ mem \in Progress /\ jn[t].prog = mem /\ Sane(mem)
  BY <1>0, SettledKnows
<1>2. ops[t] \in Seq(Operation)
  BY <1>1, OwnManifest DEF Custody, Shape
<1>3. /\ d.kind \in {"record_published", "publish", "commit"} => mem.phase = "publishing"
      /\ d.kind = "abort" => mem.phase \in {"begun", "prepared"}
  BY <1>1, <1>2, DecisionFacts
<1>4. \/ d.kind = "abort" /\ Persist(w, [mem EXCEPT !.phase = "aborted", !.published = 0], "decide")
      \/ d.kind = "record_published" /\ Persist(w, [mem EXCEPT !.published = d.op], "decide")
      \/ d.kind = "publish" /\ drv' = [drv EXCEPT ![w].pc = "recheck", ![w].idx = d.op]
      \/ d.kind = "commit" /\ Persist(w, [mem EXCEPT !.phase = "committed", !.published = LastOp(w)], "decide")
      \/ Tidies
      \/ Fail(w, "state_corrupt")
  BY DEF Decide
<1> HIDE DEF d
<1>5. CASE d.kind = "abort" /\ Persist(w, [mem EXCEPT !.phase = "aborted", !.published = 0], "decide")
  <2> DEFINE prog == [mem EXCEPT !.phase = "aborted", !.published = 0]
  <2>1. prog.phase = "aborted"
    BY <1>1 DEF Progress
  <2> HIDE DEF prog
  <2>2. Sane(prog) /\ Replaces(prog, jn[t].prog) /\ InPhase("decide", prog.phase)
    BY <1>1, <1>3, <1>5, <2>1 DEF Sane, Replaces, LegalTransitions, InPhase
  <2> QED BY <1>0, <1>5, <2>2, CalmPersist DEF prog
<1>6. CASE d.kind = "record_published" /\ Persist(w, [mem EXCEPT !.published = d.op], "decide")
  <2> DEFINE prog == [mem EXCEPT !.published = d.op]
  <2>1. Sane(prog) /\ Replaces(prog, jn[t].prog) /\ InPhase("decide", prog.phase)
    BY <1>1, <1>3, <1>6, RecordsPublication DEF InPhase
  <2> QED BY <1>0, <1>6, <2>1, CalmPersist
<1>7. CASE d.kind = "publish" /\ drv' = [drv EXCEPT ![w].pc = "recheck", ![w].idx = d.op]
  <2> DEFINE e == [drv[w] EXCEPT !.pc = "recheck", !.idx = d.op]
  <2>1. drv' = [drv EXCEPT ![w] = e] /\ e.tx = t /\ e.pc = "recheck" /\ e.mem = mem
    BY <1>7, OwnCustody DEF Custody, Shape, Registers, Driver
  <2> HIDE DEF e
  <2>2. e.pc \in Settled /\ InPhase(e.pc, e.mem.phase)
    BY <1>3, <1>7, <2>1 DEF Settled, InPhase
  <2> QED BY <1>0, <2>1, <2>2, CalmStep
<1>8. CASE d.kind = "commit" /\ Persist(w, [mem EXCEPT !.phase = "committed", !.published = LastOp(w)], "decide")
  <2> DEFINE prog == [mem EXCEPT !.phase = "committed", !.published = LastOp(w)]
  <2>1. prog.phase = "committed" /\ prog.bound = mem.bound
    BY <1>1 DEF Progress
  <2> HIDE DEF prog
  <2>2. Sane(prog) /\ Replaces(prog, jn[t].prog) /\ InPhase("decide", prog.phase)
    BY <1>1, <1>3, <1>8, <2>1 DEF Sane, Replaces, LegalTransitions, InPhase
  <2> QED BY <1>0, <1>8, <2>2, CalmPersist DEF prog
<1>9. ASSUME NEW pc \in {"cleanup", "finish"}, NEW back \in {"decide", "finish"},
             drv' = [drv EXCEPT ![w].pc = pc, ![w].back = back]
      PROVE  Custody'
  <2> DEFINE e == [drv[w] EXCEPT !.pc = pc, !.back = back]
  <2>1. drv' = [drv EXCEPT ![w] = e] /\ e.tx = t /\ e.pc = pc /\ e.mem = mem
    BY <1>9, OwnCustody DEF Custody, Shape, Registers, Driver
  <2> HIDE DEF e
  <2>2. e.pc \in Settled /\ InPhase(e.pc, e.mem.phase)
    BY <2>1 DEF Settled, InPhase
  <2> QED BY <1>0, <2>1, <2>2, CalmStep
<1>10. CASE Fail(w, "state_corrupt")
  BY <1>0, <1>10, CalmFail
<1> QED BY <1>4, <1>5, <1>6, <1>7, <1>8, <1>9, <1>10

LEMMA RecheckCustody ==
    ASSUME Custody, Shape', NEW w \in Worker, Recheck(w)
    PROVE  Custody'
<1> DEFINE prog == [drv[w].mem EXCEPT !.published = @ + 1]
<1>0. Calm /\ drv[w].pc \in Settled /\ drv[w].pc = "recheck"
  BY CalmStill DEF Recheck, At, Settled
<1>1. /\ jn[drv[w].tx].prog = drv[w].mem /\ drv[w].mem \in Progress /\ Sane(drv[w].mem)
      /\ drv[w].mem.phase = "publishing"
  BY <1>0, SettledKnows DEF InPhase
<1>2. Sane(prog) /\ Replaces(prog, jn[drv[w].tx].prog)
  BY <1>1, RecordsPublication
<1>3. InPhase("decide", prog.phase) /\ InPhase("apply", drv[w].mem.phase) /\ "apply" \in Settled
  BY <1>1 DEF InPhase, Settled
<1>4. Persist(w, prog, "decide") \/ Goto(w, "apply") \/ \E why : Fail(w, why)
  BY DEF Recheck
<1> HIDE DEF prog
<1> QED BY <1>0, <1>2, <1>3, <1>4, CalmPersist, CalmFinished, CalmFail

LEMMA CleanupUnmarkedCustody ==
    ASSUME Custody, Shape', NEW w \in Worker, CleanupUnmarked(w)
    PROVE  Custody'
<1> DEFINE pc == IF Mine(w).next # NoProgress THEN "unNext" ELSE "unDir"
           d == [drv[w] EXCEPT !.tgt = drv[w].tx, !.pc = pc]
<1>1. Calm
  BY CalmStill DEF CleanupUnmarked
<1>2. pc \in {"unNext", "unDir"}
  OBVIOUS
<1>3. drv' = [drv EXCEPT ![w] = d]
  BY OwnCustody DEF CleanupUnmarked, Custody, Shape, Registers
<1> HIDE DEF pc
<1>4. d.tx = drv[w].tx /\ d.pc = pc /\ d.mem = drv[w].mem
  BY OwnCustody DEF Driver
<1> HIDE DEF d
<1>5. d.tx \in TxId => Agrees(d, jn[d.tx])
  BY <1>2, <1>4, OwnCustody DEF Agrees, Settled, Persisting
<1> QED BY <1>1, <1>3, <1>4, <1>5, CalmMove

LEMMA ClassifyCustody ==
    ASSUME Custody, Shape', NEW w \in Worker, Classify(w)
    PROVE  Custody'
<1> DEFINE d == [drv[w] EXCEPT !.pc = "finish", !.mem = Mine(w).prog, !.sync = "root"]
<1>1. Calm
  BY CalmStill DEF Classify
<1>2. drv' = [drv EXCEPT ![w] = Idle] \/ drv' = [drv EXCEPT ![w] = d]
  BY DEF Classify, Return, Custody, Shape, Registers
<1>3. d.tx = drv[w].tx /\ d.pc = "finish" /\ d.mem = Mine(w).prog
  BY OwnCustody DEF Driver
<1> HIDE DEF d
<1>4. d.tx \in TxId => Agrees(d, jn[d.tx])
  BY <1>3 DEF Agrees, Settled, Persisting, InPhase, Mine, Custody, SaneJournals
<1> QED BY <1>1, <1>2, <1>3, <1>4, CalmMove, CalmIdle

\* Here recovering a transaction that is still driven would give it two drivers.
LEMMA RecoverCustody ==
    ASSUME Custody, Shape', ~RecoverLive, NEW w \in Worker, NEW t \in TxId,
           NEW token \in BOOLEAN, Recover(w, t, token)
    PROVE  Custody'
<1> DEFINE d == RecoveryDriver(t, token)
           prog == jn[t].prog
<1>0. Calm /\ (\A u \in Worker : drv[u].tx # t) /\ prog # NoProgress
  BY CalmStill DEF Recover, Marked
<1>1. drv \in [Worker -> Driver] /\ jn[t] \in Journal /\ prog \in Progress
  BY <1>0 DEF Custody, Shape, Registers, Files, Journal
<1>2. CASE drv' = drv
  <2>1. drv' = [drv EXCEPT ![w] = drv[w]]
    BY <1>1, <1>2
  <2> QED BY <1>0, <2>1, OwnCustody, CalmMove
<1>3. CASE drv' = [drv EXCEPT ![w] = d] /\ prog.bound = token
  <2>1. d.tx = t /\ Agrees(d, jn[t])
    <3> DEFINE mem == [prog EXCEPT !.phase = "aborted", !.published = 0]
    <3>1. Sane(prog) /\ prog.phase \in Phase
      BY <1>1, ProgressFacts DEF Custody, SaneJournals
    <3>2. mem.phase = "aborted"
      BY <1>1 DEF Progress
    <3> HIDE DEF prog, mem
    <3>3. Sane(mem)
      BY <3>2 DEF Sane
    <3>4. CASE token
      <4>1. d.tx = t /\ d.pc = "decide" /\ d.mem = prog
        BY <3>4 DEF RecoveryDriver, Idle, prog
      <4> HIDE DEF d
      <4> QED BY <3>1, <4>1 DEF Agrees, Settled, Persisting, InPhase, prog
    <3>5. CASE ~token /\ prog.phase = "aborted"
      <4>1. d.tx = t /\ d.pc = "cleanup" /\ d.mem = prog
        BY <3>5 DEF RecoveryDriver, Idle, prog
      <4> HIDE DEF d
      <4> QED BY <3>1, <4>1 DEF Agrees, Settled, Persisting, InPhase, prog
    <3>6. CASE ~token /\ prog.phase # "aborted"
      <4>1. d.tx = t /\ d.pc = "clear" /\ d.mem = mem /\ d.back = "cleanup"
        BY <3>6 DEF RecoveryDriver, Idle, prog, mem
      <4>2. prog.phase = "begun"
        BY <1>3, <3>1, <3>6 DEF Sane, Phase
      <4> HIDE DEF d
      <4>3. Replaces(mem, jn[t].prog)
        BY <3>2, <4>2 DEF Replaces, LegalTransitions, prog
      <4> QED BY <3>3, <4>1, <4>3 DEF Agrees, Settled, Persisting, InPhase
    <3> QED BY <3>4, <3>5, <3>6
  <2>2. \A u \in Worker : drv'[u] = IF u = w THEN d ELSE drv[u]
    BY <1>1, <1>3
  <2> HIDE DEF d
  <2>3. SoleDriver'
    BY <1>0, <2>1, <2>2 DEF Custody, SoleDriver
  <2>4. UnusedIsBlank'
    <3>1. ops[t] # <<>>
      <4>1. NoJournal.prog = NoProgress
        BY DEF NoJournal
      <4> QED BY <1>0, <4>1 DEF Custody, UnusedIsBlank
    <3> QED BY <1>0, <2>1, <2>2, <3>1 DEF Custody, UnusedIsBlank, Calm
  <2>5. SaneJournals'
    BY SaneNoProgress, <1>0 DEF Custody, SaneJournals, Calm
  <2>6. DriversAgree'
    <3>1. jn' = jn
      BY DEF Recover
    <3> QED BY <2>1, <2>2, <3>1 DEF Custody, DriversAgree
  <2> QED BY <2>3, <2>4, <2>5, <2>6 DEF Custody
<1> QED BY <1>2, <1>3 DEF Recover

\* A driver that replaces progress.json knows what it replaces.
LEMMA PersistingKnows ==
    ASSUME Custody, NEW w \in Worker, drv[w].pc \in Persisting
    PROVE  /\ drv[w].tx \in TxId /\ drv[w].mem \in Progress /\ Sane(drv[w].mem)
           /\ Replaces(drv[w].mem, jn[drv[w].tx].prog) /\ InPhase(drv[w].back, drv[w].mem.phase)
           /\ drv[w].back \in Settled
           /\ drv[w].pc = "rename" => jn[drv[w].tx].next \in {NoProgress, drv[w].mem}
BY OwnCustody DEF DriverShape, Owning, Agrees, Settled

LEMMA ClearNextCustody ==
    ASSUME Custody, Shape', NEW w \in Worker, ClearNext(w)
    PROVE  Custody'
<1>0. Calm /\ drv[w].pc \in Persisting
  BY JournalActionCalm DEF ClearNext, At, Persisting
<1>1. drv \in [Worker -> Driver] /\ drv[w] \in Driver
  BY DEF Custody, Shape, Registers
<1>2. \E s \in {drv[w].sync, "root"} : drv' = [drv EXCEPT ![w].pc = "write", ![w].sync = s]
  <2>1. CASE Goto(w, "write")
    BY <1>1, <2>1 DEF Goto, Driver
  <2> QED BY <2>1 DEF ClearNext
<1>3. PICK s \in {drv[w].sync, "root"} : drv' = [drv EXCEPT ![w].pc = "write", ![w].sync = s]
  BY <1>2
<1> DEFINE d == [drv[w] EXCEPT !.pc = "write", !.sync = s]
<1>4. drv' = [drv EXCEPT ![w] = d]
  BY <1>1, <1>3
<1>5. d.tx = drv[w].tx /\ d.pc = "write" /\ d.mem = drv[w].mem /\ d.back = drv[w].back
  BY <1>1 DEF Driver
<1> HIDE DEF d
<1>6. Agrees(d, jn[d.tx])
  BY <1>0, <1>5, PersistingKnows DEF Agrees, Settled, Persisting
<1> QED BY <1>0, <1>4, <1>5, <1>6, CalmMove

\* The one driver of a transaction changes its progress document or scratch file.
LEMMA OwnerWrites ==
    ASSUME Custody, Shape', NEW w \in Worker, NEW d, drv' = [drv EXCEPT ![w] = d],
           drv[w].tx \in TxId, d.tx = drv[w].tx,
           NEW k, jn' = [jn EXCEPT ![d.tx] = k], Sane(k.prog), Sane(k.next), Agrees(d, k),
           UNCHANGED <<disk, ops>>
    PROVE  Custody'
<1>0. drv \in [Worker -> Driver] /\ jn \in [TxId -> Journal]
  BY DEF Custody, Shape, Registers, Files
<1>1. \A u \in Worker : drv'[u] = IF u = w THEN d ELSE drv[u]
  BY <1>0
<1>2. SoleDriver'
  BY <1>1 DEF Custody, SoleDriver
<1>3. UnusedIsBlank'
  BY <1>0, <1>1 DEF Custody, UnusedIsBlank
<1>4. SaneJournals'
  BY <1>0 DEF Custody, SaneJournals
<1>5. ASSUME NEW u \in Worker, drv'[u].tx \in TxId PROVE Agrees(drv'[u], jn'[drv'[u].tx])
  <2>1. CASE u = w
    BY <1>0, <1>1, <2>1
  <2>2. CASE u # w
    BY <1>0, <1>1, <1>5, <2>2 DEF Custody, SoleDriver, DriversAgree
  <2> QED BY <2>1, <2>2
<1>6. DriversAgree'
  BY <1>5 DEF DriversAgree
<1> QED BY <1>2, <1>3, <1>4, <1>6 DEF Custody

LEMMA WriteNextCustody ==
    ASSUME Custody, Shape', NEW w \in Worker, WriteNext(w)
    PROVE  Custody'
<1> DEFINE t == drv[w].tx
           k == [jn[t] EXCEPT !.next = drv[w].mem]
           d == [drv[w] EXCEPT !.pc = "rename"]
<1>0. drv[w].pc \in Persisting /\ UNCHANGED <<disk, ops>>
  BY DEF WriteNext, At, Persisting
<1>1. /\ t \in TxId /\ Sane(drv[w].mem) /\ Replaces(drv[w].mem, jn[t].prog)
      /\ InPhase(drv[w].back, drv[w].mem.phase)
  BY <1>0, PersistingKnows
<1>2. drv \in [Worker -> Driver] /\ drv[w] \in Driver /\ jn \in [TxId -> Journal] /\ jn[t] \in Journal
  BY <1>1 DEF Custody, Shape, Registers, Files
<1>3. CASE jn' = [jn EXCEPT ![t].next = drv[w].mem] /\ Goto(w, "rename")
  <2>1. jn' = [jn EXCEPT ![t] = k] /\ drv' = [drv EXCEPT ![w] = d]
    BY <1>1, <1>2, <1>3 DEF Goto
  <2>2. k.prog = jn[t].prog /\ k.next = drv[w].mem
    BY <1>2 DEF Journal
  <2>3. d.tx = t /\ d.pc = "rename" /\ d.mem = drv[w].mem /\ d.back = drv[w].back
    BY <1>2 DEF Driver
  <2> HIDE DEF k, d
  <2>4. Sane(k.prog) /\ Sane(k.next)
    BY <1>1, <2>2 DEF Custody, SaneJournals
  <2>5. Agrees(d, k)
    BY <1>1, <2>2, <2>3 DEF Agrees, Settled, Persisting
  <2> QED BY <1>0, <1>1, <2>1, <2>3, <2>4, <2>5, OwnerWrites
<1>4. CASE Fail(w, "raw") /\ jn' = jn
  <2>1. Calm
    BY <1>0, <1>4, CalmStill
  <2> QED BY <1>4, <2>1, CalmFail
<1> QED BY <1>3, <1>4 DEF WriteNext

LEMMA RenameNextCustody ==
    ASSUME Custody, Shape', NEW w \in Worker, RenameNext(w)
    PROVE  Custody'
<1> DEFINE t == drv[w].tx
           k == [jn[t] EXCEPT !.prog = jn[t].next, !.next = NoProgress]
           d == [drv[w] EXCEPT !.pc = drv[w].back, !.sync = ProgressSync]
<1>0. drv[w].pc \in Persisting /\ drv[w].pc = "rename" /\ UNCHANGED <<disk, ops>>
  BY DEF RenameNext, At, Persisting
<1>1. /\ t \in TxId /\ Sane(drv[w].mem) /\ InPhase(drv[w].back, drv[w].mem.phase)
      /\ drv[w].back \in Settled /\ jn[t].next \in {NoProgress, drv[w].mem}
  BY <1>0, PersistingKnows
<1>2. drv \in [Worker -> Driver] /\ drv[w] \in Driver /\ jn \in [TxId -> Journal] /\ jn[t] \in Journal
  BY <1>1 DEF Custody, Shape, Registers, Files
<1>3. CASE /\ jn[t].next # NoProgress
           /\ jn' = [jn EXCEPT ![t].prog = jn[t].next, ![t].next = NoProgress]
           /\ drv' = [drv EXCEPT ![w].pc = drv[w].back, ![w].sync = ProgressSync]
  <2>1. jn' = [jn EXCEPT ![t] = k] /\ drv' = [drv EXCEPT ![w] = d]
    BY <1>1, <1>2, <1>3
  <2>2. k.prog = drv[w].mem /\ k.next = NoProgress
    BY <1>1, <1>2, <1>3 DEF Journal
  <2>3. d.tx = t /\ d.pc = drv[w].back /\ d.mem = drv[w].mem
    BY <1>2 DEF Driver
  <2> HIDE DEF k, d
  <2>4. Sane(k.prog) /\ Sane(k.next)
    BY <1>1, <2>2, SaneNoProgress
  <2>5. Agrees(d, k)
    BY <1>1, <2>2, <2>3 DEF Agrees, Settled, Persisting
  <2> QED BY <1>0, <1>1, <2>1, <2>3, <2>4, <2>5, OwnerWrites
<1>4. CASE Fail(w, "raw") /\ jn' = jn
  <2>1. Calm
    BY <1>0, <1>4, CalmStill
  <2> QED BY <1>4, <2>1, CalmFail
<1> QED BY <1>3, <1>4 DEF RenameNext

LEMMA BeginCustody ==
    ASSUME Custody, Shape', NEW w \in Worker, NEW t \in TxId, Begin(w, t)
    PROVE  Custody'
<1> DEFINE mem == [phase |-> "begun", bound |-> FALSE, published |-> 0]
           k == [jn[t] EXCEPT !.root = TRUE]
           d == [drv[w] EXCEPT !.tx = t, !.ops = <<>>, !.pc = "clear", !.mem = mem,
                               !.back = "mkStaging", !.sync = "transactions"]
<1>0. drv \in [Worker -> Driver] /\ drv[w] \in Driver /\ jn \in [TxId -> Journal] /\ ops \in [TxId -> Manifest]
  BY DEF Custody, Shape, Registers, Files
<1>1. /\ ops[t] = <<>> /\ jn[t] = NoJournal /\ disk.jn[t] = NoJournal /\ disk' = disk
      /\ \A u \in Worker : drv[u].tx # t
  BY DEF Begin, Unused, Custody, UnusedIsBlank
<1>2. CASE Return(w, "revision_conflict") /\ UNCHANGED <<jn, ops>>
  <2>1. Calm
    BY <1>1, <1>2, CalmStill
  <2> QED BY <1>2, <2>1, CalmIdle DEF Return
<1>3. CASE /\ jn' = [jn EXCEPT ![t].root = TRUE]
           /\ ops' = [ops EXCEPT ![t] = drv[w].ops]
           /\ drv' = [drv EXCEPT ![w].tx = t, ![w].ops = <<>>, ![w].pc = "clear",
                                 ![w].mem = mem, ![w].back = "mkStaging",
                                 ![w].sync = "transactions"]
  <2>1. jn' = [jn EXCEPT ![t] = k] /\ drv' = [drv EXCEPT ![w] = d]
    BY <1>0, <1>3
  <2>2. k.prog = NoProgress /\ k.next = NoProgress
    BY <1>1 DEF NoJournal
  <2>3. d.tx = t /\ d.pc = "clear" /\ d.mem = mem /\ d.back = "mkStaging"
    BY <1>0 DEF Driver
  <2>4. Sane(mem) /\ Replaces(mem, NoProgress) /\ InPhase("mkStaging", mem.phase)
    BY DEF Sane, Replaces, LegalTransitions, InPhase, NoProgress
  <2> HIDE DEF k, d, mem
  <2>5. Agrees(d, k)
    BY <2>2, <2>3, <2>4 DEF Agrees, Settled, Persisting
  <2>6. \A u \in Worker : drv'[u] = IF u = w THEN d ELSE drv[u]
    BY <1>0, <2>1
  <2>7. \A u \in TxId : /\ jn'[u] = IF u = t THEN k ELSE jn[u]
                        /\ ops'[u] = IF u = t THEN drv[w].ops ELSE ops[u]
    BY <1>0, <1>3, <2>1
  <2>8. drv[w].ops # <<>>
    BY OwnCustody DEF Begin, At, DriverShape, ValidPlan
  <2>9. SoleDriver'
    BY <1>1, <2>3, <2>6 DEF Custody, SoleDriver
  <2>10. UnusedIsBlank'
    BY <1>1, <2>3, <2>6, <2>7, <2>8 DEF Custody, UnusedIsBlank
  <2>11. SaneJournals'
    BY <1>1, <2>2, <2>7, SaneNoProgress DEF Custody, SaneJournals
  <2>12. DriversAgree'
    BY <1>1, <2>3, <2>5, <2>6, <2>7 DEF Custody, DriversAgree
  <2> QED BY <2>9, <2>10, <2>11, <2>12 DEF Custody
<1> QED BY <1>2, <1>3 DEF Begin

LEMMA SyncCustody ==
    ASSUME Custody, Shape', NEW w \in Worker, Sync(w)
    PROVE  Custody'
<1> DEFINE t == drv[w].tx
<1>0. /\ jn' = jn /\ ops' = ops /\ drv[w] \in Driver /\ drv \in [Worker -> Driver]
      /\ jn \in [TxId -> Journal] /\ disk.jn \in [TxId -> Journal]
      /\ disk \in [dest : [Path -> Fingerprint], jn : [TxId -> Journal],
                   applied : [TxId -> SUBSET (1 .. MaxOps)]]
  BY DEF Sync, Custody, Shape, Registers, Files
<1>1. ASSUME NEW u \in TxId
      PROVE  /\ disk'.jn[u].prog \in {disk.jn[u].prog, jn[u].prog, NoProgress}
             /\ disk'.jn[u].next \in {disk.jn[u].next, jn[u].next, NoProgress}
             /\ ops[u] = <<>> => disk'.jn[u] = NoJournal
  <2>0. jn[u] \in Journal /\ disk.jn[u] \in Journal
    BY <1>0, <1>1
  <2>1. ops[u] = <<>> => jn[u] = NoJournal /\ disk.jn[u] = NoJournal /\ u # t
    BY <1>1 DEF Custody, UnusedIsBlank
  <2>2. /\ NoJournal.prog = NoProgress /\ NoJournal.next = NoProgress /\ NoJournal.root = FALSE
        /\ NoJournal.pay = NoPayloads /\ NoJournal \in Journal
    BY EmptyJournal DEF NoJournal
  <2>3. CASE disk' = disk
    BY <2>1, <2>3
  <2>4. CASE disk' = SyncTransactions
    <3>1. disk'.jn[u] = IF jn[u].root THEN [disk.jn[u] EXCEPT !.root = TRUE] ELSE NoJournal
      BY <1>0, <2>4 DEF SyncTransactions
    <3>2. LET k == [disk.jn[u] EXCEPT !.root = TRUE]
          IN  k.prog = disk.jn[u].prog /\ k.next = disk.jn[u].next
      BY <2>0 DEF Journal
    <3> QED BY <2>1, <2>2, <3>1, <3>2
  <2>5. CASE t \in TxId /\ disk' = SyncRoot(t)
    <3> DEFINE pay == IF jn[t].staging THEN disk.jn[t].pay ELSE jn[t].pay
               k == [jn[t] EXCEPT !.root = disk.jn[t].root, !.pay = pay]
    <3>1. jn[t] \in Journal
      BY <1>0, <2>5
    <3>2. disk' = [disk EXCEPT !.jn[t] = k]
      BY <2>5, <3>1 DEF SyncRoot, Journal
    <3>3. k.prog = jn[t].prog /\ k.next = jn[t].next
      BY <3>1 DEF Journal
    <3> HIDE DEF k
    <3>4. disk'.jn[u] = IF u = t THEN k ELSE disk.jn[u]
      BY <1>0, <2>5, <3>2
    <3> QED BY <2>1, <3>3, <3>4
  <2>6. CASE t \in TxId /\ disk' = SyncStaging(t)
    <3> DEFINE k == [disk.jn[t] EXCEPT !.pay = jn[t].pay]
    <3>1. disk.jn[t] \in Journal
      BY <1>0, <2>6
    <3>2. disk' = [disk EXCEPT !.jn[t] = k]
      BY <1>0, <2>6 DEF SyncStaging
    <3>3. k.prog = disk.jn[t].prog /\ k.next = disk.jn[t].next
      BY <3>1 DEF Journal
    <3> HIDE DEF k
    <3>4. disk'.jn[u] = IF u = t THEN k ELSE disk.jn[u]
      BY <1>0, <2>6, <3>2
    <3> QED BY <2>1, <3>3, <3>4
  <2>7. CASE \E p : disk' = SyncParent(p)
    <3>1. PICK p : disk' = SyncParent(p)
      BY <2>7
    <3> DEFINE now == {i \in applied[u] : ops[u][i].path \in Siblings(p)}
               pay == [i \in 1 .. MaxOps |-> IF i \in now THEN "missing" ELSE disk.jn[u].pay[i]]
    <3>2. disk'.jn[u] = [disk.jn[u] EXCEPT !.pay = pay]
      BY <3>1 DEF SyncParent
    <3>3. ops[u] = <<>> => pay = NoPayloads
      <4> SUFFICES ASSUME ops[u] = <<>> PROVE pay = NoPayloads
        OBVIOUS
      <4>1. disk.jn[u].pay = NoPayloads
        BY <2>1, <2>2
      <4> QED BY <4>1 DEF NoPayloads
    <3> HIDE DEF pay
    <3>4. LET k == [disk.jn[u] EXCEPT !.pay = pay]
          IN  k.prog = disk.jn[u].prog /\ k.next = disk.jn[u].next
      BY <2>0 DEF Journal
    <3>5. [NoJournal EXCEPT !.pay = NoPayloads] = NoJournal
      BY <2>2 DEF Journal
    <3> QED BY <2>1, <3>2, <3>3, <3>4, <3>5
  <2>8. drv[w].sync \in {"root", "staging"} => t \in TxId
    BY OwnCustody DEF DriverShape
  <2>9. \/ disk' = disk \/ disk' = SyncTransactions
        \/ drv[w].sync = "root" /\ disk' = SyncRoot(t)
        \/ drv[w].sync = "staging" /\ disk' = SyncStaging(t)
        \/ disk' = SyncParent(Op(w).path)
    BY DEF Sync
  <2> QED BY <2>3, <2>4, <2>5, <2>6, <2>7, <2>8, <2>9
<1>2. PICK d : /\ drv' = [drv EXCEPT ![w] = d] /\ d.tx = t /\ d.mem = drv[w].mem
               /\ (d.pc = "failed" \/ (d.pc = drv[w].pc /\ d.back = drv[w].back))
  <2> DEFINE sure == drv[w].sure \/ drv[w].pc = "publish"
  <2>1. CASE \E why : Fail(w, why)
    <3>1. PICK why : Fail(w, why)
      BY <2>1
    <3> DEFINE e == [drv[w] EXCEPT !.pc = "failed", !.why = why, !.sync = "none"]
    <3>2. drv' = [drv EXCEPT ![w] = e] /\ e.tx = t /\ e.mem = drv[w].mem /\ e.pc = "failed"
      BY <1>0, <3>1 DEF Fail, Driver
    <3> QED BY <3>2
  <2>2. CASE drv' = [drv EXCEPT ![w].sync = "none", ![w].sure = sure]
    <3> DEFINE e == [drv[w] EXCEPT !.sync = "none", !.sure = sure]
    <3>1. drv' = [drv EXCEPT ![w] = e]
      BY <1>0, <2>2
    <3>2. /\ e.tx = t /\ e.mem = drv[w].mem
          /\ e.pc = drv[w].pc /\ e.back = drv[w].back
      BY <1>0 DEF Driver
    <3> QED BY <3>1, <3>2
  <2> QED BY <2>1, <2>2 DEF Sync
<1>3. \A u \in Worker : drv'[u] = IF u = w THEN d ELSE drv[u]
  BY <1>0, <1>2
<1>4. SoleDriver'
  BY <1>2, <1>3 DEF Custody, SoleDriver
<1>5. UnusedIsBlank'
  BY <1>0, <1>1, <1>2, <1>3 DEF Custody, UnusedIsBlank
<1>6. SaneJournals'
  BY <1>0, <1>1, SaneNoProgress DEF Custody, SaneJournals
<1>7. t \in TxId => Agrees(d, jn[t])
  BY <1>2, OwnCustody DEF Agrees, Settled, Persisting
<1>8. DriversAgree'
  BY <1>0, <1>2, <1>3, <1>7 DEF Custody, DriversAgree
<1> QED BY <1>4, <1>5, <1>6, <1>8 DEF Custody

LEMMA PowerLossCustody ==
    ASSUME Custody, Shape', PowerLoss
    PROVE  Custody'
<1>0. PICK J \in SUBSET TxId, D \in SUBSET Path :
         LET kept(t) == disk.applied[t] \cup {i \in applied[t] : ops[t][i].path \in D}
             base(t) == IF t \in J THEN jn[t] ELSE disk.jn[t]
             left(t) ==
               [base(t) EXCEPT !.pay = [i \in 1 .. MaxOps |->
                  CASE i \in kept(t) \/ ~base(t).staging -> "missing"
                    [] i \in applied[t] \ kept(t)        -> disk.jn[t].pay[i]
                    [] OTHER                             -> base(t).pay[i]]]
             now == [p \in Path |-> IF p \in D THEN dest[p] ELSE disk.dest[p]]
         IN  /\ dest' = now
             /\ jn' = [t \in TxId |-> IF base(t).root THEN left(t) ELSE NoJournal]
             /\ applied' = [t \in TxId |-> kept(t)]
             /\ disk' = [dest |-> dest', jn |-> jn', applied |-> applied']
  BY DEF PowerLoss
<1> DEFINE base(t) == IF t \in J THEN jn[t] ELSE disk.jn[t]
<1>1. ASSUME NEW t \in TxId
      PROVE  /\ jn'[t].prog \in {jn[t].prog, disk.jn[t].prog, NoProgress}
             /\ jn'[t].next \in {jn[t].next, disk.jn[t].next, NoProgress}
             /\ ops[t] = <<>> => jn'[t] = NoJournal
  <2>1. base(t) \in Journal /\ base(t) \in {jn[t], disk.jn[t]}
    BY <1>1 DEF Custody, Shape, Files
  <2>2. /\ NoJournal.root = FALSE /\ NoJournal.prog = NoProgress /\ NoJournal.next = NoProgress
        /\ ops[t] = <<>> => base(t) = NoJournal
    BY <1>1 DEF Custody, UnusedIsBlank, NoJournal
  <2>3. jn'[t] = NoJournal \/ (base(t).root /\ \E pay : jn'[t] = [base(t) EXCEPT !.pay = pay])
    BY <1>0
  <2>4. base(t).root => ops[t] # <<>>
    BY <2>2
  <2> HIDE DEF base
  <2>5. \A pay : LET k == [base(t) EXCEPT !.pay = pay] IN k.prog = base(t).prog /\ k.next = base(t).next
    BY <2>1 DEF Journal
  <2> QED BY <2>1, <2>2, <2>3, <2>4, <2>5
<1>2. drv' = [w \in Worker |-> Idle] /\ ops' = ops /\ disk'.jn = jn' /\ Idle.tx = NoTx
  BY <1>0 DEF PowerLoss, Idle
<1>3. SoleDriver' /\ DriversAgree'
  BY <1>2, InstanceAssumption DEF SoleDriver, DriversAgree
<1>4. UnusedIsBlank'
  BY <1>1, <1>2, InstanceAssumption DEF UnusedIsBlank
<1>5. SaneJournals'
  BY <1>1, <1>2, SaneNoProgress DEF Custody, SaneJournals
<1> QED BY <1>3, <1>4, <1>5 DEF Custody

LEMMA EnvironmentCustody ==
    ASSUME Custody, Shape', Environment
    PROVE  Custody'
<1>1. ASSUME NEW w \in Worker, Crash(w) PROVE Custody'
  BY <1>1, CalmStill, CalmIdle DEF Crash
<1>2. ASSUME NEW w \in Worker, Fault(w) PROVE Custody'
  <2>1. Calm
    BY <1>2, CalmStill DEF Fault
  <2>2. drv' = [drv EXCEPT ![w] = Idle] \/ Fail(w, "raw")
    BY <1>2 DEF Fault, Return
  <2> QED BY <2>1, <2>2, CalmIdle, CalmFail
<1>3. ASSUME NEW p \in Path, NEW c \in Content \cup {Missing}, Edit(p, c) PROVE Custody'
  <2>1. disk'.jn = disk.jn /\ UNCHANGED <<jn, ops, drv>>
    BY <1>3 DEF Edit, Custody, Shape, Files
  <2>2. SoleDriver' /\ DriversAgree'
    BY <2>1 DEF Custody, SoleDriver, DriversAgree
  <2>3. UnusedIsBlank' /\ SaneJournals'
    BY <2>1 DEF Custody, UnusedIsBlank, SaneJournals
  <2> QED BY <2>2, <2>3 DEF Custody
<1> QED BY <1>1, <1>2, <1>3, PowerLossCustody DEF Environment

-----------------------------------------------------------------------------
(* Custody is inductive, and what follows from it.                         *)

LEMMA InitCustody == Init => Custody
<1> SUFFICES ASSUME Init PROVE Custody
  OBVIOUS
<1>1. Idle.tx = NoTx /\ NoJournal.prog = NoProgress /\ NoJournal.next = NoProgress
  BY DEF Idle, NoJournal
<1>2. SoleDriver /\ DriversAgree
  BY <1>1, InstanceAssumption DEF Init, SoleDriver, DriversAgree
<1>3. UnusedIsBlank
  BY <1>1, InstanceAssumption DEF Init, UnusedIsBlank
<1>4. SaneJournals
  BY <1>1, SaneNoProgress DEF Init, SaneJournals
<1> QED BY <1>2, <1>3, <1>4, InitShape DEF Custody

LEMMA StepCustody ==
    ASSUME Custody, Shape', NEW w \in Worker, Step(w)
    PROVE  Custody'
<1>1. CASE Preflight(w)
  BY <1>1, ReconcileCustody, UnmarkCustody, ObserveCustody DEF Preflight
<1>2. CASE PersistProgress(w)
  BY <1>2, ClearNextCustody, WriteNextCustody, RenameNextCustody DEF PersistProgress
<1>3. CASE DriveExecution(w)
  BY <1>3, BeginCustody, StagingCustody, PrepareCustody, AuthorizeCustody,
     CheckPublishableCustody, CommitCustody DEF DriveExecution
<1>4. CASE Publish(w) \/ DriveRecovery(w)
  BY <1>4, StagingCustody, VerifyCustody, DecideCustody, RecheckCustody DEF Publish, DriveRecovery
<1>5. CASE Conclude(w)
  BY <1>5, StagingCustody, FinishCustody, CleanupUnmarkedCustody, ClassifyCustody DEF Conclude
<1> QED BY <1>1, <1>2, <1>3, <1>4, <1>5, SyncCustody DEF Step

LEMMA NextCustody ==
    ASSUME ~RecoverLive
    PROVE  Custody /\ [Next]_vars => Custody'
<1> SUFFICES ASSUME Custody, [Next]_vars PROVE Custody'
  OBVIOUS
<1>1. Shape'
  BY NextKeepsShape DEF Custody
<1>2. CASE UNCHANGED vars
  <2>1. UNCHANGED <<jn, disk, ops, drv>>
    BY <1>2 DEF vars
  <2>2. SoleDriver' /\ DriversAgree' /\ UnusedIsBlank' /\ SaneJournals'
    BY <2>1 DEF Custody, SoleDriver, DriversAgree, UnusedIsBlank, SaneJournals
  <2> QED BY <1>1, <2>2 DEF Custody
<1>3. CASE Next
  BY <1>1, <1>3, StepCustody, SubmitCustody, RecoverCustody, EnvironmentCustody DEF Next, Call
<1> QED BY <1>2, <1>3

\* Only the rename of progress.next moves a phase, and it moves it legally.
LEMMA ProgressMoves ==
    ASSUME Custody, Shape', [Next]_vars, NEW t \in TxId
    PROVE  \/ jn'[t].prog.phase = jn[t].prog.phase
           \/ <<jn[t].prog.phase, jn'[t].prog.phase>> \in LegalTransitions
           \/ budget'.power # budget.power
<1>0. jn \in [TxId -> Journal] /\ budget.power \in Int
  BY InstanceAssumption DEF Custody, Shape, Files
<1>1. CASE UNCHANGED vars
  BY <1>1 DEF vars
<1>2. CASE Environment
  <2>1. CASE PowerLoss
    BY <1>0, <2>1 DEF PowerLoss, Custody, Shape, Files
  <2>2. CASE ~PowerLoss
    BY <1>2, <2>2 DEF Environment, Crash, Fault, Edit
  <2> QED BY <2>1, <2>2
<1>3. ASSUME NEW w \in Worker, Call(w) PROVE jn' = jn
  BY <1>3 DEF Call, Submit, Recover
<1>4. ASSUME NEW w \in Worker, Step(w)
      PROVE  \/ jn'[t].prog.phase = jn[t].prog.phase
             \/ <<jn[t].prog.phase, jn'[t].prog.phase>> \in LegalTransitions
  <2>1. CASE Calm
    BY <2>1 DEF Calm
  <2>2. CASE UNCHANGED jn
    BY <2>2
  <2>3. CASE \/ Sync(w) \/ (\E u \in TxId : ReconcileUnmarked(w, u)) \/ ReconcileDone(w)
             \/ Inspect(w) \/ Prepare(w) \/ Authorize(w) \/ CheckPublishable(w)
             \/ Commit(w) \/ Verify(w) \/ Finish(w) \/ CleanupUnmarked(w)
    BY <2>2, <2>3 DEF Sync, ReconcileUnmarked, ReconcileDone, Inspect, Prepare,
       Authorize, CheckPublishable, Commit, Verify, Finish, CleanupUnmarked
  <2>4. CASE Observe(w) \/ Decide(w) \/ Recheck(w) \/ Classify(w)
    BY <2>2, <2>4 DEF Observe, Decide, Recheck, Classify
  <2>5. CASE UnmarkNext(w) \/ UnmarkDirectory(w)
    BY <2>1, <2>5, UnmarkCalm
  <2>6. CASE \/ ClearNext(w) \/ MakeStaging(w) \/ Stage(w) \/ FillPayload(w) \/ WriteManifest(w)
             \/ FillManifest(w) \/ Apply(w) \/ CleanupStep(w)
    BY <2>1, <2>6, JournalActionCalm
  <2>7. CASE \E u \in TxId : Begin(w, u)
    <3>1. PICK u \in TxId : jn' = jn \/ jn' = [jn EXCEPT ![u].root = TRUE]
      BY <2>7 DEF Begin
    <3>2. jn'[t] = jn[t] \/ jn'[t] = [jn[t] EXCEPT !.root = TRUE]
      BY <1>0, <3>1
    <3>3. jn[t] \in Journal
      BY <1>0
    <3> QED BY <3>2, <3>3 DEF Journal
  <2>8. CASE WriteNext(w)
    <3>1. jn'[t] = jn[t] \/ jn'[t] = [jn[t] EXCEPT !.next = drv[w].mem]
      BY <1>0, <2>8 DEF WriteNext
    <3>2. jn[t] \in Journal
      BY <1>0
    <3> QED BY <3>1, <3>2 DEF Journal
  <2>9. CASE RenameNext(w)
    <3>1. drv[w].pc \in Persisting /\ drv[w].pc = "rename"
      BY <2>9 DEF RenameNext, At, Persisting
    <3>2. Replaces(drv[w].mem, jn[drv[w].tx].prog) /\ jn[drv[w].tx].next \in {NoProgress, drv[w].mem}
      BY <3>1, PersistingKnows
    <3>3. CASE jn' = jn
      BY <3>3
    <3>4. CASE /\ jn[drv[w].tx].next # NoProgress
               /\ jn' = [jn EXCEPT ![drv[w].tx].prog = jn[drv[w].tx].next,
                                   ![drv[w].tx].next = NoProgress]
      <4>1. CASE t # drv[w].tx
        BY <1>0, <3>4, <4>1
      <4>2. CASE t = drv[w].tx
        <5>1. jn'[t] = [jn[t] EXCEPT !.prog = jn[t].next, !.next = NoProgress] /\ jn[t] \in Journal
          BY <1>0, <3>4, <4>2
        <5>2. jn'[t].prog = drv[w].mem
          <6>1. [jn[t] EXCEPT !.prog = jn[t].next, !.next = NoProgress].prog = jn[t].next
            BY <5>1 DEF Journal
          <6> QED BY <3>2, <3>4, <4>2, <5>1, <6>1
        <5> QED BY <3>2, <4>2, <5>2 DEF Replaces
      <4> QED BY <4>1, <4>2
    <3> QED BY <2>9, <3>3, <3>4 DEF RenameNext
  <2> QED BY <1>4, <2>3, <2>4, <2>5, <2>6, <2>7, <2>8, <2>9
      DEF Step, Preflight, PersistProgress, DriveExecution, Publish, DriveRecovery, Conclude
<1> QED BY <1>1, <1>2, <1>3, <1>4 DEF Next

\* As long as nobody asks to recover a transaction that is still driven, no
\* interleaving of executors, recoveries and clean-ups, no crash, fault or edit
\* moves a transaction against the legal order of its phases, and a committed or
\* aborted one stays what it is: persistProgress need not re-read progress.json.
THEOREM PhasesForward ==
    ASSUME ~RecoverLive
    PROVE  Spec => PhasesMoveForward
<1> DEFINE Legal == \A t \in TxId :
                      \/ jn'[t].prog.phase = jn[t].prog.phase
                      \/ <<jn[t].prog.phase, jn'[t].prog.phase>> \in LegalTransitions
                      \/ budget'.power # budget.power
<1>1. Init => Custody
  BY InitCustody
<1>2. Custody /\ [Next]_vars => Custody'
  BY NextCustody
<1>3. Custody /\ Custody' /\ [Next]_vars => [Legal]_vars
  BY ProgressMoves DEF Custody
<1>4. PhasesMoveForward <=> [][Legal]_vars
  BY DEF PhasesMoveForward
<1> HIDE DEF Legal
<1> QED BY <1>1, <1>2, <1>3, <1>4, PTL DEF Spec

\* Effects appear only under a progress document that authorises them.
LEMMA EffectsAuthorized ==
    ASSUME Custody, Shape', PublishedOnlyWhenAuthorized, [Next]_vars, MaxPower = 0
    PROVE  PublishedOnlyWhenAuthorized'
<1>0. budget.power = 0 /\ budget'.power = 0
  BY DEF Custody, Shape, Files
<1>1. ASSUME NEW t \in TxId, applied[t] # {} PROVE jn'[t].prog.phase \in {"publishing", "committed"}
  BY <1>0, <1>1, ProgressMoves DEF PublishedOnlyWhenAuthorized, LegalTransitions
<1>2. CASE applied' = applied
  BY <1>1, <1>2 DEF PublishedOnlyWhenAuthorized
<1>3. ASSUME NEW w \in Worker, Apply(w) PROVE PublishedOnlyWhenAuthorized'
  <2>1. Calm /\ drv[w].pc \in Settled /\ drv[w].pc = "apply"
    BY <1>3, JournalActionCalm DEF Apply, At, Settled
  <2>2. drv[w].tx \in TxId /\ jn[drv[w].tx].prog.phase = "publishing"
    BY <2>1, SettledKnows DEF InPhase
  <2>3. jn'[drv[w].tx].prog.phase = "publishing"
    BY <2>1, <2>2 DEF Calm
  <2>4. ASSUME NEW t \in TxId, t # drv[w].tx PROVE applied'[t] = applied[t]
    BY <1>3, <2>4 DEF Apply, Custody, Shape, Files
  <2>5. ASSUME NEW t \in TxId, applied'[t] # {} PROVE jn'[t].prog.phase \in {"publishing", "committed"}
    BY <1>1, <2>3, <2>4, <2>5
  <2> QED BY <2>5 DEF PublishedOnlyWhenAuthorized
<1>4. CASE UNCHANGED vars
  BY <1>2, <1>4 DEF vars
<1>5. CASE Environment
  <2>1. ~PowerLoss
    BY <1>0 DEF PowerLoss
  <2> QED BY <1>2, <1>5, <2>1 DEF Environment, Crash, Fault, Edit
<1>6. ASSUME NEW w \in Worker, Call(w) PROVE applied' = applied
  BY <1>6 DEF Call, Submit, Recover
<1>7. ASSUME NEW w \in Worker, Step(w) PROVE applied' = applied \/ Apply(w)
  <2>1. CASE Preflight(w)
    <3>1. CASE \/ (\E u \in TxId : ReconcileUnmarked(w, u)) \/ UnmarkNext(w)
               \/ ReconcileDone(w) \/ Inspect(w)
      BY <3>1 DEF ReconcileUnmarked, UnmarkNext, ReconcileDone, Inspect
    <3>2. CASE UnmarkDirectory(w) \/ Observe(w)
      BY <3>2 DEF UnmarkDirectory, Observe
    <3> QED BY <2>1, <3>1, <3>2 DEF Preflight
  <2>2. CASE PersistProgress(w)
    BY <2>2 DEF PersistProgress, ClearNext, WriteNext, RenameNext
  <2>3. CASE DriveExecution(w)
    BY <2>3 DEF DriveExecution, Begin, MakeStaging, Stage, FillPayload, WriteManifest, FillManifest,
       Prepare, Authorize, CheckPublishable, Commit
  <2>4. CASE Sync(w) \/ Verify(w) \/ Decide(w) \/ Recheck(w)
    BY <2>4 DEF Sync, Verify, Decide, Recheck
  <2>5. CASE Conclude(w)
    BY <2>5 DEF Conclude, CleanupStep, Finish, CleanupUnmarked, Classify
  <2> QED BY <1>7, <2>1, <2>2, <2>3, <2>4, <2>5 DEF Step, Publish, DriveRecovery
<1> QED BY <1>2, <1>3, <1>4, <1>5, <1>6, <1>7 DEF Next

\* Short of power losses, and as long as nobody recovers a transaction that is
\* still driven, no destination ever changes on behalf of a transaction whose
\* progress document does not say "publishing" or "committed", and an aborted
\* transaction left no effect: for any number of racing drivers, crashes between
\* any two calls, faults and edits.
THEOREM NothingUnauthorized ==
    ASSUME ~RecoverLive, MaxPower = 0
    PROVE  Spec => []PublishedOnlyWhenAuthorized
<1>1. Init => Custody /\ PublishedOnlyWhenAuthorized
  BY InitCustody DEF Init, PublishedOnlyWhenAuthorized
<1>2. Custody /\ PublishedOnlyWhenAuthorized /\ [Next]_vars => (Custody /\ PublishedOnlyWhenAuthorized)'
  <2>1. Custody /\ [Next]_vars => Custody'
    BY NextCustody
  <2> QED BY <2>1, EffectsAuthorized DEF Custody
<1> QED BY <1>1, <1>2, PTL DEF Spec

-----------------------------------------------------------------------------
(***************************************************************************)
(* Why receipts and refusals are true, for any number of racing drivers,   *)
(* transactions, plans, crashes and edits: every payload the journal of a  *)
(* publishing transaction misses was published, a driver that reached      *)
(* "committed" accounts for every file of its manifest, and nobody can     *)
(* resume a transaction whose caller was told that nothing happened.       *)
(***************************************************************************)

\* The phases under which destinations may change.
Taken == {"publishing", "committed"}

\* Every file of the manifest o took effect.
Written(o, eff) == \A i \in 1 .. Len(o) : Staged(o[i]) => i \in eff

\* What the journal j of the manifest o says of the operations that took effect.
Accounts(j, o, eff) ==
    /\ j.prog.phase \in {"prepared", "publishing"} =>
          \A i \in 1 .. Len(o) : Staged(o[i]) /\ j.pay[i] = "missing" => i \in eff
    /\ j.prog.phase = "committed" => Written(o, eff)

\* Recovery never enters the executor's code, nor the executor recovery's.
RecoveryPlaces == Persisting \cup Failing \cup
                  {"decide", "recheck", "apply", "verify", "cleanup", "finish", "unNext", "unDir"}

\* Which code a driver is in, what it may blame, and where it starts staging.
Lane(d) ==
    /\ d.why # "internal_failure"
    /\ d.tx = NoTx => d.mode = "exec"
    /\ d.mode = "rec" => d.pc \in RecoveryPlaces
    /\ d.mode = "rec" /\ d.pc \in Persisting => d.back \in {"decide", "cleanup"}
    /\ d.mode = "exec" => d.pc \notin {"decide", "recheck"}
    /\ d.mode = "exec" /\ d.pc \in Persisting \cup {"cleanup"} => d.back # "decide"
    /\ d.tx = NoTx \/ d.pc = "mkStaging" \/ (d.pc \in Persisting /\ d.back = "mkStaging") => d.idx = 1

\* What the driver d knows of its payloads and of the effects of its manifest.
Knows(d, j, o, eff) ==
    /\ d.pc \in Persisting /\ d.mem.phase = "prepared" => PayloadsComplete(o, j.pay)
    /\ d.pc \in Persisting /\ d.mem.phase = "committed" => Written(o, eff)
    /\ d.pc \in {"stage", "fill"} => \A i \in 1 .. Len(o) : Staged(o[i]) /\ i < d.idx => j.pay[i] = "full"
    /\ d.pc \in {"manifest", "fillManifest", "precheck"} => PayloadsComplete(o, j.pay)
    /\ \/ d.pc = "publish"
       \/ d.pc \in Persisting /\ d.back = "publish"
       \/ d.pc = "apply" /\ d.mode = "exec"
       => 1 .. d.mem.published \subseteq eff
    /\ d.pc = "verify" /\ d.mode = "exec" => 1 .. d.mem.published + 1 \subseteq eff
    /\ d.pc \in {"unNext", "unDir"} /\ d.tx = d.tgt => j.prog = NoProgress
    /\ d.mode = "rec" => j.prog # NoProgress
    /\ d.mode = "rec" /\ d.mem.phase \in Taken => j.prog.phase \in Taken

\* What an answer claims of the progress document of its transaction.
Claim(code, prog) ==
    /\ code \in {"committed", "aborted"} => prog.phase = code
    /\ code = "revision_conflict" => prog.phase \notin Taken
    /\ code = "internal_failure" => prog = NoProgress

\* A caller that was refused has nobody left who executes its transaction.
Told(code, t) ==
    /\ Claim(code, jn[t].prog)
    /\ ops[t] # <<>>
    /\ code \in {"revision_conflict", "internal_failure"} =>
          \A u \in Worker : drv[u].tx = t => drv[u].mode = "rec"

Accounted == \A t \in TxId : Accounts(jn[t], ops[t], applied[t])

InLane == \A w \in Worker : Lane(drv[w])

Knowing ==
    \A w \in Worker : drv[w].tx \in TxId =>
        Knows(drv[w], jn[drv[w].tx], ops[drv[w].tx], applied[drv[w].tx])

AllTold == \A w \in Worker : answer[w].tx \in TxId => Told(answer[w].code, answer[w].tx)

Honest == Custody /\ Accounted /\ InLane /\ Knowing /\ AllTold

-----------------------------------------------------------------------------
(* What a step of one driver leaves true.                                  *)

\* The progress document, the payloads and the effects of t stay.
Same(t) == jn'[t].prog = jn[t].prog /\ jn'[t].pay = jn[t].pay /\ applied'[t] = applied[t]

LEMMA AccountsSame ==
    ASSUME NEW j, NEW k, NEW o, NEW eff, Accounts(j, o, eff), k.prog = j.prog, k.pay = j.pay
    PROVE  Accounts(k, o, eff)
BY DEF Accounts

LEMMA KnowsSame ==
    ASSUME NEW d, NEW j, NEW k, NEW o, NEW eff, Knows(d, j, o, eff), k.prog = j.prog, k.pay = j.pay
    PROVE  Knows(d, k, o, eff)
BY DEF Knows

LEMMA BlankAccounts ==
    ASSUME NEW j, NEW o, NEW eff, j.prog = NoProgress
    PROVE  Accounts(j, o, eff)
BY ProgressFacts DEF Accounts

LEMMA HonestFacts ==
    ASSUME Honest
    PROVE  /\ drv \in [Worker -> Driver] /\ jn \in [TxId -> Journal] /\ ops \in [TxId -> Manifest]
           /\ applied \in [TxId -> SUBSET (1 .. MaxOps)]
           /\ answer \in [Worker -> [code : Code, tx : TxId \cup {NoTx}]]
           /\ \A t \in TxId : Accounts(jn[t], ops[t], applied[t])
           /\ \A w \in Worker : Lane(drv[w])
           /\ \A w \in Worker : drv[w].tx \in TxId =>
                 Knows(drv[w], jn[drv[w].tx], ops[drv[w].tx], applied[drv[w].tx])
           /\ \A w \in Worker : answer[w].tx \in TxId => Told(answer[w].code, answer[w].tx)
BY DEF Honest, Custody, Shape, Registers, Files, Accounted, InLane, Knowing, AllTold

\* A transaction that is driven or marked has a manifest.
LEMMA Identified ==
    ASSUME Custody, NEW t \in TxId,
           (\E w \in Worker : drv[w].tx = t) \/ jn[t].prog # NoProgress
    PROVE  ops[t] # <<>>
<1>1. NoJournal.prog = NoProgress
  BY DEF NoJournal
<1> QED BY <1>1 DEF Custody, UnusedIsBlank

\* Replacing a progress document contradicts nothing a caller was told.
LEMMA ClaimReplaced ==
    ASSUME Custody, NEW w \in Worker, drv[w].pc \in Persisting, NEW code,
           NEW o, NEW eff, Knows(drv[w], jn[drv[w].tx], o, eff),
           Claim(code, jn[drv[w].tx].prog),
           code \in {"revision_conflict", "internal_failure"} => drv[w].mode = "rec"
    PROVE  Claim(code, drv[w].mem)
<1>1. Replaces(drv[w].mem, jn[drv[w].tx].prog)
  BY PersistingKnows
<1>2. code \notin {"committed", "aborted"}
  BY <1>1 DEF Claim, Replaces, LegalTransitions
<1> QED BY <1>2 DEF Claim, Knows

\* One driver moves, and at most its own transaction goes on.
LEMMA MoveKeeps ==
    ASSUME Honest, Custody', NEW w \in Worker, NEW d, drv' = [drv EXCEPT ![w] = d], Lane(d),
           \A t \in TxId : ops[t] # <<>> => ops'[t] = ops[t],
           \A t \in TxId : t # drv[w].tx => Same(t),
           drv[w].tx \in TxId =>
              /\ Accounts(jn'[drv[w].tx], ops[drv[w].tx], applied'[drv[w].tx])
              /\ \/ jn'[drv[w].tx].prog = jn[drv[w].tx].prog
                 \/ drv[w].pc \in Persisting /\ jn'[drv[w].tx].prog = drv[w].mem,
           d.tx \in TxId =>
              /\ Knows(d, jn'[d.tx], ops'[d.tx], applied'[d.tx])
              /\ \/ d.tx = drv[w].tx /\ d.mode = drv[w].mode
                 \/ ops[d.tx] = <<>>
                 \/ d.mode = "rec"
    PROVE  /\ Accounted' /\ InLane' /\ Knowing'
           /\ \A code : \A t \in TxId : Told(code, t) => Told(code, t)'
<1>0. drv \in [Worker -> Driver] /\ Custody
  BY HonestFacts DEF Honest
<1>1. \A u \in Worker : drv'[u] = IF u = w THEN d ELSE drv[u]
  BY <1>0
<1>2. ASSUME NEW t \in TxId PROVE Accounts(jn'[t], ops'[t], applied'[t])
  <2>1. CASE ops[t] = <<>>
    <3>1. jn[t] = NoJournal /\ t # drv[w].tx
      BY <1>0, <2>1 DEF Custody, UnusedIsBlank
    <3>2. jn'[t].prog = NoProgress
      BY <3>1 DEF Same, NoJournal
    <3> QED BY <3>2, BlankAccounts
  <2>2. CASE ops[t] # <<>> /\ t # drv[w].tx
    <3>1. Accounts(jn[t], ops[t], applied[t])
      BY HonestFacts
    <3> QED BY <2>2, <3>1, AccountsSame DEF Same
  <2>3. CASE ops[t] # <<>> /\ t = drv[w].tx
    BY <2>3
  <2> QED BY <2>1, <2>2, <2>3
<1>3. InLane'
  BY <1>1, HonestFacts DEF InLane
<1>4. ASSUME NEW u \in Worker, drv'[u].tx \in TxId
      PROVE  Knows(drv'[u], jn'[drv'[u].tx], ops'[drv'[u].tx], applied'[drv'[u].tx])
  <2>1. CASE u = w
    BY <1>1, <1>4, <2>1
  <2>2. CASE u # w
    <3> DEFINE t == drv[u].tx
    <3>1. drv'[u] = drv[u] /\ t \in TxId
      BY <1>1, <1>4, <2>2
    <3>2. t # drv[w].tx /\ ops[t] # <<>>
      BY <1>0, <2>2, <3>1, Identified DEF Custody, SoleDriver
    <3>3. Same(t) /\ ops'[t] = ops[t]
      BY <3>1, <3>2
    <3>4. Knows(drv[u], jn[t], ops[t], applied[t])
      BY <3>1, HonestFacts
    <3> HIDE DEF t
    <3>5. Knows(drv[u], jn'[t], ops'[t], applied'[t])
      BY <3>3, <3>4, KnowsSame DEF Same
    <3> QED BY <3>1, <3>5 DEF t
  <2> QED BY <2>1, <2>2
<1>5. ASSUME NEW code, NEW t \in TxId, Told(code, t) PROVE Told(code, t)'
  <2>1. ops[t] # <<>> /\ ops'[t] # <<>> /\ Claim(code, jn[t].prog)
    BY <1>5 DEF Told
  <2>2. ASSUME code \in {"revision_conflict", "internal_failure"}, NEW u \in Worker, drv'[u].tx = t
        PROVE  drv'[u].mode = "rec"
    BY <1>1, <1>5, <2>1, <2>2 DEF Told
  <2>3. Claim(code, jn'[t].prog)
    <3>1. CASE jn'[t].prog = jn[t].prog
      BY <2>1, <3>1
    <3>2. CASE jn'[t].prog # jn[t].prog
      <4>1. t = drv[w].tx
        BY <3>2 DEF Same
      <4>2. drv[w].pc \in Persisting /\ jn'[t].prog = drv[w].mem
        BY <3>2, <4>1
      <4>3. Knows(drv[w], jn[t], ops[t], applied[t])
        BY <4>1, HonestFacts
      <4>4. code \in {"revision_conflict", "internal_failure"} => drv[w].mode = "rec"
        BY <1>5, <4>1 DEF Told
      <4> QED BY <1>0, <2>1, <4>1, <4>2, <4>3, <4>4, ClaimReplaced
    <3> QED BY <3>1, <3>2
  <2> QED BY <2>1, <2>2, <2>3 DEF Told
<1> QED BY <1>2, <1>3, <1>4, <1>5 DEF Accounted, Knowing

\* What w is told is true, everyone else keeps the answer they have.
Answers(w) ==
    \A u \in Worker :
        \/ answer'[u] = answer[u]
        \/ u = w /\ \A code : \A t \in TxId :
              code = answer'[u].code /\ t = answer'[u].tx => Told(code, t)'

\* Progress documents, payloads, manifests and effects stay.
Hushed == ops' = ops /\ \A t \in TxId : Same(t)

LEMMA StillHushed ==
    ASSUME UNCHANGED <<jn, ops, applied>>
    PROVE  Hushed
BY DEF Hushed, Same

LEMMA ToldHonest ==
    ASSUME Honest, Custody', Accounted', InLane', Knowing',
           \A code : \A t \in TxId : Told(code, t) => Told(code, t)',
           NEW w \in Worker, Answers(w)
    PROVE  Honest'
<1>1. ASSUME NEW u \in Worker, NEW code, NEW t \in TxId, code = answer'[u].code, t = answer'[u].tx
      PROVE  Told(code, t)'
  <2>1. CASE answer'[u] = answer[u]
    <3>1. Told(code, t)
      BY <1>1, <2>1, HonestFacts
    <3> QED BY <3>1
  <2>2. CASE answer'[u] # answer[u]
    BY <1>1, <2>2 DEF Answers
  <2> QED BY <2>1, <2>2
<1>2. AllTold'
  BY <1>1 DEF AllTold, Told
<1> QED BY <1>2 DEF Honest

\* A driver moves within its transaction and leaves the journals alone.
LEMMA HushedMove ==
    ASSUME Honest, Custody', Hushed, NEW w \in Worker, NEW d, drv' = [drv EXCEPT ![w] = d],
           Lane(d), d.tx \in TxId =>
              /\ d.tx = drv[w].tx /\ d.mode = drv[w].mode
              /\ Knows(d, jn[d.tx], ops[d.tx], applied[d.tx]),
           Answers(w)
    PROVE  Honest'
<1>1. \A t \in TxId : ops[t] # <<>> => ops'[t] = ops[t]
  BY DEF Hushed
<1>2. \A t \in TxId : Same(t)
  BY DEF Hushed
<1>3. drv[w].tx \in TxId =>
         /\ Accounts(jn'[drv[w].tx], ops[drv[w].tx], applied'[drv[w].tx])
         /\ jn'[drv[w].tx].prog = jn[drv[w].tx].prog
  BY <1>2, HonestFacts, AccountsSame DEF Same
<1>4. d.tx \in TxId => Knows(d, jn'[d.tx], ops'[d.tx], applied'[d.tx])
  BY <1>2, KnowsSame DEF Same, Hushed
<1>5. /\ Accounted' /\ InLane' /\ Knowing'
      /\ \A code : \A t \in TxId : Told(code, t) => Told(code, t)'
  BY <1>1, <1>2, <1>3, <1>4, MoveKeeps
<1> QED BY <1>5, ToldHonest

LEMMA SilentAnswers ==
    ASSUME answer' = answer, NEW w \in Worker
    PROVE  Answers(w)
BY DEF Answers

LEMMA IdleInLane == Lane(Idle) /\ Idle.tx = NoTx /\ NoTx \notin TxId
BY InstanceAssumption DEF Lane, Idle, Persisting

\* A call ends without an answer.
LEMMA HushedIdle ==
    ASSUME Honest, Custody', Hushed, NEW w \in Worker, drv' = [drv EXCEPT ![w] = Idle], Answers(w)
    PROVE  Honest'
<1> HIDE DEF Idle
<1> QED BY HushedMove, IdleInLane

\* A driver that returns leaves its transaction to nobody.
LEMMA HushedReturn ==
    ASSUME Honest, Custody', Hushed, NEW w \in Worker, NEW code, Return(w, code),
           drv[w].tx \in TxId => Claim(code, jn[drv[w].tx].prog)
    PROVE  Honest'
<1>0. drv \in [Worker -> Driver] /\ Custody
  BY HonestFacts DEF Honest
<1>1. /\ drv' = [drv EXCEPT ![w] = Idle]
      /\ answer' = [answer EXCEPT ![w] = [code |-> code, tx |-> drv[w].tx]]
  BY DEF Return
<1>2. ASSUME NEW t \in TxId, t = drv[w].tx PROVE Told(code, t)'
  <2>1. ops'[t] # <<>>
    BY <1>0, <1>2, Identified DEF Hushed
  <2>2. Claim(code, jn'[t].prog)
    BY <1>2 DEF Hushed, Same
  <2>3. ASSUME NEW u \in Worker PROVE drv'[u].tx # t
    <3>1. CASE u = w
      BY <1>0, <1>1, <1>2, <3>1, IdleInLane
    <3>2. CASE u # w
      BY <1>0, <1>1, <1>2, <3>2 DEF Custody, SoleDriver
    <3> QED BY <3>1, <3>2
  <2> QED BY <2>1, <2>2, <2>3 DEF Told
<1>3. Answers(w)
  <2>1. \A u \in Worker : u # w => answer'[u] = answer[u]
    BY <1>1, HonestFacts
  <2>2. answer'[w].code = code /\ answer'[w].tx = drv[w].tx
    BY <1>1, HonestFacts
  <2> QED BY <1>2, <2>1, <2>2 DEF Answers
<1> QED BY <1>1, <1>3, HushedIdle

\* A refusal of preflight names no transaction.
LEMMA HushedRefusal ==
    ASSUME Honest, Custody', Hushed, NEW w \in Worker, NEW code, Return(w, code), drv[w].tx = NoTx
    PROVE  Honest'
BY HushedReturn, InstanceAssumption

\* A driver fails with its transaction, and what it knew of the journal stays.
LEMMA HushedFail ==
    ASSUME Honest, Custody', Hushed, NEW w \in Worker, NEW why, Fail(w, why), answer' = answer,
           why # "internal_failure", drv[w].tx \in TxId
    PROVE  Honest'
<1> DEFINE d == [drv[w] EXCEPT !.pc = "failed", !.why = why, !.sync = "none"]
<1>0. drv \in [Worker -> Driver] /\ drv[w] \in Driver
  BY HonestFacts
<1>1. drv' = [drv EXCEPT ![w] = d]
  BY <1>0 DEF Fail
<1>2. /\ d.pc = "failed" /\ d.why = why /\ d.tx = drv[w].tx /\ d.mode = drv[w].mode
      /\ d.mem = drv[w].mem
  BY <1>0 DEF Driver
<1> HIDE DEF d
<1>3. Lane(d)
  BY <1>2, InstanceAssumption DEF Lane, Persisting, Failing, RecoveryPlaces
<1>4. Knows(drv[w], jn[d.tx], ops[d.tx], applied[d.tx])
  BY <1>2, HonestFacts
<1>5. Knows(d, jn[d.tx], ops[d.tx], applied[d.tx])
  BY <1>2, <1>4 DEF Knows, Persisting
<1> QED BY <1>1, <1>2, <1>3, <1>5, HushedMove, SilentAnswers

-----------------------------------------------------------------------------
(* Preflight and synchronisation.                                          *)

\* What a driver without a transaction is.
LEMMA Unowned ==
    ASSUME Honest, NEW w \in Worker, drv[w].tx = NoTx
    PROVE  /\ drv[w] \in Driver /\ drv \in [Worker -> Driver] /\ NoTx \notin TxId
           /\ drv[w].mode = "exec" /\ drv[w].idx = 1 /\ drv[w].why # "internal_failure"
BY HonestFacts, InstanceAssumption DEF Lane

\* A driver without a transaction goes on.
LEMMA UnownedMove ==
    ASSUME Honest, Custody', Hushed, NEW w \in Worker, NEW d, drv' = [drv EXCEPT ![w] = d],
           drv[w].tx = NoTx, d.tx = NoTx, d.mode = "exec", d.idx = 1, d.why = drv[w].why,
           d.pc \in {"pre", "inspect", "observe", "begin", "unNext", "unDir"}, answer' = answer
    PROVE  Honest'
<1>1. Lane(d)
  BY Unowned DEF Lane, Persisting
<1> QED BY <1>1, Unowned, HushedMove, SilentAnswers

LEMMA UnownedGoto ==
    ASSUME Honest, Custody', Hushed, NEW w \in Worker, NEW pc, Goto(w, pc), drv[w].tx = NoTx,
           pc \in {"pre", "inspect", "observe", "begin", "unNext", "unDir"}, answer' = answer
    PROVE  Honest'
<1> DEFINE d == [drv[w] EXCEPT !.pc = pc]
<1>1. drv' = [drv EXCEPT ![w] = d] /\ drv[w] \in Driver
  BY HonestFacts DEF Goto
<1>2. d.tx = drv[w].tx /\ d.mode = drv[w].mode /\ d.idx = drv[w].idx /\ d.why = drv[w].why /\ d.pc = pc
  BY <1>1 DEF Driver
<1> HIDE DEF d
<1> QED BY <1>1, <1>2, Unowned, UnownedMove

LEMMA SubmitHonest ==
    ASSUME Honest, Custody', NEW w \in Worker, NEW plan \in Plans, Submit(w, plan)
    PROVE  Honest'
<1> DEFINE d == [Idle EXCEPT !.pc = "pre", !.plan = plan, !.back = "observe"]
<1>1. drv' = [drv EXCEPT ![w] = d] /\ answer' = [answer EXCEPT ![w] = NoAnswer] /\ Hushed
  BY StillHushed DEF Submit
<1>2. d.tx = NoTx /\ Lane(d)
  BY InstanceAssumption DEF Lane, Idle, Persisting
<1>3. Answers(w)
  <2>1. \A u \in Worker : answer'[u] = IF u = w THEN NoAnswer ELSE answer[u]
    BY <1>1, HonestFacts
  <2>2. NoAnswer.tx \notin TxId
    BY InstanceAssumption DEF NoAnswer
  <2> QED BY <2>1, <2>2 DEF Answers
<1> HIDE DEF d
<1> QED BY <1>1, <1>2, <1>3, HushedMove, InstanceAssumption

LEMMA PreflightHonest ==
    ASSUME Honest, Custody', NEW w \in Worker,
           (\E t \in TxId : ReconcileUnmarked(w, t)) \/ ReconcileDone(w) \/ Inspect(w)
    PROVE  Honest'
<1>1. Hushed
  BY StillHushed DEF ReconcileUnmarked, ReconcileDone, Inspect
<1>2. drv[w].pc \in {"pre", "inspect"}
  BY DEF ReconcileUnmarked, ReconcileDone, Inspect, At
<1>3. drv[w].tx = NoTx /\ drv[w].back \in {"observe", "begin"}
  BY <1>2, OwnCustody DEF DriverShape, Honest
<1>4. ASSUME NEW t \in TxId, ReconcileUnmarked(w, t) PROVE Honest'
  <2>1. CASE Return(w, "state_corrupt")
    BY <1>1, <1>3, <2>1, HushedRefusal
  <2> DEFINE pc == IF jn[t].next # NoProgress THEN "unNext" ELSE "unDir"
             d == [drv[w] EXCEPT !.tgt = t, !.pc = pc]
  <2>2. CASE drv' = [drv EXCEPT ![w].tgt = t, ![w].pc = pc] /\ answer' = answer
    <3>1. drv' = [drv EXCEPT ![w] = d]
      BY <2>2, HonestFacts
    <3>2. pc \in {"unNext", "unDir"}
      OBVIOUS
    <3> HIDE DEF pc
    <3>3. d.tx = NoTx /\ d.mode = drv[w].mode /\ d.idx = drv[w].idx /\ d.why = drv[w].why /\ d.pc = pc
      BY <1>3, HonestFacts DEF Driver
    <3> HIDE DEF d
    <3>4. d.mode = "exec" /\ d.idx = 1 /\ answer' = answer
      BY <1>3, <2>2, <3>3, Unowned
    <3> QED BY <1>1, <1>3, <3>1, <3>2, <3>3, <3>4, UnownedMove
  <2> QED BY <1>4, <2>1, <2>2 DEF ReconcileUnmarked
<1>5. CASE ReconcileDone(w)
  BY <1>1, <1>3, <1>5, UnownedGoto DEF ReconcileDone
<1>6. CASE Inspect(w)
  BY <1>1, <1>3, <1>6, UnownedGoto, HushedRefusal DEF Inspect
<1> QED BY <1>4, <1>5, <1>6

LEMMA ObserveHonest ==
    ASSUME Honest, Custody', NEW w \in Worker, Observe(w)
    PROVE  Honest'
<1>1. Hushed /\ drv[w].tx = NoTx
  BY StillHushed, OwnCustody DEF Observe, At, DriverShape, Honest
<1>2. CASE \E code : Return(w, code)
  BY <1>1, <1>2, HushedRefusal
<1>3. ASSUME NEW o, drv' = [drv EXCEPT ![w].ops = o, ![w].pc = "pre", ![w].back = "begin"], answer' = answer
      PROVE  Honest'
  <2> DEFINE d == [drv[w] EXCEPT !.ops = o, !.pc = "pre", !.back = "begin"]
  <2>1. drv' = [drv EXCEPT ![w] = d]
    BY <1>3, HonestFacts
  <2>2. d.tx = drv[w].tx /\ d.mode = drv[w].mode /\ d.idx = drv[w].idx /\ d.why = drv[w].why /\ d.pc = "pre"
    BY HonestFacts DEF Driver
  <2> HIDE DEF d
  <2>3. d.mode = "exec" /\ d.idx = 1
    BY <1>1, <2>2, Unowned
  <2> QED BY <1>1, <1>3, <2>1, <2>2, <2>3, UnownedMove
<1> QED BY <1>2, <1>3 DEF Observe

\* Removing a residue takes no payload away: a directory only goes when it is empty.
LEMMA UnmarkHushed ==
    ASSUME Honest, NEW w \in Worker, UnmarkNext(w) \/ UnmarkDirectory(w)
    PROVE  Hushed
<1> DEFINE t == drv[w].tgt
<1>1. drv[w].pc \in {"unNext", "unDir"} /\ UNCHANGED <<ops, applied>>
  BY DEF UnmarkNext, UnmarkDirectory, At
<1>2. t \in TxId /\ jn \in [TxId -> Journal]
  BY <1>1, OwnCustody, HonestFacts DEF DriverShape, Honest
<1>3. jn[t] \in Journal
  BY <1>2
<1>4. CASE jn' = jn
  BY <1>1, <1>4, StillHushed
<1>5. CASE jn' = [jn EXCEPT ![t].next = NoProgress]
  <2> DEFINE k == [jn[t] EXCEPT !.next = NoProgress]
  <2>1. k.prog = jn[t].prog /\ k.pay = jn[t].pay
    BY <1>3 DEF Journal
  <2>2. \A u \in TxId : jn'[u] = IF u = t THEN k ELSE jn[u]
    BY <1>2, <1>5
  <2> HIDE DEF k
  <2> QED BY <1>1, <2>1, <2>2 DEF Hushed, Same
<1>6. CASE jn' = [jn EXCEPT ![t] = NoJournal] /\ [jn[t] EXCEPT !.root = FALSE] = NoJournal
  <2>1. /\ [jn[t] EXCEPT !.root = FALSE].prog = jn[t].prog
        /\ [jn[t] EXCEPT !.root = FALSE].pay = jn[t].pay
    BY <1>3 DEF Journal
  <2>2. NoJournal.prog = jn[t].prog /\ NoJournal.pay = jn[t].pay
    BY <1>6, <2>1
  <2>3. \A u \in TxId : jn'[u] = IF u = t THEN NoJournal ELSE jn[u]
    BY <1>2, <1>6
  <2> QED BY <1>1, <2>2, <2>3 DEF Hushed, Same
<1>7. CASE UnmarkNext(w)
  BY <1>4, <1>5, <1>7 DEF UnmarkNext
<1>8. CASE UnmarkDirectory(w)
  BY <1>4, <1>6, <1>8 DEF UnmarkDirectory
<1> QED BY <1>7, <1>8

LEMMA UnmarkHonest ==
    ASSUME Honest, Custody', NEW w \in Worker, UnmarkNext(w) \/ UnmarkDirectory(w)
    PROVE  Honest'
<1>1. Hushed /\ drv[w].pc \in {"unNext", "unDir"}
  BY UnmarkHushed DEF UnmarkNext, UnmarkDirectory, At
<1>2. /\ drv[w] \in Driver /\ drv \in [Worker -> Driver]
      /\ drv[w].tgt \in TxId /\ (drv[w].tx = drv[w].tgt \/ drv[w].tx = NoTx)
  BY <1>1, OwnCustody, HonestFacts DEF DriverShape, Honest
<1>3. drv[w].tx \in TxId => jn[drv[w].tx].prog = NoProgress /\ drv[w].tx = drv[w].tgt
  BY <1>1, <1>2, HonestFacts, InstanceAssumption DEF Knows
<1>4. ASSUME NEW code \in {"state_corrupt", "internal_failure"}, Return(w, code) PROVE Honest'
  <2>1. drv[w].tx \in TxId => Claim(code, jn[drv[w].tx].prog)
    BY <1>3 DEF Claim
  <2> QED BY <1>1, <1>4, <2>1, HushedReturn
<1>5. ASSUME NEW pc \in {"unDir", "classify", "pre"}, NEW s, drv' = [drv EXCEPT ![w].pc = pc, ![w].sync = s],
             pc = "pre" => drv[w].tx = NoTx, pc = "classify" => drv[w].tx \in TxId, answer' = answer
      PROVE  Honest'
  <2> DEFINE d == [drv[w] EXCEPT !.pc = pc, !.sync = s]
  <2>1. drv' = [drv EXCEPT ![w] = d]
    BY <1>2, <1>5
  <2>2. /\ d.tx = drv[w].tx /\ d.mode = drv[w].mode /\ d.idx = drv[w].idx /\ d.why = drv[w].why
        /\ d.pc = pc /\ d.mem = drv[w].mem /\ d.tgt = drv[w].tgt
    BY <1>2 DEF Driver
  <2> HIDE DEF d
  <2>3. Lane(d)
    <3>1. Lane(drv[w])
      BY HonestFacts
    <3> QED BY <1>5, <2>2, <3>1, InstanceAssumption DEF Lane, RecoveryPlaces, Persisting, Failing
  <2>4. d.tx \in TxId => Knows(d, jn[d.tx], ops[d.tx], applied[d.tx])
    <3>1. d.tx \in TxId => Knows(drv[w], jn[d.tx], ops[d.tx], applied[d.tx])
      BY <2>2, HonestFacts
    <3> QED BY <1>3, <1>5, <2>2, <3>1, InstanceAssumption DEF Knows, Persisting
  <2> QED BY <1>1, <1>5, <2>1, <2>2, <2>3, <2>4, HushedMove, SilentAnswers
<1>6. ASSUME NEW pc \in {"unDir", "classify"}, Goto(w, pc), answer' = answer,
             pc = "classify" => drv[w].tx \in TxId
      PROVE  Honest'
  <2>1. drv' = [drv EXCEPT ![w].pc = pc, ![w].sync = drv[w].sync]
    BY <1>2, <1>6 DEF Goto, Driver
  <2> QED BY <1>5, <1>6, <2>1
<1>7. CASE UnmarkNext(w)
  BY <1>4, <1>6, <1>7 DEF UnmarkNext
<1>8. CASE UnmarkDirectory(w)
  <2>1. \/ \E code \in {"state_corrupt", "internal_failure"} : Return(w, code)
        \/ drv[w].tx = drv[w].tgt /\ Goto(w, "classify") /\ answer' = answer
        \/ \E pc \in {"classify", "pre"} :
              /\ drv' = [drv EXCEPT ![w].pc = pc, ![w].sync = "transactions"] /\ answer' = answer
              /\ pc = (IF drv[w].tx = drv[w].tgt THEN "classify" ELSE "pre")
    BY <1>8 DEF UnmarkDirectory
  <2> QED BY <1>2, <1>4, <1>5, <1>6, <2>1
<1> QED BY <1>7, <1>8

LEMMA SyncHonest ==
    ASSUME Honest, Custody', NEW w \in Worker, Sync(w)
    PROVE  Honest'
<1>1. Hushed /\ answer' = answer
  BY StillHushed DEF Sync
<1>2. drv[w] \in Driver /\ drv \in [Worker -> Driver] /\ DriverShape(drv[w])
  BY OwnCustody, HonestFacts DEF Honest
<1>3. CASE Fail(w, "raw") /\ drv[w].sync \in {"root", "staging"}
  BY <1>1, <1>2, <1>3, HushedFail DEF DriverShape
<1>4. ASSUME NEW b, drv' = [drv EXCEPT ![w].sync = "none", ![w].sure = b] PROVE Honest'
  <2> DEFINE d == [drv[w] EXCEPT !.sync = "none", !.sure = b]
  <2>1. drv' = [drv EXCEPT ![w] = d]
    BY <1>2, <1>4
  <2>2. /\ d.tx = drv[w].tx /\ d.mode = drv[w].mode /\ d.idx = drv[w].idx /\ d.why = drv[w].why
        /\ d.pc = drv[w].pc /\ d.mem = drv[w].mem /\ d.tgt = drv[w].tgt /\ d.back = drv[w].back
    BY <1>2 DEF Driver
  <2> HIDE DEF d
  <2>3. Lane(d)
    <3>1. Lane(drv[w])
      BY HonestFacts
    <3> QED BY <2>2, <3>1 DEF Lane
  <2>4. d.tx \in TxId => Knows(d, jn[d.tx], ops[d.tx], applied[d.tx])
    <3>1. d.tx \in TxId => Knows(drv[w], jn[d.tx], ops[d.tx], applied[d.tx])
      BY <2>2, HonestFacts
    <3> QED BY <2>2, <3>1 DEF Knows
  <2> QED BY <1>1, <2>1, <2>2, <2>3, <2>4, HushedMove, SilentAnswers
<1> QED BY <1>3, <1>4 DEF Sync

-----------------------------------------------------------------------------
(* Steps that leave payloads and effects alone.                            *)

\* What a driver with a transaction is.
LEMMA Owned ==
    ASSUME Honest, NEW w \in Worker, drv[w].tx \in TxId
    PROVE  /\ drv[w] \in Driver /\ drv \in [Worker -> Driver] /\ DriverShape(drv[w]) /\ Lane(drv[w])
           /\ jn \in [TxId -> Journal] /\ jn[drv[w].tx] \in Journal
           /\ ops[drv[w].tx] \in Seq(Operation) /\ Len(ops[drv[w].tx]) \in 0 .. MaxOps
           /\ Accounts(jn[drv[w].tx], ops[drv[w].tx], applied[drv[w].tx])
           /\ Knows(drv[w], jn[drv[w].tx], ops[drv[w].tx], applied[drv[w].tx])
           /\ drv[w].tx # NoTx
BY HonestFacts, OwnCustody, OwnManifest, InstanceAssumption DEF Honest, Custody, Shape

\* Every place from staging on belongs to a transaction.
LEMMA PlaceOwned ==
    ASSUME Honest, NEW w \in Worker, drv[w].pc \in Owning
    PROVE  drv[w].tx \in TxId
BY OwnCustody DEF DriverShape, Honest

\* A driver moves within its transaction.
LEMMA OwnedMove ==
    ASSUME Honest, Custody', Hushed, NEW w \in Worker, drv[w].tx \in TxId,
           NEW d, drv' = [drv EXCEPT ![w] = d], d.tx = drv[w].tx, d.mode = drv[w].mode,
           Lane(d), Knows(d, jn[d.tx], ops[d.tx], applied[d.tx]), answer' = answer
    PROVE  Honest'
BY HushedMove, SilentAnswers

LEMMA PersistHonest ==
    ASSUME Honest, Custody', Hushed, NEW w \in Worker, drv[w].tx \in TxId, NEW prog, NEW back,
           Persist(w, prog, back), answer' = answer,
           drv[w].mode = "rec" => back \in {"decide", "cleanup"},
           drv[w].mode = "exec" => back # "decide",
           back # "mkStaging",
           prog.phase = "prepared" => PayloadsComplete(ops[drv[w].tx], jn[drv[w].tx].pay),
           prog.phase = "committed" => Written(ops[drv[w].tx], applied[drv[w].tx]),
           back = "publish" => 1 .. prog.published \subseteq applied[drv[w].tx],
           drv[w].mode = "rec" /\ prog.phase \in Taken => jn[drv[w].tx].prog.phase \in Taken
    PROVE  Honest'
<1> DEFINE d == [drv[w] EXCEPT !.pc = "clear", !.mem = prog, !.back = back]
<1>1. drv' = [drv EXCEPT ![w] = d]
  BY Owned DEF Persist
<1>2. /\ d.tx = drv[w].tx /\ d.mode = drv[w].mode /\ d.idx = drv[w].idx /\ d.why = drv[w].why
      /\ d.pc = "clear" /\ d.mem = prog /\ d.back = back
  BY Owned DEF Driver
<1> HIDE DEF d
<1>3. Lane(d)
  BY <1>2, Owned DEF Lane, RecoveryPlaces, Persisting
<1>4. Knows(d, jn[drv[w].tx], ops[drv[w].tx], applied[drv[w].tx])
  BY <1>2, Owned DEF Knows, Persisting
<1> QED BY <1>1, <1>2, <1>3, <1>4, OwnedMove

LEMMA PrepareHonest ==
    ASSUME Honest, Custody', NEW w \in Worker, Prepare(w)
    PROVE  Honest'
<1> DEFINE prog == [phase |-> "prepared", bound |-> TRUE, published |-> 0]
<1>1. Hushed /\ answer' = answer /\ drv[w].pc = "precheck"
  BY StillHushed DEF Prepare, At
<1>2. drv[w].tx \in TxId
  BY <1>1, PlaceOwned DEF Owning, Settled
<1>3. drv[w].mode # "rec" /\ PayloadsComplete(ops[drv[w].tx], jn[drv[w].tx].pay)
  BY <1>1, <1>2, Owned DEF Lane, RecoveryPlaces, Persisting, Failing, Knows
<1>4. CASE Persist(w, prog, "authorize")
  BY <1>1, <1>2, <1>3, <1>4, PersistHonest DEF Taken
<1>5. CASE Fail(w, "revision_conflict")
  BY <1>1, <1>2, <1>5, HushedFail
<1> QED BY <1>4, <1>5 DEF Prepare

LEMMA AuthorizeHonest ==
    ASSUME Honest, Custody', NEW w \in Worker, Authorize(w)
    PROVE  Honest'
<1> DEFINE prog == [drv[w].mem EXCEPT !.phase = "publishing"]
           d == [drv[w] EXCEPT !.pc = "clear", !.idx = 1, !.back = "publish", !.mem = prog]
<1>1. Hushed /\ answer' = answer /\ drv[w].pc = "authorize"
  BY StillHushed DEF Authorize, At
<1>2. drv[w].tx \in TxId /\ drv[w].mem \in Progress /\ drv[w].mem.published = 0
  BY <1>1, PlaceOwned, Owned DEF Owning, Settled, DriverShape
<1>3. drv[w].mode = "exec" /\ drv[w].why # "internal_failure"
  BY <1>1, <1>2, Owned DEF Lane, RecoveryPlaces, Persisting, Failing, Driver
<1>4. prog.phase = "publishing" /\ prog.published = 0
  BY <1>2 DEF Progress
<1> HIDE DEF prog
<1>5. CASE drv' = [drv EXCEPT ![w].pc = "clear", ![w].idx = 1, ![w].back = "publish", ![w].mem = prog]
  <2>1. drv' = [drv EXCEPT ![w] = d]
    BY <1>2, <1>5, Owned
  <2>2. /\ d.tx = drv[w].tx /\ d.mode = drv[w].mode /\ d.why = drv[w].why /\ d.idx = 1
        /\ d.pc = "clear" /\ d.mem = prog /\ d.back = "publish"
    BY <1>2, Owned DEF Driver
  <2> HIDE DEF d
  <2>3. Lane(d)
    BY <1>2, <1>3, <2>2, Owned DEF Lane, Persisting
  <2>4. Knows(d, jn[drv[w].tx], ops[drv[w].tx], applied[drv[w].tx])
    BY <1>3, <1>4, <2>2 DEF Knows, Persisting
  <2> QED BY <1>1, <1>2, <2>1, <2>2, <2>3, <2>4, OwnedMove
<1>6. CASE Fail(w, "revision_conflict")
  BY <1>1, <1>2, <1>6, HushedFail
<1> QED BY <1>5, <1>6 DEF Authorize, prog

LEMMA CheckPublishableHonest ==
    ASSUME Honest, Custody', NEW w \in Worker, CheckPublishable(w)
    PROVE  Honest'
<1> DEFINE d == [drv[w] EXCEPT !.pc = "apply"]
<1>1. Hushed /\ answer' = answer /\ drv[w].pc = "publish"
  BY StillHushed DEF CheckPublishable, At
<1>2. drv[w].tx \in TxId
  BY <1>1, PlaceOwned DEF Owning, Settled
<1>3. CASE Goto(w, "apply")
  <2>1. drv' = [drv EXCEPT ![w] = d]
    BY <1>2, <1>3, Owned DEF Goto
  <2>2. /\ d.tx = drv[w].tx /\ d.mode = drv[w].mode /\ d.idx = drv[w].idx /\ d.why = drv[w].why
        /\ d.pc = "apply" /\ d.mem = drv[w].mem
    BY <1>2, Owned DEF Driver
  <2> HIDE DEF d
  <2>3. Lane(d)
    BY <1>2, <2>2, Owned DEF Lane, RecoveryPlaces, Persisting
  <2>4. Knows(d, jn[drv[w].tx], ops[drv[w].tx], applied[drv[w].tx])
    BY <1>1, <1>2, <2>2, Owned DEF Knows, Persisting
  <2> QED BY <1>1, <1>2, <2>1, <2>2, <2>3, <2>4, OwnedMove
<1>4. ASSUME NEW why \in {"revision_conflict", "state_corrupt"}, Fail(w, why) PROVE Honest'
  BY <1>1, <1>2, <1>4, HushedFail
<1> QED BY <1>3, <1>4 DEF CheckPublishable

LEMMA CommitHonest ==
    ASSUME Honest, Custody', NEW w \in Worker, Commit(w)
    PROVE  Honest'
<1> DEFINE prog == [drv[w].mem EXCEPT !.phase = "committed"]
           o == ops[drv[w].tx]
<1>1. Hushed /\ answer' = answer /\ drv[w].pc = "publish" /\ drv[w].idx > LastOp(w)
  BY StillHushed DEF Commit, At
<1>2. drv[w].tx \in TxId
  BY <1>1, PlaceOwned DEF Owning, Settled
<1>3. drv[w].mode = "exec"
  BY <1>1, <1>2, Owned DEF Lane, RecoveryPlaces, Persisting, Failing, Driver
<1>4. /\ drv[w].mem \in Progress /\ drv[w].mem.published \in 0 .. MaxOps
      /\ drv[w].mem.published + 1 = drv[w].idx
      /\ 1 .. drv[w].mem.published \subseteq applied[drv[w].tx]
  BY <1>1, <1>2, Owned, ProgressFacts DEF DriverShape, Settled, Knows
<1>5. Len(o) \in Nat /\ Len(o) <= drv[w].mem.published
  BY <1>1, <1>2, <1>4, Owned, BoundAssumption DEF LastOp
<1>6. Written(o, applied[drv[w].tx])
  BY <1>4, <1>5, BoundAssumption DEF Written
<1>7. prog.phase = "committed"
  BY <1>4 DEF Progress
<1> HIDE DEF prog
<1>8. CASE Persist(w, prog, "cleanup")
  BY <1>1, <1>2, <1>3, <1>6, <1>7, <1>8, PersistHonest
<1>9. ASSUME NEW why \in {"revision_conflict", "state_corrupt"}, Fail(w, why) PROVE Honest'
  BY <1>1, <1>2, <1>9, HushedFail
<1> QED BY <1>8, <1>9 DEF Commit, prog

LEMMA VerifyHonest ==
    ASSUME Honest, Custody', NEW w \in Worker, Verify(w)
    PROVE  Honest'
<1> DEFINE prog == [drv[w].mem EXCEPT !.published = @ + 1]
           back == IF drv[w].mode = "exec" THEN "publish" ELSE "decide"
           d == [drv[w] EXCEPT !.pc = "clear", !.idx = drv[w].idx + 1, !.mem = prog, !.back = back]
<1>1. Hushed /\ answer' = answer /\ drv[w].pc = "verify"
  BY StillHushed DEF Verify, At
<1>2. /\ drv[w].tx \in TxId /\ drv[w].mem \in Progress /\ drv[w].mem.phase = "publishing"
      /\ jn[drv[w].tx].prog.phase = "publishing"
  BY <1>1, SettledKnows DEF Settled, InPhase, Honest
<1>3. prog.phase = "publishing" /\ prog.published = drv[w].mem.published + 1
  BY <1>2 DEF Progress
<1>4. back = "publish" => drv[w].mode = "exec"
  OBVIOUS
<1>5. back \in {"publish", "decide"} /\ (drv[w].mode = "exec" => back = "publish")
      /\ (drv[w].mode = "rec" => back = "decide")
  OBVIOUS
<1> HIDE DEF prog, back
<1>6. CASE drv' = [drv EXCEPT ![w].pc = "clear", ![w].idx = drv[w].idx + 1, ![w].mem = prog,
                              ![w].back = back]
  <2>1. drv' = [drv EXCEPT ![w] = d]
    BY <1>2, <1>6, Owned
  <2>2. /\ d.tx = drv[w].tx /\ d.mode = drv[w].mode /\ d.why = drv[w].why
        /\ d.pc = "clear" /\ d.mem = prog /\ d.back = back
    BY <1>2, Owned DEF Driver
  <2> HIDE DEF d
  <2>3. Lane(d)
    BY <1>2, <1>5, <2>2, Owned DEF Lane, RecoveryPlaces, Persisting
  <2>4. Knows(d, jn[drv[w].tx], ops[drv[w].tx], applied[drv[w].tx])
    BY <1>1, <1>2, <1>3, <1>4, <2>2, Owned DEF Knows, Persisting, Taken
  <2> QED BY <1>1, <1>2, <2>1, <2>2, <2>3, <2>4, OwnedMove
<1>7. CASE Fail(w, "state_corrupt")
  BY <1>1, <1>2, <1>7, HushedFail
<1> QED BY <1>6, <1>7 DEF Verify, prog, back

\* Recovery commits only when no payload is left to publish.
LEMMA CommitConsumed ==
    ASSUME NEW o \in Seq(Operation), NEW prog \in Progress, NEW dst, NEW pay,
           DecideRecovery(o, prog, dst, pay).kind = "commit"
    PROVE  \A i \in 1 .. Len(o) : Staged(o[i]) => pay[i] = "missing"
<1> DEFINE done == ResultsObserved(o, dst)
           k == CHOOSE n \in 0 .. Len(o) : done = 1 .. n
           dp == DecidePublishing(o, prog, dst, pay)
<1>0. prog.published \in 0 .. MaxOps /\ prog.phase \in Phase /\ Len(o) \in Nat
  BY ProgressFacts
<1>1. DecideRecovery(o, prog, dst, pay) = dp
  BY <1>0 DEF DecideRecovery, DecideTerminal, DecidePrepublication, Decision, Blocked, Phase
<1>2. PICK n \in 0 .. Len(o) : done = 1 .. n
  BY <1>1 DEF DecidePublishing, Decision, Blocked
<1>3. k \in 0 .. Len(o)
  BY <1>2
<1> HIDE DEF k, done
<1>4. ~(k < Len(o)) /\ PublishingPayloads(o, pay, k)
  BY <1>1 DEF DecidePublishing, Decision, Blocked, k, done
<1>5. k = Len(o)
  BY <1>0, <1>3, <1>4
<1> QED BY <1>4, <1>5 DEF PublishingPayloads

LEMMA DecideHonest ==
    ASSUME Honest, Custody', NEW w \in Worker, Decide(w)
    PROVE  Honest'
<1> DEFINE t == drv[w].tx
           mem == drv[w].mem
           d == DecideRecovery(ops[t], mem, dest, jn[t].pay)
<1>1. Hushed /\ answer' = answer /\ drv[w].pc = "decide"
  BY StillHushed DEF Decide, At
<1>2. t \in TxId /\ mem \in Progress /\ jn[t].prog = mem
  BY <1>1, SettledKnows DEF Settled, Honest
<1>3. drv[w].mode = "rec" /\ drv[w].why # "internal_failure" /\ mem # NoProgress /\ t # NoTx
  BY <1>1, <1>2, Owned, ProgressFacts DEF Lane, Driver
<1>4. /\ d.kind \in {"record_published", "publish", "commit"} => mem.phase = "publishing"
      /\ d.kind = "abort" => mem.phase \in {"begun", "prepared"}
  BY <1>2, Owned, DecisionFacts
<1>5. d.kind = "commit" => \A i \in 1 .. Len(ops[t]) : Staged(ops[t][i]) => jn[t].pay[i] = "missing"
  BY <1>2, Owned, CommitConsumed
<1>6. \/ Persist(w, [mem EXCEPT !.phase = "aborted", !.published = 0], "decide")
      \/ d.kind = "record_published" /\ Persist(w, [mem EXCEPT !.published = d.op], "decide")
      \/ d.kind = "publish" /\ drv' = [drv EXCEPT ![w].pc = "recheck", ![w].idx = d.op]
      \/ d.kind = "commit" /\ Persist(w, [mem EXCEPT !.phase = "committed", !.published = LastOp(w)], "decide")
      \/ \E pc \in {"cleanup", "finish"}, back \in {"decide", "finish"} :
            drv' = [drv EXCEPT ![w].pc = pc, ![w].back = back]
      \/ Fail(w, "state_corrupt")
  BY DEF Decide
<1> HIDE DEF d
<1>7. CASE Persist(w, [mem EXCEPT !.phase = "aborted", !.published = 0], "decide")
  <2> DEFINE prog == [mem EXCEPT !.phase = "aborted", !.published = 0]
  <2>1. prog.phase = "aborted"
    BY <1>2 DEF Progress
  <2>2. Persist(w, prog, "decide")
    BY <1>7
  <2> HIDE DEF prog
  <2> QED BY <1>1, <1>2, <1>3, <2>1, <2>2, PersistHonest DEF Taken
<1>8. CASE d.kind = "record_published" /\ Persist(w, [mem EXCEPT !.published = d.op], "decide")
  <2> DEFINE prog == [mem EXCEPT !.published = d.op]
  <2>1. prog.phase = "publishing" /\ jn[t].prog.phase = "publishing"
    BY <1>2, <1>4, <1>8 DEF Progress
  <2>2. Persist(w, prog, "decide")
    BY <1>8
  <2> HIDE DEF prog
  <2> QED BY <1>1, <1>2, <1>3, <2>1, <2>2, PersistHonest DEF Taken
<1>9. CASE d.kind = "commit" /\ Persist(w, [mem EXCEPT !.phase = "committed", !.published = LastOp(w)], "decide")
  <2> DEFINE prog == [mem EXCEPT !.phase = "committed", !.published = LastOp(w)]
  <2>1. prog.phase = "committed" /\ jn[t].prog.phase = "publishing"
    BY <1>2, <1>4, <1>9 DEF Progress
  <2>2. Persist(w, prog, "decide")
    BY <1>9
  <2>3. Written(ops[t], applied[t])
    BY <1>2, <1>5, <1>9, <2>1, Owned DEF Accounts, Written
  <2> HIDE DEF prog
  <2> QED BY <1>1, <1>2, <1>3, <2>1, <2>2, <2>3, PersistHonest DEF Taken
<1>10. ASSUME NEW pc \in {"recheck", "cleanup", "finish"}, NEW e, drv' = [drv EXCEPT ![w] = e],
              e.pc = pc, e.tx = t, e.mode = drv[w].mode, e.why = drv[w].why, e.mem = mem
       PROVE  Honest'
  <2>1. Lane(e)
    BY <1>3, <1>10 DEF Lane, RecoveryPlaces, Persisting
  <2>2. Knows(e, jn[t], ops[t], applied[t])
    BY <1>2, <1>3, <1>10 DEF Knows, Persisting
  <2> QED BY <1>1, <1>2, <1>10, <2>1, <2>2, OwnedMove
<1>11. CASE drv' = [drv EXCEPT ![w].pc = "recheck", ![w].idx = d.op]
  <2> DEFINE e == [drv[w] EXCEPT !.pc = "recheck", !.idx = d.op]
  <2>1. drv' = [drv EXCEPT ![w] = e]
    BY <1>2, <1>11, Owned
  <2>2. e.pc = "recheck" /\ e.tx = t /\ e.mode = drv[w].mode /\ e.why = drv[w].why /\ e.mem = mem
    BY <1>2, Owned DEF Driver
  <2> HIDE DEF e
  <2> QED BY <1>10, <2>1, <2>2
<1>12. ASSUME NEW pc \in {"cleanup", "finish"}, NEW back,
              drv' = [drv EXCEPT ![w].pc = pc, ![w].back = back]
       PROVE  Honest'
  <2> DEFINE e == [drv[w] EXCEPT !.pc = pc, !.back = back]
  <2>1. drv' = [drv EXCEPT ![w] = e]
    BY <1>2, <1>12, Owned
  <2>2. e.pc = pc /\ e.tx = t /\ e.mode = drv[w].mode /\ e.why = drv[w].why /\ e.mem = mem
    BY <1>2, Owned DEF Driver
  <2> HIDE DEF e
  <2> QED BY <1>10, <2>1, <2>2
<1>13. CASE Fail(w, "state_corrupt")
  BY <1>1, <1>2, <1>13, HushedFail
<1> QED BY <1>6, <1>7, <1>8, <1>9, <1>11, <1>12, <1>13

LEMMA RecheckHonest ==
    ASSUME Honest, Custody', NEW w \in Worker, Recheck(w)
    PROVE  Honest'
<1> DEFINE prog == [drv[w].mem EXCEPT !.published = @ + 1]
           d == [drv[w] EXCEPT !.pc = "apply"]
<1>1. Hushed /\ answer' = answer /\ drv[w].pc = "recheck"
  BY StillHushed DEF Recheck, At
<1>2. /\ drv[w].tx \in TxId /\ drv[w].mem \in Progress /\ drv[w].mem.phase = "publishing"
      /\ jn[drv[w].tx].prog = drv[w].mem
  BY <1>1, SettledKnows DEF Settled, InPhase, Honest
<1>3. drv[w].mode = "rec" /\ drv[w].why # "internal_failure" /\ drv[w].mem # NoProgress
  BY <1>1, <1>2, Owned, ProgressFacts DEF Lane, Driver
<1>4. prog.phase = "publishing"
  BY <1>2 DEF Progress
<1> HIDE DEF prog
<1>5. CASE Persist(w, prog, "decide")
  BY <1>1, <1>2, <1>3, <1>4, <1>5, PersistHonest DEF Taken
<1>6. CASE Goto(w, "apply")
  <2>1. drv' = [drv EXCEPT ![w] = d]
    BY <1>2, <1>6, Owned DEF Goto
  <2>2. /\ d.tx = drv[w].tx /\ d.mode = drv[w].mode /\ d.why = drv[w].why
        /\ d.pc = "apply" /\ d.mem = drv[w].mem
    BY <1>2, Owned DEF Driver
  <2> HIDE DEF d
  <2>3. Lane(d)
    BY <1>2, <1>3, <2>2, Owned DEF Lane, RecoveryPlaces, Persisting
  <2>4. Knows(d, jn[drv[w].tx], ops[drv[w].tx], applied[drv[w].tx])
    BY <1>2, <1>3, <2>2 DEF Knows, Persisting
  <2> QED BY <1>1, <1>2, <2>1, <2>2, <2>3, <2>4, OwnedMove
<1>7. CASE Fail(w, "state_corrupt")
  BY <1>1, <1>2, <1>7, HushedFail
<1> QED BY <1>5, <1>6, <1>7 DEF Recheck, prog

LEMMA FinishHonest ==
    ASSUME Honest, Custody', NEW w \in Worker, Finish(w)
    PROVE  Honest'
<1>1. Hushed /\ drv[w].pc = "finish" /\ Return(w, drv[w].mem.phase)
  BY StillHushed DEF Finish, At
<1>2. drv[w].tx \in TxId /\ jn[drv[w].tx].prog = drv[w].mem
  BY <1>1, SettledKnows DEF Settled, Honest
<1>3. Terminal(drv[w].mem.phase)
  BY <1>1, <1>2, Owned DEF DriverShape
<1>4. Claim(drv[w].mem.phase, jn[drv[w].tx].prog)
  BY <1>2, <1>3 DEF Claim, Terminal
<1> QED BY <1>1, <1>4, HushedReturn

LEMMA CleanupUnmarkedHonest ==
    ASSUME Honest, Custody', NEW w \in Worker, CleanupUnmarked(w)
    PROVE  Honest'
<1> DEFINE pc == IF Mine(w).next # NoProgress THEN "unNext" ELSE "unDir"
           d == [drv[w] EXCEPT !.tgt = drv[w].tx, !.pc = pc]
<1>1. Hushed /\ answer' = answer /\ drv[w].pc = "failed" /\ jn[drv[w].tx].prog = NoProgress
  BY StillHushed DEF CleanupUnmarked, At, RemovesOwnDirectory, Mine, Marked
<1>2. drv[w].tx \in TxId
  BY <1>1, PlaceOwned DEF Owning, Failing
<1>3. drv' = [drv EXCEPT ![w] = d]
  BY <1>2, Owned DEF CleanupUnmarked
<1>4. pc \in {"unNext", "unDir"}
  OBVIOUS
<1> HIDE DEF pc
<1>5. /\ d.tx = drv[w].tx /\ d.mode = drv[w].mode /\ d.idx = drv[w].idx /\ d.why = drv[w].why
      /\ d.pc = pc /\ d.mem = drv[w].mem
  BY <1>2, Owned DEF Driver
<1> HIDE DEF d
<1>6. Lane(d)
  BY <1>2, <1>4, <1>5, Owned DEF Lane, RecoveryPlaces, Persisting
<1>7. Knows(d, jn[drv[w].tx], ops[drv[w].tx], applied[drv[w].tx])
  BY <1>1, <1>2, <1>4, <1>5, Owned DEF Knows, Persisting
<1> QED BY <1>1, <1>2, <1>3, <1>5, <1>6, <1>7, OwnedMove

\* What classifyDriverFailure answers is what the journal says.
LEMMA VerdictClaims ==
    ASSUME Honest, NEW w \in Worker, drv[w].tx \in TxId
    PROVE  Claim(Verdict(w), jn[drv[w].tx].prog)
<1> DEFINE t == drv[w].tx
           why == drv[w].why
           phase == jn[t].prog.phase
           v == Verdict(w)
<1>1. why \in {"revision_conflict", "state_corrupt", "recovery_required", "none", "raw"}
  BY Owned DEF Lane, Driver, Reason
<1>2. ProjectVerdict \in {"state_corrupt", "recovery_required", "internal_failure"}
  BY DEF ProjectVerdict
<1>3. PublishingVerdict(t) \in {"state_corrupt", "recovery_required"}
  BY DEF PublishingVerdict
<1> HIDE DEF why
<1>4. \/ v \in {"state_corrupt", "recovery_required"}
      \/ ~Marked(jn[t]) /\ v \in {why, "internal_failure"}
      \/ Terminal(phase) /\ v = phase
      \/ ~Terminal(phase) /\ phase # "publishing" /\ v = why
  BY <1>2, <1>3 DEF Verdict, why
<1> SUFFICES Claim(v, jn[t].prog)
  OBVIOUS
<1> HIDE DEF v
<1>5. CASE v \in {"state_corrupt", "recovery_required"}
  BY <1>5 DEF Claim
<1>6. CASE ~Marked(jn[t]) /\ v \in {why, "internal_failure"}
  BY <1>1, <1>6, ProgressFacts DEF Claim, Marked, Taken
<1>7. CASE Terminal(phase) /\ v = phase
  BY <1>7 DEF Claim, Terminal
<1>8. CASE ~Terminal(phase) /\ phase # "publishing" /\ v = why
  BY <1>1, <1>8 DEF Claim, Terminal, Taken
<1> QED BY <1>4, <1>5, <1>6, <1>7, <1>8

LEMMA ClassifyHonest ==
    ASSUME Honest, Custody', NEW w \in Worker, Classify(w)
    PROVE  Honest'
<1> DEFINE d == [drv[w] EXCEPT !.pc = "finish", !.mem = Mine(w).prog, !.sync = "root"]
<1>1. Hushed /\ drv[w].pc \in {"failed", "classify"}
  BY StillHushed DEF Classify, At
<1>2. drv[w].tx \in TxId
  BY <1>1, PlaceOwned DEF Owning, Failing
<1>3. CASE Return(w, Verdict(w))
  BY <1>1, <1>2, <1>3, VerdictClaims, HushedReturn
<1>4. CASE /\ drv' = [drv EXCEPT ![w].pc = "finish", ![w].mem = Mine(w).prog, ![w].sync = "root"]
           /\ answer' = answer
  <2>1. drv' = [drv EXCEPT ![w] = d]
    BY <1>2, <1>4, Owned
  <2>2. /\ d.tx = drv[w].tx /\ d.mode = drv[w].mode /\ d.idx = drv[w].idx /\ d.why = drv[w].why
        /\ d.pc = "finish" /\ d.mem = jn[drv[w].tx].prog
    BY <1>2, Owned DEF Driver, Mine
  <2> HIDE DEF d
  <2>3. Lane(d)
    BY <1>2, <2>2, Owned DEF Lane, RecoveryPlaces, Persisting
  <2>4. Knows(d, jn[drv[w].tx], ops[drv[w].tx], applied[drv[w].tx])
    BY <1>2, <2>2, Owned DEF Knows, Persisting
  <2> QED BY <1>1, <1>2, <1>4, <2>1, <2>2, <2>3, <2>4, OwnedMove
<1> QED BY <1>3, <1>4 DEF Classify

LEMMA RecoverHonest ==
    ASSUME Honest, Custody', NEW w \in Worker, NEW t \in TxId, NEW token \in BOOLEAN,
           Recover(w, t, token)
    PROVE  Honest'
<1> DEFINE d == RecoveryDriver(t, token)
           prog == jn[t].prog
<1>1. Hushed /\ drv[w].pc = "idle" /\ prog # NoProgress
  BY StillHushed DEF Recover, At, Marked
<1>2. ops[t] # <<>> /\ drv[w].tx = NoTx
  BY <1>1, Identified, OwnCustody DEF Honest, DriverShape
<1>3. prog \in Progress
  BY <1>1, HonestFacts DEF Journal
<1>4. ASSUME NEW code \in {"state_corrupt", "recovery_required"},
             answer' = [answer EXCEPT ![w] = [code |-> code, tx |-> t]], drv' = drv
      PROVE  Honest'
  <2>1. drv' = [drv EXCEPT ![w] = drv[w]]
    BY <1>4, HonestFacts
  <2>2. Told(code, t)'
    <3>1. Claim(code, jn'[t].prog)
      BY DEF Claim
    <3>2. ops'[t] # <<>>
      BY <1>1, <1>2 DEF Hushed
    <3> QED BY <3>1, <3>2 DEF Told
  <2>3. Answers(w)
    <3>1. \A u \in Worker : u # w => answer'[u] = answer[u]
      BY <1>4, HonestFacts
    <3>2. answer'[w].code = code /\ answer'[w].tx = t
      BY <1>4, HonestFacts
    <3> QED BY <2>2, <3>1, <3>2 DEF Answers
  <2> QED BY <1>1, <1>2, <2>1, <2>3, HonestFacts, HushedMove, InstanceAssumption
<1>5. CASE drv' = [drv EXCEPT ![w] = d] /\ answer' = [answer EXCEPT ![w] = NoAnswer] /\ prog.bound = token
  <2> DEFINE mem == [prog EXCEPT !.phase = "aborted", !.published = 0]
  <2>1. mem.phase = "aborted"
    BY <1>3 DEF Progress
  <2>2. /\ d.tx = t /\ d.mode = "rec" /\ d.why = "none"
        /\ \/ d.pc \in {"decide", "cleanup"} /\ d.mem = prog
           \/ d.pc = "clear" /\ d.back = "cleanup" /\ d.mem = mem
    BY DEF RecoveryDriver, Idle
  <2> HIDE DEF d, mem, prog
  <2>3. Lane(d)
    BY <2>2, InstanceAssumption DEF Lane, RecoveryPlaces, Persisting
  <2>4. Knows(d, jn[t], ops[t], applied[t])
    BY <1>1, <2>1, <2>2 DEF Knows, Persisting, Taken, prog
  <2>5. Answers(w)
    <3>1. \A u \in Worker : answer'[u] = IF u = w THEN NoAnswer ELSE answer[u]
      BY <1>5, HonestFacts
    <3>2. NoAnswer.tx \notin TxId
      BY InstanceAssumption DEF NoAnswer
    <3> QED BY <3>1, <3>2 DEF Answers
  <2>6. \A u \in TxId : Same(u)
    BY <1>1 DEF Hushed
  <2>7. Knows(d, jn'[t], ops'[t], applied'[t])
    BY <1>1, <2>4, <2>6, KnowsSame DEF Same, Hushed
  <2>8. /\ Accounted' /\ InLane' /\ Knowing'
        /\ \A code : \A u \in TxId : Told(code, u) => Told(code, u)'
    BY <1>1, <1>2, <1>5, <2>2, <2>3, <2>6, <2>7, MoveKeeps, InstanceAssumption DEF Hushed
  <2> QED BY <2>5, <2>8, ToldHonest
<1> QED BY <1>4, <1>5 DEF Recover

\* Scratch files come and go under a progress document that stays.
LEMMA ScratchHushed ==
    ASSUME Honest, NEW w \in Worker, drv[w].tx \in TxId, NEW k, jn' = [jn EXCEPT ![drv[w].tx] = k],
           k.prog = jn[drv[w].tx].prog, k.pay = jn[drv[w].tx].pay, UNCHANGED <<ops, applied>>
    PROVE  Hushed
BY HonestFacts DEF Hushed, Same

LEMMA ScratchHonest ==
    ASSUME Honest, Custody', NEW w \in Worker, ClearNext(w) \/ WriteNext(w)
    PROVE  Honest'
<1>1. drv[w].pc \in {"clear", "write"} /\ UNCHANGED <<ops, applied, answer>>
  BY DEF ClearNext, WriteNext, At
<1>2. drv[w].tx \in TxId
  BY <1>1, PlaceOwned DEF Owning, Persisting
<1>3. ASSUME NEW n, jn' = [jn EXCEPT ![drv[w].tx].next = n] PROVE Hushed
  <2> DEFINE k == [jn[drv[w].tx] EXCEPT !.next = n]
  <2>1. jn' = [jn EXCEPT ![drv[w].tx] = k]
    BY <1>3
  <2>2. k.prog = jn[drv[w].tx].prog /\ k.pay = jn[drv[w].tx].pay
    BY <1>2, Owned DEF Journal
  <2> HIDE DEF k
  <2> QED BY <1>1, <1>2, <2>1, <2>2, ScratchHushed
<1>4. Hushed
  <2>1. CASE jn' = jn
    BY <1>1, <2>1, StillHushed
  <2> QED BY <1>3, <2>1 DEF ClearNext, WriteNext
<1>5. ASSUME NEW pc \in {"write", "rename"}, NEW s, drv' = [drv EXCEPT ![w].pc = pc, ![w].sync = s]
      PROVE  Honest'
  <2> DEFINE d == [drv[w] EXCEPT !.pc = pc, !.sync = s]
  <2>1. drv' = [drv EXCEPT ![w] = d]
    BY <1>2, <1>5, Owned
  <2>2. /\ d.tx = drv[w].tx /\ d.mode = drv[w].mode /\ d.idx = drv[w].idx /\ d.why = drv[w].why
        /\ d.pc = pc /\ d.mem = drv[w].mem /\ d.back = drv[w].back
    BY <1>2, Owned DEF Driver
  <2> HIDE DEF d
  <2>3. Lane(d)
    BY <1>1, <1>2, <1>5, <2>2, Owned DEF Lane, RecoveryPlaces, Persisting
  <2>4. Knows(d, jn[drv[w].tx], ops[drv[w].tx], applied[drv[w].tx])
    BY <1>1, <1>2, <1>5, <2>2, Owned DEF Knows, Persisting
  <2> QED BY <1>1, <1>2, <1>4, <2>1, <2>2, <2>3, <2>4, OwnedMove
<1>6. ASSUME NEW pc \in {"write", "rename"}, Goto(w, pc) PROVE Honest'
  <2>1. drv' = [drv EXCEPT ![w].pc = pc, ![w].sync = drv[w].sync]
    BY <1>2, <1>6, Owned DEF Goto, Driver
  <2> QED BY <1>5, <2>1
<1>7. CASE Fail(w, "raw")
  BY <1>1, <1>2, <1>4, <1>7, HushedFail
<1> QED BY <1>5, <1>6, <1>7 DEF ClearNext, WriteNext

\* A driver changes the journal and the effects of its own transaction.
LEMMA OwnJournalMove ==
    ASSUME Honest, Custody', NEW w \in Worker, drv[w].tx \in TxId,
           NEW d, drv' = [drv EXCEPT ![w] = d], d.tx = drv[w].tx, d.mode = drv[w].mode, Lane(d),
           NEW k, jn' = [jn EXCEPT ![drv[w].tx] = k], NEW e, applied' = [applied EXCEPT ![drv[w].tx] = e],
           k.prog = jn[drv[w].tx].prog \/ (drv[w].pc \in Persisting /\ k.prog = drv[w].mem),
           Accounts(k, ops[drv[w].tx], e), Knows(d, k, ops[drv[w].tx], e),
           ops' = ops, answer' = answer
    PROVE  Honest'
<1>1. \A t \in TxId : /\ jn'[t] = IF t = drv[w].tx THEN k ELSE jn[t]
                      /\ applied'[t] = IF t = drv[w].tx THEN e ELSE applied[t]
  BY HonestFacts
<1>2. \A t \in TxId : t # drv[w].tx => Same(t)
  BY <1>1 DEF Same
<1>3. /\ Accounted' /\ InLane' /\ Knowing'
      /\ \A code : \A t \in TxId : Told(code, t) => Told(code, t)'
  <2>1. jn'[drv[w].tx] = k /\ applied'[drv[w].tx] = e
    BY <1>1
  <2>2. Knows(d, jn'[d.tx], ops'[d.tx], applied'[d.tx])
    BY <2>1
  <2>3. /\ Accounts(jn'[drv[w].tx], ops[drv[w].tx], applied'[drv[w].tx])
        /\ \/ jn'[drv[w].tx].prog = jn[drv[w].tx].prog
           \/ drv[w].pc \in Persisting /\ jn'[drv[w].tx].prog = drv[w].mem
    BY <2>1
  <2> QED BY <1>2, <2>2, <2>3, MoveKeeps
<1> QED BY <1>3, ToldHonest, SilentAnswers

\* The effects of its transaction stay.
LEMMA EffectsStay ==
    ASSUME Honest, NEW w \in Worker, drv[w].tx \in TxId, applied' = applied
    PROVE  applied' = [applied EXCEPT ![drv[w].tx] = applied[drv[w].tx]]
BY HonestFacts

LEMMA RenameHonest ==
    ASSUME Honest, Custody', NEW w \in Worker, RenameNext(w)
    PROVE  Honest'
<1> DEFINE t == drv[w].tx
           k == [jn[t] EXCEPT !.prog = jn[t].next, !.next = NoProgress]
           d == [drv[w] EXCEPT !.pc = drv[w].back, !.sync = ProgressSync]
<1>1. drv[w].pc = "rename" /\ drv[w].pc \in Persisting /\ UNCHANGED <<ops, applied, answer>>
  BY DEF RenameNext, At, Persisting
<1>2. /\ t \in TxId /\ drv[w].mem \in Progress /\ Replaces(drv[w].mem, jn[t].prog)
      /\ jn[t].next \in {NoProgress, drv[w].mem}
      /\ drv[w].back \in {"mkStaging", "authorize", "publish", "decide", "cleanup"}
  BY <1>1, PersistingKnows, OwnCustody DEF Honest, DriverShape
<1>3. CASE Fail(w, "raw") /\ jn' = jn
  <2>1. Hushed
    BY <1>1, <1>3, StillHushed
  <2> QED BY <1>1, <1>2, <1>3, <2>1, HushedFail
<1>4. CASE /\ jn[t].next # NoProgress
           /\ jn' = [jn EXCEPT ![t].prog = jn[t].next, ![t].next = NoProgress]
           /\ drv' = [drv EXCEPT ![w].pc = drv[w].back, ![w].sync = ProgressSync]
  <2>1. jn' = [jn EXCEPT ![t] = k] /\ drv' = [drv EXCEPT ![w] = d]
    BY <1>2, <1>4, Owned
  <2>2. k.prog = drv[w].mem /\ k.pay = jn[t].pay
    BY <1>2, <1>4, Owned DEF Journal
  <2>3. /\ d.tx = t /\ d.mode = drv[w].mode /\ d.idx = drv[w].idx /\ d.why = drv[w].why
        /\ d.pc = drv[w].back /\ d.mem = drv[w].mem /\ d.back = drv[w].back
    BY <1>2, Owned DEF Driver
  <2> HIDE DEF k, d
  <2>4. Lane(d)
    BY <1>1, <1>2, <2>3, Owned DEF Lane, RecoveryPlaces, Persisting
  <2>5. drv[w].mem # NoProgress
    BY <1>2, ProgressFacts
  <2>6. Knows(d, k, ops[t], applied[t])
    BY <1>1, <1>2, <2>2, <2>3, <2>5, Owned DEF Knows, Persisting
  <2>7. Accounts(k, ops[t], applied[t])
    <3>1. drv[w].mem.phase = "prepared" => PayloadsComplete(ops[t], jn[t].pay)
      BY <1>1, <1>2, Owned DEF Knows
    <3>2. drv[w].mem.phase = "committed" => Written(ops[t], applied[t])
      BY <1>1, <1>2, Owned DEF Knows
    <3>3. drv[w].mem.phase = "publishing" => jn[t].prog.phase \in {"prepared", "publishing"}
      BY <1>2 DEF Replaces, LegalTransitions
    <3> QED BY <1>2, <2>2, <3>1, <3>2, <3>3, Owned DEF Accounts, PayloadsComplete
  <2>8. applied' = [applied EXCEPT ![t] = applied[t]]
    BY <1>1, <1>2, EffectsStay
  <2> QED BY <1>1, <1>2, <2>1, <2>2, <2>3, <2>4, <2>6, <2>7, <2>8, OwnJournalMove
<1> QED BY <1>3, <1>4 DEF RenameNext

-----------------------------------------------------------------------------
(* Steps that stage, publish and clean up.                                 *)

LEMMA BeginHonest ==
    ASSUME Honest, Custody', NEW w \in Worker, NEW t \in TxId, Begin(w, t)
    PROVE  Honest'
<1> DEFINE mem == [phase |-> "begun", bound |-> FALSE, published |-> 0]
           k == [jn[t] EXCEPT !.root = TRUE]
           d == [drv[w] EXCEPT !.tx = t, !.ops = <<>>, !.pc = "clear", !.mem = mem,
                               !.back = "mkStaging", !.sync = "transactions"]
<1>1. drv[w].pc = "begin" /\ ops[t] = <<>> /\ applied' = applied
  BY DEF Begin, At, Unused
<1>2. drv[w].tx = NoTx /\ NoTx \notin TxId
  BY <1>1, OwnCustody, InstanceAssumption DEF Honest, DriverShape
<1>3. CASE Return(w, "revision_conflict") /\ UNCHANGED <<jn, ops>>
  <2>1. Hushed
    BY <1>1, <1>3, StillHushed
  <2> QED BY <1>2, <1>3, <2>1, HushedRefusal
<1>4. CASE /\ jn' = [jn EXCEPT ![t].root = TRUE]
           /\ ops' = [ops EXCEPT ![t] = drv[w].ops]
           /\ drv' = [drv EXCEPT ![w].tx = t, ![w].ops = <<>>, ![w].pc = "clear",
                                 ![w].mem = mem, ![w].back = "mkStaging",
                                 ![w].sync = "transactions"]
           /\ answer' = answer
  <2>1. jn' = [jn EXCEPT ![t] = k] /\ drv' = [drv EXCEPT ![w] = d]
    BY <1>4, HonestFacts
  <2>2. k.prog = jn[t].prog /\ k.pay = jn[t].pay
    BY HonestFacts DEF Journal
  <2>3. /\ d.tx = t /\ d.mode = drv[w].mode /\ d.idx = drv[w].idx /\ d.why = drv[w].why
        /\ d.pc = "clear" /\ d.mem = mem /\ d.back = "mkStaging"
    BY HonestFacts DEF Driver
  <2>4. mem.phase = "begun"
    OBVIOUS
  <2> HIDE DEF k, d, mem
  <2>5. \A u \in TxId : Same(u)
    BY <1>1, <2>1, <2>2, HonestFacts DEF Same
  <2>6. \A u \in TxId : ops[u] # <<>> => ops'[u] = ops[u]
    BY <1>1, <1>4, HonestFacts
  <2>7. Lane(d)
    BY <1>2, <2>3, Unowned DEF Lane, Persisting
  <2>8. Knows(d, jn'[d.tx], ops'[d.tx], applied'[d.tx])
    BY <1>2, <2>3, <2>4, Unowned DEF Knows, Persisting
  <2>9. /\ Accounted' /\ InLane' /\ Knowing'
        /\ \A code : \A u \in TxId : Told(code, u) => Told(code, u)'
    BY <1>1, <1>2, <2>1, <2>3, <2>5, <2>6, <2>7, <2>8, MoveKeeps
  <2> QED BY <1>4, <2>9, ToldHonest, SilentAnswers
<1> QED BY <1>3, <1>4 DEF Begin

LEMMA StagingHonest ==
    ASSUME Honest, Custody', NEW w \in Worker, MakeStaging(w) \/ WriteManifest(w) \/ FillManifest(w)
    PROVE  Honest'
<1>1. /\ drv[w].pc \in {"mkStaging", "manifest", "fillManifest"} /\ UNCHANGED <<ops, applied, answer>>
  BY DEF MakeStaging, WriteManifest, FillManifest, At
<1>2. drv[w].tx \in TxId
  BY <1>1, PlaceOwned DEF Owning, Settled
<1>3. drv[w].mode = "exec"
  BY <1>1, <1>2, Owned DEF Lane, RecoveryPlaces, Persisting, Failing, Driver
<1>4. Hushed
  <2>1. CASE jn' = jn
    BY <1>1, <2>1, StillHushed
  <2>2. ASSUME NEW f, jn' = [jn EXCEPT ![drv[w].tx].man = f] PROVE Hushed
    <3> DEFINE k == [jn[drv[w].tx] EXCEPT !.man = f]
    <3>1. jn' = [jn EXCEPT ![drv[w].tx] = k]
      BY <2>2
    <3>2. k.prog = jn[drv[w].tx].prog /\ k.pay = jn[drv[w].tx].pay
      BY <1>2, Owned DEF Journal
    <3> HIDE DEF k
    <3> QED BY <1>1, <1>2, <3>1, <3>2, ScratchHushed
  <2>3. CASE jn' = [jn EXCEPT ![drv[w].tx].staging = TRUE]
    <3> DEFINE k == [jn[drv[w].tx] EXCEPT !.staging = TRUE]
    <3>1. jn' = [jn EXCEPT ![drv[w].tx] = k]
      BY <2>3
    <3>2. k.prog = jn[drv[w].tx].prog /\ k.pay = jn[drv[w].tx].pay
      BY <1>2, Owned DEF Journal
    <3> HIDE DEF k
    <3> QED BY <1>1, <1>2, <3>1, <3>2, ScratchHushed
  <2>4. CASE MakeStaging(w)
    BY <2>1, <2>3, <2>4 DEF MakeStaging
  <2>5. CASE WriteManifest(w)
    BY <2>1, <2>2, <2>5 DEF WriteManifest
  <2>6. CASE FillManifest(w)
    <3> DEFINE f == IF jn[drv[w].tx].man = "torn" THEN "full" ELSE jn[drv[w].tx].man
    <3>1. jn' = [jn EXCEPT ![drv[w].tx].man = f]
      BY <1>2, <2>6, HonestFacts DEF FillManifest
    <3> HIDE DEF f
    <3> QED BY <2>2, <3>1
  <2> QED BY <2>4, <2>5, <2>6
<1>5. ASSUME NEW pc, NEW s, drv' = [drv EXCEPT ![w].pc = pc, ![w].sync = s],
             \/ pc = "stage" /\ drv[w].pc = "mkStaging"
             \/ pc \in {"fillManifest", "precheck"} /\ drv[w].pc \in {"manifest", "fillManifest"}
      PROVE  Honest'
  <2> DEFINE d == [drv[w] EXCEPT !.pc = pc, !.sync = s]
  <2>1. drv' = [drv EXCEPT ![w] = d]
    BY <1>2, <1>5, Owned
  <2>2. /\ d.tx = drv[w].tx /\ d.mode = drv[w].mode /\ d.idx = drv[w].idx /\ d.why = drv[w].why
        /\ d.pc = pc /\ d.mem = drv[w].mem
    BY <1>2, Owned DEF Driver
  <2> HIDE DEF d
  <2>3. Lane(d)
    BY <1>2, <1>3, <1>5, <2>2, Owned DEF Lane, Persisting
  <2>4. Knows(d, jn[drv[w].tx], ops[drv[w].tx], applied[drv[w].tx])
    <3>1. drv[w].pc = "mkStaging" => d.idx = 1
      BY <1>2, <2>2, Owned DEF Lane
    <3> QED BY <1>2, <1>3, <1>5, <2>2, <3>1, Owned DEF Knows, Persisting
  <2> QED BY <1>1, <1>2, <1>4, <2>1, <2>2, <2>3, <2>4, OwnedMove
<1>6. CASE Fail(w, "raw")
  BY <1>1, <1>2, <1>4, <1>6, HushedFail
<1>7. CASE MakeStaging(w)
  BY <1>5, <1>6, <1>7 DEF MakeStaging, At
<1>8. CASE FillManifest(w)
  BY <1>5, <1>8 DEF FillManifest, At
<1>9. CASE WriteManifest(w)
  <2>1. CASE Goto(w, "fillManifest")
    <3>1. drv' = [drv EXCEPT ![w].pc = "fillManifest", ![w].sync = drv[w].sync]
      BY <1>2, <2>1, Owned DEF Goto, Driver
    <3> QED BY <1>5, <1>9, <3>1 DEF WriteManifest, At
  <2> QED BY <1>6, <1>9, <2>1 DEF WriteManifest
<1> QED BY <1>7, <1>8, <1>9

\* What the executor knows while it stages.
LEMMA StageKnows ==
    ASSUME Honest, NEW w \in Worker, drv[w].pc \in {"stage", "fill"}
    PROVE  /\ drv[w].tx \in TxId /\ jn[drv[w].tx].prog.phase = "begun"
           /\ drv[w].mode = "exec" /\ drv[w].why # "internal_failure"
           /\ drv[w].idx \in 1 .. MaxOps + 1 /\ Len(ops[drv[w].tx]) \in 0 .. MaxOps
           /\ \A m \in 1 .. Len(ops[drv[w].tx]) :
                 Staged(ops[drv[w].tx][m]) /\ m < drv[w].idx => jn[drv[w].tx].pay[m] = "full"
<1>1. drv[w].tx \in TxId /\ jn[drv[w].tx].prog.phase = "begun"
  BY SettledKnows DEF Settled, InPhase, Honest
<1>2. /\ Lane(drv[w]) /\ drv[w] \in Driver /\ drv[w].tx # NoTx
      /\ Knows(drv[w], jn[drv[w].tx], ops[drv[w].tx], applied[drv[w].tx])
      /\ Len(ops[drv[w].tx]) \in 0 .. MaxOps
  BY <1>1, Owned
<1>3. drv[w].mode = "exec" /\ drv[w].why # "internal_failure" /\ drv[w].idx \in 1 .. MaxOps + 1
  BY <1>2 DEF Lane, RecoveryPlaces, Persisting, Failing, Driver
<1>4. \A m \in 1 .. Len(ops[drv[w].tx]) :
         Staged(ops[drv[w].tx][m]) /\ m < drv[w].idx => jn[drv[w].tx].pay[m] = "full"
  BY <1>2 DEF Knows
<1> QED BY <1>1, <1>2, <1>3, <1>4

\* The executor goes on staging with the payloads of k.
LEMMA StageMove ==
    ASSUME Honest, Custody', NEW w \in Worker, drv[w].pc \in {"stage", "fill"},
           UNCHANGED <<ops, applied, answer>>,
           NEW e, drv' = [drv EXCEPT ![w] = e], e.pc \in {"stage", "fill", "manifest"},
           e.tx = drv[w].tx, e.mode = drv[w].mode, e.why = drv[w].why,
           NEW k, jn' = [jn EXCEPT ![drv[w].tx] = k], k.prog = jn[drv[w].tx].prog,
           e.pc \in {"stage", "fill"} =>
              \A m \in 1 .. Len(ops[drv[w].tx]) : Staged(ops[drv[w].tx][m]) /\ m < e.idx => k.pay[m] = "full",
           e.pc = "manifest" => PayloadsComplete(ops[drv[w].tx], k.pay)
    PROVE  Honest'
<1>1. /\ drv[w].tx \in TxId /\ jn[drv[w].tx].prog.phase = "begun"
      /\ drv[w].mode = "exec" /\ drv[w].why # "internal_failure" /\ drv[w].tx # NoTx
  BY StageKnows, Owned
<1>2. Lane(e)
  BY <1>1 DEF Lane, Persisting
<1>3. Knows(e, k, ops[drv[w].tx], applied[drv[w].tx])
  BY <1>1 DEF Knows, Persisting
<1>4. Accounts(k, ops[drv[w].tx], applied[drv[w].tx])
  BY <1>1 DEF Accounts
<1>5. applied' = [applied EXCEPT ![drv[w].tx] = applied[drv[w].tx]]
  BY <1>1, EffectsStay
<1> QED BY <1>1, <1>2, <1>3, <1>4, <1>5, OwnJournalMove

LEMMA StageHonest ==
    ASSUME Honest, Custody', NEW w \in Worker, Stage(w) \/ FillPayload(w)
    PROVE  Honest'
<1> DEFINE t == drv[w].tx
           i == drv[w].idx
           o == ops[t]
<1>1. drv[w].pc \in {"stage", "fill"} /\ UNCHANGED <<ops, applied, answer>>
  BY DEF Stage, FillPayload, At
<1>2. /\ t \in TxId /\ i \in 1 .. MaxOps + 1 /\ Len(o) \in 0 .. MaxOps
      /\ \A m \in 1 .. Len(o) : Staged(o[m]) /\ m < i => jn[t].pay[m] = "full"
  BY <1>1, StageKnows
<1>3. /\ drv \in [Worker -> Driver] /\ drv[w] \in Driver
      /\ jn \in [TxId -> Journal] /\ jn[t] \in Journal
  BY <1>2, Owned
<1>4. \A m \in 1 .. Len(o) : m \in 1 .. MaxOps /\ m \in Int
  BY <1>2, BoundAssumption
<1>6. CASE Fail(w, "raw") /\ jn' = jn
  <2>1. Hushed
    BY <1>1, <1>6, StillHushed
  <2> QED BY <1>1, <1>2, <1>6, <2>1, HushedFail
<1>7. CASE Fail(w, "state_corrupt") /\ jn' = jn
  <2>1. Hushed
    BY <1>1, <1>7, StillHushed
  <2> QED BY <1>1, <1>2, <1>7, <2>1, HushedFail
<1>8. CASE i > Len(o) /\ Goto(w, "manifest") /\ jn' = jn
  <2> DEFINE e == [drv[w] EXCEPT !.pc = "manifest"]
  <2>1. drv' = [drv EXCEPT ![w] = e] /\ jn' = [jn EXCEPT ![t] = jn[t]]
    BY <1>2, <1>3, <1>8 DEF Goto
  <2>2. e.pc = "manifest" /\ e.tx = t /\ e.mode = drv[w].mode /\ e.why = drv[w].why
    BY <1>3 DEF Driver
  <2>3. PayloadsComplete(o, jn[t].pay)
    <3>1. \A m \in 1 .. Len(o) : m < i
      BY <1>2, <1>8, BoundAssumption
    <3> QED BY <1>2, <3>1 DEF PayloadsComplete
  <2> HIDE DEF e
  <2> QED BY <1>1, <2>1, <2>2, <2>3, StageMove
<1>9. CASE i <= Len(o) /\ ~Staged(o[i]) /\ drv' = [drv EXCEPT ![w].idx = i + 1] /\ jn' = jn /\ drv[w].pc = "stage"
  <2> DEFINE e == [drv[w] EXCEPT !.idx = i + 1]
  <2>1. drv' = [drv EXCEPT ![w] = e] /\ jn' = [jn EXCEPT ![t] = jn[t]]
    BY <1>2, <1>3, <1>9
  <2>2. e.pc = "stage" /\ e.idx = i + 1 /\ e.tx = t /\ e.mode = drv[w].mode /\ e.why = drv[w].why
    BY <1>3, <1>9 DEF Driver
  <2>3. \A m \in 1 .. Len(o) : m < i + 1 => m < i \/ m = i
    BY <1>2, <1>4, BoundAssumption
  <2> HIDE DEF e
  <2>4. \A m \in 1 .. Len(o) : Staged(o[m]) /\ m < e.idx => jn[t].pay[m] = "full"
    BY <1>2, <1>9, <2>2, <2>3
  <2> QED BY <1>1, <2>1, <2>2, <2>4, StageMove
<1>10. CASE i <= Len(o) /\ jn' = [jn EXCEPT ![t].pay[i] = "torn"] /\ Goto(w, "fill")
  <2> DEFINE e == [drv[w] EXCEPT !.pc = "fill"]
             k == [jn[t] EXCEPT !.pay[i] = "torn"]
  <2>1. drv' = [drv EXCEPT ![w] = e] /\ jn' = [jn EXCEPT ![t] = k]
    BY <1>2, <1>3, <1>10 DEF Goto
  <2>2. e.pc = "fill" /\ e.idx = i /\ e.tx = t /\ e.mode = drv[w].mode /\ e.why = drv[w].why
    BY <1>3 DEF Driver
  <2>3. k.prog = jn[t].prog /\ \A m \in 1 .. MaxOps : k.pay[m] = IF m = i THEN "torn" ELSE jn[t].pay[m]
    BY <1>3 DEF Journal
  <2> HIDE DEF e, k
  <2>4. \A m \in 1 .. Len(o) : m < i => m # i
    BY <1>2, <1>4, BoundAssumption
  <2>5. \A m \in 1 .. Len(o) : Staged(o[m]) /\ m < e.idx => k.pay[m] = "full"
    BY <1>2, <1>4, <2>2, <2>3, <2>4
  <2> QED BY <1>1, <2>1, <2>2, <2>3, <2>5, StageMove
<1>11. CASE /\ jn' = [jn EXCEPT ![t].pay[i] = "full"]
            /\ drv' = [drv EXCEPT ![w].pc = "stage", ![w].idx = i + 1, ![w].sync = StagingSync]
  <2> DEFINE e == [drv[w] EXCEPT !.pc = "stage", !.idx = i + 1, !.sync = StagingSync]
             k == [jn[t] EXCEPT !.pay[i] = "full"]
  <2>1. drv' = [drv EXCEPT ![w] = e] /\ jn' = [jn EXCEPT ![t] = k]
    BY <1>2, <1>3, <1>11
  <2>2. e.pc = "stage" /\ e.idx = i + 1 /\ e.tx = t /\ e.mode = drv[w].mode /\ e.why = drv[w].why
    BY <1>3 DEF Driver
  <2>3. k.prog = jn[t].prog /\ \A m \in 1 .. MaxOps : k.pay[m] = IF m = i THEN "full" ELSE jn[t].pay[m]
    BY <1>3 DEF Journal
  <2> HIDE DEF e, k
  <2>4. \A m \in 1 .. Len(o) : m < i + 1 => m < i \/ m = i
    BY <1>2, <1>4, BoundAssumption
  <2>5. \A m \in 1 .. Len(o) : Staged(o[m]) /\ m < e.idx => k.pay[m] = "full"
    BY <1>2, <1>4, <2>2, <2>3, <2>4
  <2> QED BY <1>1, <2>1, <2>2, <2>3, <2>5, StageMove
<1>12. CASE Stage(w)
  <2>1. Len(o) \in Nat /\ i \in Nat
    BY <1>2, BoundAssumption
  <2> QED BY <1>6, <1>8, <1>9, <1>10, <1>12, <2>1 DEF Stage, LastOp, Op, At
<1>13. CASE FillPayload(w)
  BY <1>7, <1>11, <1>13 DEF FillPayload
<1> QED BY <1>12, <1>13

LEMMA ApplyHonest ==
    ASSUME Honest, Custody', NEW w \in Worker, Apply(w)
    PROVE  Honest'
<1> DEFINE t == drv[w].tx
           i == drv[w].idx
           o == ops[t]
           e == [drv[w] EXCEPT !.pc = "verify", !.sync = PublishSync]
           k == [jn[t] EXCEPT !.pay[i] = "missing"]
           eff == applied[t] \cup {i}
<1>1. drv[w].pc = "apply" /\ UNCHANGED <<ops, answer>>
  BY DEF Apply, At
<1>2. /\ t \in TxId /\ jn[t].prog.phase = "publishing" /\ jn[t].prog = drv[w].mem
      /\ drv[w].mem \in Progress
  BY <1>1, SettledKnows DEF Settled, InPhase, Honest
<1>3. CASE Fail(w, "raw") /\ UNCHANGED <<jn, applied>>
  <2>1. Hushed
    BY <1>1, <1>3, StillHushed
  <2> QED BY <1>1, <1>2, <1>3, <2>1, HushedFail
<1>4. CASE /\ jn' = [jn EXCEPT ![t].pay[i] = "missing"]
           /\ applied' = [applied EXCEPT ![t] = @ \cup {i}]
           /\ drv' = [drv EXCEPT ![w].pc = "verify", ![w].sync = PublishSync]
  <2>1. /\ drv' = [drv EXCEPT ![w] = e] /\ jn' = [jn EXCEPT ![t] = k]
        /\ applied' = [applied EXCEPT ![t] = eff]
    BY <1>2, <1>4, HonestFacts
  <2>2. /\ e.pc = "verify" /\ e.tx = t /\ e.mode = drv[w].mode /\ e.why = drv[w].why
        /\ e.mem = drv[w].mem
    BY <1>2, Owned DEF Driver
  <2>0. jn[t] \in Journal /\ k = [jn[t] EXCEPT !.pay[i] = "missing"]
    BY <1>2, Owned
  <2> HIDE DEF e, k
  <2>3. k.prog = jn[t].prog /\ \A m \in 1 .. MaxOps : k.pay[m] = IF m = i THEN "missing" ELSE jn[t].pay[m]
    BY <2>0 DEF Journal
  <2>4. Len(o) \in Nat /\ 1 .. Len(o) \subseteq 1 .. MaxOps
    BY <1>2, Owned, BoundAssumption
  <2>5. Accounts(k, o, eff)
    BY <1>2, <2>3, <2>4, Owned DEF Accounts
  <2>6. drv[w].mode = "exec" => 1 .. drv[w].mem.published + 1 \subseteq eff
    <3>1. drv[w].mode = "exec" => 1 .. drv[w].mem.published \subseteq applied[t]
      BY <1>1, <1>2, Owned DEF Knows
    <3>2. drv[w].mem.published + 1 = i /\ drv[w].mem.published \in Int
      BY <1>1, <1>2, Owned, ProgressFacts, BoundAssumption DEF DriverShape
    <3> QED BY <3>1, <3>2
  <2> HIDE DEF eff
  <2>7. Lane(e)
    BY <1>2, <2>2, Owned DEF Lane, RecoveryPlaces, Persisting
  <2>8. Knows(e, k, o, eff)
    BY <1>2, <2>2, <2>3, <2>6, ProgressFacts DEF Knows, Persisting
  <2> HIDE DEF o
  <2> QED BY <1>1, <1>2, <2>1, <2>2, <2>3, <2>5, <2>7, <2>8, OwnJournalMove DEF o
<1> QED BY <1>3, <1>4 DEF Apply

LEMMA CleanupHonest ==
    ASSUME Honest, Custody', NEW w \in Worker, CleanupStep(w)
    PROVE  Honest'
<1> DEFINE t == drv[w].tx
           left == {i \in 1 .. MaxOps : jn[t].pay[i] # "missing"}
           first == CHOOSE i \in left : \A m \in left : i <= m
<1>1. drv[w].pc = "cleanup" /\ UNCHANGED <<ops, applied, answer>>
  BY DEF CleanupStep, At
<1>2. /\ t \in TxId /\ jn[t].prog = drv[w].mem /\ drv[w].mem \in Progress
      /\ Terminal(jn[t].prog.phase)
  BY <1>1, SettledKnows, OwnCustody DEF Settled, DriverShape, Honest
<1>3. drv[w].mem # NoProgress
  BY <1>2, ProgressFacts
\* Whatever goes away, the effects of a terminal transaction stay accounted for.
<1>4. ASSUME NEW k, jn' = [jn EXCEPT ![t] = k], k.prog = jn[t].prog, drv' = drv
      PROVE  Honest'
  <2>1. Accounts(k, ops[t], applied[t])
    BY <1>2, <1>4, Owned DEF Accounts, Terminal
  <2>2. Knows(drv[w], k, ops[t], applied[t])
    BY <1>1, <1>2, <1>3, <1>4 DEF Knows, Persisting
  <2>3. applied' = [applied EXCEPT ![t] = applied[t]] /\ drv' = [drv EXCEPT ![w] = drv[w]]
    BY <1>1, <1>2, <1>4, EffectsStay, HonestFacts
  <2> QED BY <1>1, <1>2, <1>4, <2>1, <2>2, <2>3, Owned, OwnJournalMove
<1>5. CASE drv' = drv
  <2>1. \/ jn' = [jn EXCEPT ![t] = [jn[t] EXCEPT !.pay[first] = "missing"]]
        \/ jn' = [jn EXCEPT ![t] = [jn[t] EXCEPT !.staging = FALSE]]
        \/ jn' = [jn EXCEPT ![t] = [jn[t] EXCEPT !.next = NoProgress]]
        \/ jn' = [jn EXCEPT ![t] = [jn[t] EXCEPT !.man = "missing"]]
        \/ jn' = [jn EXCEPT ![t] = jn[t]]
    <3>1. jn \in [TxId -> Journal]
      BY HonestFacts
    <3> HIDE DEF first, left
    <3> QED BY <1>2, <1>5, <3>1 DEF CleanupStep, first, left
  <2> HIDE DEF first, left
  <2>2. [jn[t] EXCEPT !.pay[first] = "missing"].prog = jn[t].prog
    BY <1>2, Owned DEF Journal
  <2>3. [jn[t] EXCEPT !.staging = FALSE].prog = jn[t].prog
    BY <1>2, Owned DEF Journal
  <2>4. [jn[t] EXCEPT !.next = NoProgress].prog = jn[t].prog
    BY <1>2, Owned DEF Journal
  <2>5. [jn[t] EXCEPT !.man = "missing"].prog = jn[t].prog
    BY <1>2, Owned DEF Journal
  <2> HIDE DEF t
  <2> QED BY <1>4, <1>5, <2>1, <2>2, <2>3, <2>4, <2>5
<1>6. ASSUME NEW pc, drv' = [drv EXCEPT ![w].pc = pc, ![w].sync = "root"], jn' = jn,
             pc = (IF drv[w].back = "decide" THEN "decide" ELSE "finish")
      PROVE  Honest'
  <2> DEFINE e == [drv[w] EXCEPT !.pc = pc, !.sync = "root"]
  <2>0. Hushed
    BY <1>1, <1>6, StillHushed
  <2>1. drv' = [drv EXCEPT ![w] = e]
    BY <1>2, <1>6, Owned
  <2>2. /\ e.pc = pc /\ e.tx = t /\ e.mode = drv[w].mode /\ e.why = drv[w].why
        /\ e.mem = drv[w].mem
    BY <1>2, Owned DEF Driver
  <2> HIDE DEF e
  <2>3. pc \in {"decide", "finish"} /\ (drv[w].mode = "exec" => pc = "finish")
    BY <1>1, <1>2, <1>6, Owned DEF Lane
  <2>4. Lane(e)
    BY <1>2, <2>2, <2>3, Owned DEF Lane, RecoveryPlaces, Persisting
  <2>5. Knows(e, jn[t], ops[t], applied[t])
    BY <1>2, <1>3, <2>2, <2>3 DEF Knows, Persisting
  <2> QED BY <1>1, <1>2, <2>0, <2>1, <2>2, <2>4, <2>5, OwnedMove
<1>7. drv' = drv \/ (jn' = jn /\ \E pc : /\ drv' = [drv EXCEPT ![w].pc = pc, ![w].sync = "root"]
                                         /\ pc = (IF drv[w].back = "decide" THEN "decide" ELSE "finish"))
  BY DEF CleanupStep
<1> QED BY <1>5, <1>6, <1>7

-----------------------------------------------------------------------------
(* Honest is inductive, and what follows from it.                          *)

LEMMA HonestStays ==
    ASSUME Honest, Custody', UNCHANGED <<jn, ops, applied, drv, answer>>
    PROVE  Honest'
BY DEF Honest, Accounted, InLane, Knowing, AllTold, Told

\* A crash forgets a driver, an edit touches destinations only.
LEMMA EnvironmentHonest ==
    ASSUME Honest, Custody', MaxPower = 0, MaxFault = 0, Environment
    PROVE  Honest'
<1>0. budget.power = 0 /\ budget.fault = 0
  BY DEF Honest, Custody, Shape, Files
<1>1. ASSUME NEW w \in Worker, Crash(w) PROVE Honest'
  <2>1. Hushed /\ Answers(w) /\ drv' = [drv EXCEPT ![w] = Idle]
    BY <1>1, StillHushed, SilentAnswers DEF Crash
  <2> QED BY <2>1, HushedIdle
<1>2. ASSUME NEW p, NEW c, Edit(p, c) PROVE Honest'
  BY <1>2, HonestStays DEF Edit
<1>3. ~PowerLoss /\ \A w \in Worker : ~Fault(w)
  BY <1>0 DEF PowerLoss, Fault
<1> QED BY <1>1, <1>2, <1>3 DEF Environment

LEMMA InitHonest == Init => Honest
<1> SUFFICES ASSUME Init PROVE Honest
  OBVIOUS
<1>1. Custody
  BY InitCustody
<1>2. Accounted
  BY BlankAccounts DEF Init, Accounted, NoJournal
<1>3. \A w \in Worker : drv[w] = Idle /\ answer[w] = NoAnswer
  BY DEF Init
<1>4. InLane /\ Knowing
  BY <1>3, IdleInLane DEF InLane, Knowing
<1>5. AllTold
  BY <1>3, InstanceAssumption DEF AllTold, NoAnswer
<1> QED BY <1>1, <1>2, <1>4, <1>5 DEF Honest

LEMMA StepHonest ==
    ASSUME Honest, Custody', NEW w \in Worker, Step(w)
    PROVE  Honest'
<1>1. CASE Preflight(w)
  BY <1>1, PreflightHonest, UnmarkHonest, ObserveHonest DEF Preflight
<1>2. CASE PersistProgress(w)
  BY <1>2, ScratchHonest, RenameHonest DEF PersistProgress
<1>3. CASE DriveExecution(w)
  BY <1>3, BeginHonest, StagingHonest, StageHonest, PrepareHonest, AuthorizeHonest,
     CheckPublishableHonest, CommitHonest DEF DriveExecution
<1>4. CASE Publish(w) \/ DriveRecovery(w)
  BY <1>4, ApplyHonest, VerifyHonest, DecideHonest, RecheckHonest DEF Publish, DriveRecovery
<1>5. CASE Conclude(w)
  BY <1>5, CleanupHonest, FinishHonest, CleanupUnmarkedHonest, ClassifyHonest DEF Conclude
<1> QED BY <1>1, <1>2, <1>3, <1>4, <1>5, SyncHonest DEF Step

LEMMA NextHonest ==
    ASSUME ~RecoverLive, MaxPower = 0, MaxFault = 0
    PROVE  Honest /\ [Next]_vars => Honest'
<1> SUFFICES ASSUME Honest, [Next]_vars PROVE Honest'
  OBVIOUS
<1>1. Custody'
  BY NextCustody DEF Honest
<1>2. CASE UNCHANGED vars
  BY <1>1, <1>2, HonestStays DEF vars
<1>3. CASE Next
  BY <1>1, <1>3, StepHonest, SubmitHonest, RecoverHonest, EnvironmentHonest DEF Next, Call
<1> QED BY <1>2, <1>3

\* What a caller was told agrees with the progress document, and that with the
\* effects.
LEMMA HonestAnswers ==
    Honest /\ PublishedOnlyWhenAuthorized => AnswersAreTrue
<1> SUFFICES ASSUME Honest, PublishedOnlyWhenAuthorized, NEW w \in Worker,
                    NEW t \in TxId, t = answer[w].tx
             PROVE  /\ answer[w].code = "committed" =>
                          \A i \in DOMAIN ops[t] : Staged(ops[t][i]) => i \in applied[t]
                    /\ answer[w].code \in {"aborted", "revision_conflict"} => applied[t] = {}
                    /\ answer[w].code = "internal_failure" => ~Marked(jn[t])
  BY DEF AnswersAreTrue
<1>1. Claim(answer[w].code, jn[t].prog) /\ Accounts(jn[t], ops[t], applied[t])
  BY HonestFacts DEF Told
<1>2. DOMAIN ops[t] = 1 .. Len(ops[t])
  BY HonestFacts DEF Manifest
<1>3. answer[w].code = "committed" =>
         \A i \in DOMAIN ops[t] : Staged(ops[t][i]) => i \in applied[t]
  BY <1>1, <1>2 DEF Claim, Accounts, Written
<1>4. answer[w].code \in {"aborted", "revision_conflict"} => applied[t] = {}
  BY <1>1 DEF Claim, Taken, PublishedOnlyWhenAuthorized
<1>5. answer[w].code = "internal_failure" => ~Marked(jn[t])
  BY <1>1 DEF Claim, Marked
<1> QED BY <1>3, <1>4, <1>5

\* A receipt of "committed" means that every file of the manifest took effect,
\* one of "aborted" and a refusal that blames the plan that nothing did, and one
\* that blames the machine that no marker is left, whatever processes race,
\* crash, recover and edit in between (executeManagedTransaction,
\* classifyDriverFailure).  Faults stay out: a second error, while the first is
\* classified, answers "internal_failure" before the marker was consulted.
THEOREM AnswersTrue ==
    ASSUME ~RecoverLive, MaxPower = 0, MaxFault = 0
    PROVE  Spec => []AnswersAreTrue
<1> DEFINE Inv == Honest /\ PublishedOnlyWhenAuthorized
<1>1. Init => Inv
  <2>1. Init => PublishedOnlyWhenAuthorized
    BY DEF Init, PublishedOnlyWhenAuthorized
  <2> QED BY <2>1, InitHonest
<1>2. Inv /\ [Next]_vars => Inv'
  <2> SUFFICES ASSUME Inv, [Next]_vars PROVE Inv'
    OBVIOUS
  <2>1. Honest'
    BY NextHonest
  <2>2. Custody /\ Shape'
    BY <2>1 DEF Honest, Custody
  <2> QED BY <2>1, <2>2, EffectsAuthorized
<1>3. Inv => AnswersAreTrue
  BY HonestAnswers
<1> QED BY <1>1, <1>2, <1>3, PTL DEF Spec

=============================================================================
