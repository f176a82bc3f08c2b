------------------------ MODULE TransactionGuarantees -----------------------
(***************************************************************************)
(* What managed transactions guarantee: they are atomic and recovery never *)
(* blocks, and what they published survives a power loss.                  *)
(***************************************************************************)
EXTENDS ManagedTransactionProofs

-----------------------------------------------------------------------------
(***************************************************************************)
(* Why managed transactions are atomic and why recovery never blocks, for  *)
(* any plans, manifests and transactions and any number of crashes and     *)
(* faults: at every step the journal of a transaction tells exactly which  *)
(* operations took effect, which payloads are left and which result each   *)
(* destination holds, up to the one operation in flight.                   *)
(*                                                                         *)
(* One process drives the project at a time.  Two of them may both pass    *)
(* preflight and then stand in each other's way, and an edit or a rename   *)
(* the disk lost puts a destination where the journal does not expect it:  *)
(* recovery then blocks, as it should.                                     *)
(***************************************************************************)

\* At most one process of the project is running.
OneWorker == \A v, w \in Worker : v = w

\* The first k operations of the manifest o took effect, the others did not.
Done(o, dst, k) ==
    \A i \in 1 .. Len(o) : dst[o[i].path] = (IF i <= k THEN o[i].result ELSE o[i].expected)

\* A journal that keeps preflight from starting another transaction.
Busy(j) == j.root /\ (~Terminal(j.prog.phase) \/ HasCleanupEntries(j))

\* A transaction stands after its first k operations.
Stands(j, o, dst, eff, k) ==
    /\ eff = 1 .. k
    /\ Done(o, dst, k)
    /\ PublishingPayloads(o, j.pay, k)

\* What the journal j of the manifest o says of the effects and the destinations.
Sound(j, o, dst, eff) ==
    /\ ~j.root => j = NoJournal
    /\ o # <<>> => ValidPlan(o)
    /\ j.prog.bound => j.man = "full" /\ PayloadsKnown(o, j.pay)
    /\ j.prog.phase \in {"missing", "begun", "prepared", "aborted"} => eff = {} /\ j.prog.published = 0
    /\ j.prog.phase = "begun" => ~j.prog.bound
    /\ j.prog.phase = "prepared" => Stands(j, o, dst, eff, 0)
    /\ j.prog.phase = "publishing" =>
          \E k \in 0 .. Len(o) : Stands(j, o, dst, eff, k) /\ j.prog.published \in {k, k - 1}
    /\ j.prog.phase = "committed" =>
          /\ eff = 1 .. Len(o) /\ j.prog.published = Len(o)
          /\ Busy(j) => Done(o, dst, Len(o))

\* What a driver is about to persist is true of the effects and the destinations.
Truthful(prog, j, o, dst, eff) ==
    /\ prog.phase = "begun" => ~prog.bound /\ prog.published = 0
    /\ prog.phase = "prepared" =>
          prog.published = 0 /\ j.man = "full" /\ Stands(j, o, dst, eff, 0)
    /\ prog.phase = "publishing" => eff = 1 .. prog.published
    /\ prog.phase = "committed" => prog.published = Len(o) /\ eff = 1 .. Len(o)
    /\ prog.phase = "aborted" => prog.published = 0 /\ prog.bound = j.prog.bound

\* Where a driver stands in its manifest.
Ready(d, j, o, dst, eff) ==
    /\ d.pc \in Persisting => Truthful(d.mem, j, o, dst, eff)
    /\ (d.pc \in Persisting /\ d.back = "mkStaging") \/ d.pc = "mkStaging" => d.idx = 1
    /\ d.pc \in {"stage", "fill"} => \A i \in 1 .. Len(o) : Staged(o[i]) /\ i < d.idx => j.pay[i] = "full"
    /\ d.pc \in {"manifest", "fillManifest", "precheck"} => PayloadsComplete(o, j.pay)
    /\ d.pc = "fillManifest" => j.man = "torn"
    /\ d.pc = "precheck" => j.man = "full"
    /\ d.pc \in {"publish", "apply", "recheck"} => eff = 1 .. d.mem.published
    /\ d.pc = "verify" => eff = 1 .. d.mem.published + 1

SoundJournals == \A t \in TxId : Sound(jn[t], ops[t], dest, applied[t])

OneBusy == \A t, u \in TxId : Busy(jn[t]) /\ Busy(jn[u]) => t = u

DriversReady ==
    \A w \in Worker :
        /\ drv[w].tx \in TxId =>
              Ready(drv[w], jn[drv[w].tx], ops[drv[w].tx], dest, applied[drv[w].tx])
        /\ drv[w].tx = NoTx => drv[w].idx = 1
        /\ drv[w].pc = "begin" => \A t \in TxId : ~Busy(jn[t])

Atomic == Custody /\ SoundJournals /\ OneBusy /\ DriversReady

-----------------------------------------------------------------------------
(* Steps that leave the destinations alone.                                *)

\* Places that ask nothing of a driver's position in its manifest.
Elsewhere == {"idle", "pre", "inspect", "observe", "begin", "unNext", "unDir", "decide",
              "cleanup", "finish", "failed", "classify", "authorize"}

LEMMA ElsewhereReady ==
    ASSUME NEW d, d.pc \in Elsewhere, NEW j, NEW o, NEW dst, NEW eff
    PROVE  Ready(d, j, o, dst, eff)
BY DEF Ready, Elsewhere, Persisting

LEMMA AtomicFacts ==
    ASSUME Atomic
    PROVE  /\ drv \in [Worker -> Driver] /\ jn \in [TxId -> Journal] /\ ops \in [TxId -> Manifest]
           /\ dest \in [Path -> Fingerprint] /\ applied \in [TxId -> SUBSET (1 .. MaxOps)]
           /\ \A t \in TxId : Sound(jn[t], ops[t], dest, applied[t])
           /\ \A w \in Worker : drv[w].tx \in TxId =>
                 Ready(drv[w], jn[drv[w].tx], ops[drv[w].tx], dest, applied[drv[w].tx])
           /\ \A w \in Worker : drv[w].tx = NoTx => drv[w].idx = 1
BY DEF Atomic, Custody, Shape, Registers, Files, SoundJournals, DriversReady

\* Only the driver moves.
LEMMA StillAtomic ==
    ASSUME Atomic, OneWorker, Custody', NEW w \in Worker, NEW d, drv' = [drv EXCEPT ![w] = d],
           UNCHANGED <<dest, jn, ops, applied>>,
           d.tx \in TxId => Ready(d, jn[d.tx], ops[d.tx], dest, applied[d.tx]),
           d.tx = NoTx => d.idx = 1,
           d.pc = "begin" => \A t \in TxId : ~Busy(jn[t])
    PROVE  Atomic'
<1>1. \A u \in Worker : drv'[u] = d
  BY AtomicFacts DEF OneWorker
<1>2. SoundJournals' /\ OneBusy'
  BY DEF Atomic, SoundJournals, OneBusy
<1>3. DriversReady'
  BY <1>1 DEF DriversReady
<1> QED BY <1>2, <1>3 DEF Atomic

LEMMA AtomicIdle ==
    ASSUME Atomic, OneWorker, Custody', NEW w \in Worker, drv' = [drv EXCEPT ![w] = Idle],
           UNCHANGED <<dest, jn, ops, applied>>
    PROVE  Atomic'
<1>1. Idle.tx = NoTx /\ Idle.idx = 1 /\ Idle.pc = "idle"
  BY DEF Idle
<1> QED BY <1>1, StillAtomic, InstanceAssumption

\* The driver moves to a place that asks nothing, with its transaction.
LEMMA AtomicElsewhere ==
    ASSUME Atomic, OneWorker, Custody', NEW w \in Worker, NEW d, drv' = [drv EXCEPT ![w] = d],
           UNCHANGED <<dest, jn, ops, applied>>,
           d.pc \in Elsewhere, d.pc # "begin", d.tx = drv[w].tx,
           d.tx \notin TxId => d.idx = drv[w].idx
    PROVE  Atomic'
<1>1. d.tx \in TxId => Ready(d, jn[d.tx], ops[d.tx], dest, applied[d.tx])
  BY ElsewhereReady
<1>2. d.tx = NoTx => d.idx = 1
  BY AtomicFacts, InstanceAssumption
<1> QED BY <1>1, <1>2, StillAtomic

LEMMA AtomicFail ==
    ASSUME Atomic, OneWorker, Custody', NEW w \in Worker, NEW why, Fail(w, why),
           UNCHANGED <<dest, jn, ops, applied>>
    PROVE  Atomic'
<1> DEFINE d == [drv[w] EXCEPT !.pc = "failed", !.why = why, !.sync = "none"]
<1>0. drv \in [Worker -> Driver] /\ drv[w] \in Driver
  BY AtomicFacts
<1>1. drv' = [drv EXCEPT ![w] = d]
  BY <1>0 DEF Fail
<1>2. d.tx = drv[w].tx /\ d.pc = "failed" /\ d.idx = drv[w].idx
  BY <1>0 DEF Driver
<1> HIDE DEF d
<1>3. d.pc \in Elsewhere
  BY <1>2 DEF Elsewhere
<1> QED BY <1>1, <1>2, <1>3, AtomicElsewhere

LEMMA AtomicGotoElsewhere ==
    ASSUME Atomic, OneWorker, Custody', NEW w \in Worker, NEW pc \in Elsewhere, pc # "begin", Goto(w, pc),
           UNCHANGED <<dest, jn, ops, applied>>
    PROVE  Atomic'
<1> DEFINE d == [drv[w] EXCEPT !.pc = pc]
<1>0. drv \in [Worker -> Driver] /\ drv[w] \in Driver
  BY AtomicFacts
<1>1. drv' = [drv EXCEPT ![w] = d]
  BY <1>0 DEF Goto
<1>2. d.tx = drv[w].tx /\ d.pc = pc /\ d.idx = drv[w].idx
  BY <1>0 DEF Driver
<1> HIDE DEF d
<1> QED BY <1>1, <1>2, AtomicElsewhere

\* The journal of one transaction changes and stays sound, the rest stays.
LEMMA JournalAtomic ==
    ASSUME Atomic, OneWorker, Custody', NEW w \in Worker, NEW d, drv' = [drv EXCEPT ![w] = d],
           NEW t \in TxId, NEW k, jn' = [jn EXCEPT ![t] = k], UNCHANGED <<dest, ops, applied>>,
           Sound(k, ops[t], dest, applied[t]), Busy(k) => Busy(jn[t]),
           d.tx \in TxId => d.tx = t /\ Ready(d, k, ops[t], dest, applied[t]),
           d.tx = NoTx => d.idx = 1, d.pc # "begin"
    PROVE  Atomic'
<1>1. \A u \in Worker : drv'[u] = d
  BY AtomicFacts DEF OneWorker
<1>2. \A u \in TxId : jn'[u] = IF u = t THEN k ELSE jn[u]
  BY AtomicFacts
<1>3. SoundJournals'
  BY <1>2 DEF Atomic, SoundJournals
<1>4. OneBusy'
  BY <1>2 DEF Atomic, OneBusy
<1>5. DriversReady'
  BY <1>1, <1>2 DEF DriversReady
<1> QED BY <1>3, <1>4, <1>5 DEF Atomic

\* Scratch files, staging, payloads and manifest come and go under one progress
\* document.
LEMMA SoundSame ==
    ASSUME NEW j, NEW k, NEW o, NEW dst, NEW eff, Sound(j, o, dst, eff),
           k.root \/ k = NoJournal, k.prog = j.prog, Busy(k) => Busy(j),
           j.prog.bound => k.man = j.man,
           \/ k.pay = j.pay
           \/ ~j.prog.bound /\ j.prog.phase \in {"missing", "begun", "aborted"}
           \/ Terminal(j.prog.phase) /\ (PayloadsKnown(o, j.pay) => PayloadsKnown(o, k.pay))
    PROVE  Sound(k, o, dst, eff)
BY DEF Sound, Stands, Terminal

-----------------------------------------------------------------------------
(* Preflight.                                                              *)

LEMMA SubmitAtomic ==
    ASSUME Atomic, OneWorker, Custody', NEW w \in Worker, NEW plan \in Plans, Submit(w, plan)
    PROVE  Atomic'
<1> DEFINE d == [Idle EXCEPT !.pc = "pre", !.plan = plan, !.back = "observe"]
<1>1. drv' = [drv EXCEPT ![w] = d] /\ UNCHANGED <<dest, jn, ops, applied>>
  BY DEF Submit
<1>2. d.tx = NoTx /\ d.pc = "pre" /\ d.idx = 1
  BY DEF Idle
<1> HIDE DEF d
<1> QED BY <1>1, <1>2, StillAtomic, InstanceAssumption

LEMMA ReconcileAtomic ==
    ASSUME Atomic, OneWorker, Custody', NEW w \in Worker,
           (\E t \in TxId : ReconcileUnmarked(w, t)) \/ ReconcileDone(w)
    PROVE  Atomic'
<1>0. drv \in [Worker -> Driver] /\ drv[w] \in Driver /\ UNCHANGED <<dest, jn, ops, applied>>
  BY AtomicFacts DEF ReconcileUnmarked, ReconcileDone
<1>1. CASE ReconcileDone(w)
  BY <1>0, <1>1, AtomicGotoElsewhere DEF ReconcileDone, Elsewhere
<1>2. CASE drv' = [drv EXCEPT ![w] = Idle]
  BY <1>0, <1>2, AtomicIdle
<1>3. ASSUME NEW t \in TxId, NEW pc \in {"unNext", "unDir"}, drv' = [drv EXCEPT ![w].tgt = t, ![w].pc = pc]
      PROVE  Atomic'
  <2> DEFINE d == [drv[w] EXCEPT !.tgt = t, !.pc = pc]
  <2>1. drv' = [drv EXCEPT ![w] = d]
    BY <1>0, <1>3
  <2>2. d.tx = drv[w].tx /\ d.pc = pc /\ d.idx = drv[w].idx
    BY <1>0 DEF Driver
  <2> HIDE DEF d
  <2>3. d.pc \in Elsewhere /\ d.pc # "begin"
    BY <2>2 DEF Elsewhere
  <2> QED BY <1>0, <2>1, <2>2, <2>3, AtomicElsewhere
<1>4. ASSUME NEW t \in TxId, ReconcileUnmarked(w, t) PROVE Atomic'
  <2>1. (IF jn[t].next # NoProgress THEN "unNext" ELSE "unDir") \in {"unNext", "unDir"}
    OBVIOUS
  <2> QED BY <1>2, <1>3, <1>4, <2>1 DEF ReconcileUnmarked, Return
<1> QED BY <1>1, <1>4

\* What rejectIncompleteTransactions lets through: nothing is under way.
LEMMA InspectedNotBusy ==
    ASSUME NEW j, ~CorruptJournal(j), ~Incomplete(j)
    PROVE  ~Busy(j)
BY DEF CorruptJournal, Incomplete, Busy

LEMMA InspectAtomic ==
    ASSUME Atomic, OneWorker, Custody', NEW w \in Worker, Inspect(w)
    PROVE  Atomic'
<1> DEFINE d == [drv[w] EXCEPT !.pc = drv[w].back]
<1>0. drv \in [Worker -> Driver] /\ drv[w] \in Driver /\ UNCHANGED <<dest, jn, ops, applied>>
  BY AtomicFacts DEF Inspect
<1>1. CASE drv' = [drv EXCEPT ![w] = Idle]
  BY <1>0, <1>1, AtomicIdle
<1>2. CASE (\A t \in TxId : ~CorruptJournal(jn[t]) /\ ~Incomplete(jn[t])) /\ Goto(w, drv[w].back)
  <2>1. drv[w].tx = NoTx
    BY OwnCustody DEF Atomic, Inspect, At, DriverShape
  <2>2. drv' = [drv EXCEPT ![w] = d]
    BY <1>0, <1>2 DEF Goto
  <2>3. d.tx = drv[w].tx /\ d.idx = drv[w].idx
    BY <1>0 DEF Driver
  <2> HIDE DEF d
  <2>4. \A t \in TxId : ~Busy(jn[t])
    BY <1>2, InspectedNotBusy
  <2>5. d.tx = NoTx /\ d.idx = 1
    BY <2>1, <2>3, AtomicFacts
  <2> QED BY <1>0, <2>2, <2>4, <2>5, StillAtomic, InstanceAssumption
<1> QED BY <1>1, <1>2 DEF Inspect, Return

LEMMA ObserveAtomic ==
    ASSUME Atomic, OneWorker, Custody', NEW w \in Worker, Observe(w)
    PROVE  Atomic'
<1> DEFINE o == Normalize(drv[w].plan.effects, dest).ops
           d == [drv[w] EXCEPT !.ops = o, !.pc = "pre", !.back = "begin"]
<1>0. drv \in [Worker -> Driver] /\ drv[w] \in Driver /\ UNCHANGED <<dest, jn, ops, applied>>
  BY AtomicFacts DEF Observe
<1>1. \/ drv' = [drv EXCEPT ![w] = Idle]
      \/ drv' = [drv EXCEPT ![w].ops = o, ![w].pc = "pre", ![w].back = "begin"]
  BY DEF Observe, Return
<1> HIDE DEF o
<1>2. CASE drv' = [drv EXCEPT ![w] = Idle]
  BY <1>0, <1>2, AtomicIdle
<1>3. CASE drv' = [drv EXCEPT ![w].ops = o, ![w].pc = "pre", ![w].back = "begin"]
  <2>1. drv' = [drv EXCEPT ![w] = d]
    BY <1>0, <1>3
  <2>2. d.tx = drv[w].tx /\ d.pc = "pre" /\ d.idx = drv[w].idx
    BY <1>0 DEF Driver
  <2> HIDE DEF d
  <2>3. d.pc \in Elsewhere /\ d.pc # "begin"
    BY <2>2 DEF Elsewhere
  <2> QED BY <1>0, <2>1, <2>2, <2>3, AtomicElsewhere
<1> QED BY <1>1, <1>2, <1>3

\* A scratch file goes away.
LEMMA SoundWithoutNext ==
    ASSUME NEW j \in Journal, NEW o, NEW dst, NEW eff, Sound(j, o, dst, eff)
    PROVE  LET k == [j EXCEPT !.next = NoProgress]
           IN  /\ Sound(k, o, dst, eff) /\ (Busy(k) => Busy(j))
               /\ k.prog = j.prog /\ k.pay = j.pay /\ k.man = j.man
<1> DEFINE k == [j EXCEPT !.next = NoProgress]
<1>1. /\ k.root = j.root /\ k.prog = j.prog /\ k.pay = j.pay /\ k.man = j.man /\ k.staging = j.staging
      /\ k.next = NoProgress
  BY DEF Journal
<1>2. k.root \/ k = NoJournal
  <2>1. CASE j = NoJournal
    <3>1. j.next = NoProgress
      BY <2>1 DEF NoJournal
    <3> QED BY <2>1, <3>1 DEF Journal
  <2> QED BY <1>1, <2>1 DEF Sound
<1> HIDE DEF k
<1>3. Busy(k) => Busy(j)
  BY <1>1 DEF Busy, HasCleanupEntries
<1>4. Sound(k, o, dst, eff)
  BY <1>1, <1>2, <1>3, SoundSame
<1> QED BY <1>1, <1>3, <1>4 DEF k

LEMMA UnmarkAtomic ==
    ASSUME Atomic, OneWorker, Custody', NEW w \in Worker, UnmarkNext(w) \/ UnmarkDirectory(w)
    PROVE  Atomic'
<1> DEFINE t == drv[w].tgt
<1>0. /\ drv \in [Worker -> Driver] /\ drv[w] \in Driver /\ t \in TxId /\ jn[t] \in Journal
      /\ jn \in [TxId -> Journal] /\ drv[w].tx \in {t, NoTx} /\ UNCHANGED <<dest, ops, applied>>
      /\ Sound(jn[t], ops[t], dest, applied[t])
  <2>1. drv[w].pc \in {"unNext", "unDir"} /\ UNCHANGED <<dest, ops, applied>>
    BY DEF UnmarkNext, UnmarkDirectory, At
  <2>2. t \in TxId /\ drv[w].tx \in {t, NoTx}
    BY <2>1, OwnCustody DEF Atomic, DriverShape
  <2> QED BY <2>1, <2>2, AtomicFacts
<1>1. CASE drv' = [drv EXCEPT ![w] = Idle] /\ jn' = jn
  BY <1>0, <1>1, AtomicIdle
<1>2. CASE Goto(w, "classify") /\ jn' = jn
  BY <1>0, <1>2, AtomicGotoElsewhere DEF Elsewhere
<1>3. ASSUME NEW pc \in {"unDir", "classify", "pre"}, NEW s, drv' = [drv EXCEPT ![w].pc = pc, ![w].sync = s],
             NEW k, jn' = [jn EXCEPT ![t] = k], Sound(k, ops[t], dest, applied[t]), Busy(k) => Busy(jn[t])
      PROVE  Atomic'
  <2> DEFINE d == [drv[w] EXCEPT !.pc = pc, !.sync = s]
  <2>1. drv' = [drv EXCEPT ![w] = d]
    BY <1>0, <1>3
  <2>2. d.tx = drv[w].tx /\ d.pc = pc /\ d.idx = drv[w].idx
    BY <1>0 DEF Driver
  <2> HIDE DEF d
  <2>3. d.pc \in Elsewhere /\ d.pc # "begin"
    BY <2>2 DEF Elsewhere
  <2>4. d.tx \in TxId => d.tx = t /\ Ready(d, k, ops[t], dest, applied[t])
    BY <1>0, <2>2, <2>3, ElsewhereReady, InstanceAssumption
  <2>5. d.tx = NoTx => d.idx = 1
    BY <2>2, AtomicFacts
  <2> QED BY <1>0, <1>3, <2>1, <2>3, <2>4, <2>5, JournalAtomic
<1>4. CASE UnmarkNext(w)
  <2>1. CASE jn' = [jn EXCEPT ![t].next = NoProgress] /\ Goto(w, "unDir")
    <3> DEFINE k == [jn[t] EXCEPT !.next = NoProgress]
    <3>1. jn' = [jn EXCEPT ![t] = k]
      BY <1>0, <2>1
    <3>2. drv' = [drv EXCEPT ![w].pc = "unDir", ![w].sync = drv[w].sync]
      BY <1>0, <2>1 DEF Goto, Driver
    <3>3. Sound(k, ops[t], dest, applied[t]) /\ (Busy(k) => Busy(jn[t]))
      BY <1>0, SoundWithoutNext
    <3> QED BY <1>3, <3>1, <3>2, <3>3
  <2> QED BY <1>1, <1>4, <2>1 DEF UnmarkNext, Return
<1>5. CASE UnmarkDirectory(w)
  <2>1. CASE /\ jn' = [jn EXCEPT ![t] = NoJournal] /\ [jn[t] EXCEPT !.root = FALSE] = NoJournal
             /\ \E pc \in {"classify", "pre"} : drv' = [drv EXCEPT ![w].pc = pc, ![w].sync = "transactions"]
    <3>1. NoJournal.prog = NoProgress /\ NoJournal.root = FALSE /\ NoProgress.bound = FALSE
          /\ NoProgress.phase = "missing"
      BY DEF NoJournal, NoProgress
    <3>2. jn[t].prog = NoProgress
      <4>1. [jn[t] EXCEPT !.root = FALSE].prog = jn[t].prog
        BY <1>0 DEF Journal
      <4> QED BY <2>1, <3>1, <4>1
    <3>3. Busy(NoJournal) => Busy(jn[t])
      BY <3>1 DEF Busy
    <3>4. Sound(NoJournal, ops[t], dest, applied[t])
      BY <1>0, <3>1, <3>2, <3>3, SoundSame
    <3> QED BY <1>3, <2>1, <3>3, <3>4
  <2>2. \/ drv' = [drv EXCEPT ![w] = Idle] /\ jn' = jn
        \/ Goto(w, "classify") /\ jn' = jn
        \/ /\ jn' = [jn EXCEPT ![t] = NoJournal] /\ [jn[t] EXCEPT !.root = FALSE] = NoJournal
           /\ \E pc \in {"classify", "pre"} : drv' = [drv EXCEPT ![w].pc = pc, ![w].sync = "transactions"]
    BY <1>5 DEF UnmarkDirectory, Return
  <2> QED BY <1>1, <1>2, <2>1, <2>2
<1> QED BY <1>4, <1>5

-----------------------------------------------------------------------------
(* persistProgress.                                                        *)

LEMMA Intervals == \A m, n \in Nat : 1 .. m = 1 .. n => m = n
<1> SUFFICES ASSUME NEW m \in Nat, NEW n \in Nat, 1 .. m = 1 .. n, m # n PROVE FALSE
  OBVIOUS
<1>1. CASE m < n
  <2>1. n \in 1 .. n /\ n \notin 1 .. m
    BY <1>1
  <2> QED BY <2>1
<1>2. CASE n < m
  <2>1. m \in 1 .. m /\ m \notin 1 .. n
    BY <1>2
  <2> QED BY <2>1
<1> QED BY <1>1, <1>2

\* A driver that replaces progress.json keeps its place.
LEMMA ReadyCarried ==
    ASSUME NEW c, NEW d, NEW j, NEW k, NEW o, NEW dst, NEW eff, Ready(c, j, o, dst, eff),
           c.pc \in Persisting, d.pc \in Persisting, d.mem = c.mem, d.back = c.back, d.idx = c.idx,
           k.prog = j.prog, k.man = j.man, k.pay = j.pay
    PROVE  Ready(d, k, o, dst, eff)
BY DEF Ready, Truthful, Persisting, Stands

LEMMA OwnAtomic ==
    ASSUME Atomic, NEW w \in Worker, drv[w].tx \in TxId
    PROVE  LET t == drv[w].tx
           IN  /\ drv[w] \in Driver /\ jn[t] \in Journal
               /\ ops[t] \in Seq(Operation) /\ Len(ops[t]) \in 0 .. MaxOps /\ Len(ops[t]) \in Nat
               /\ Sound(jn[t], ops[t], dest, applied[t])
               /\ Ready(drv[w], jn[t], ops[t], dest, applied[t])
               /\ Sane(jn[t].prog) /\ ops[t] # <<>>
<1>1. ops[drv[w].tx] \in Seq(Operation) /\ Len(ops[drv[w].tx]) \in 0 .. MaxOps
  BY OwnManifest DEF Atomic, Custody, Shape
<1>2. Len(ops[drv[w].tx]) \in Nat
  BY <1>1, BoundAssumption
<1>3. Sane(jn[drv[w].tx].prog) /\ ops[drv[w].tx] # <<>>
  BY DEF Atomic, Custody, SaneJournals, UnusedIsBlank
<1> QED BY <1>1, <1>2, <1>3, AtomicFacts

LEMMA ClearNextAtomic ==
    ASSUME Atomic, OneWorker, Custody', NEW w \in Worker, ClearNext(w)
    PROVE  Atomic'
<1> DEFINE t == drv[w].tx
           k == [jn[t] EXCEPT !.next = NoProgress]
<1>0. /\ drv[w].pc = "clear" /\ t \in TxId /\ UNCHANGED <<dest, ops, applied>>
      /\ drv \in [Worker -> Driver] /\ jn \in [TxId -> Journal]
  BY PersistingKnows, AtomicFacts DEF ClearNext, At, Atomic, Persisting
<1>1. /\ drv[w] \in Driver /\ jn[t] \in Journal /\ Sound(jn[t], ops[t], dest, applied[t])
      /\ Ready(drv[w], jn[t], ops[t], dest, applied[t])
  BY <1>0, OwnAtomic
<1>2. \E s : drv' = [drv EXCEPT ![w].pc = "write", ![w].sync = s]
  <2>1. CASE Goto(w, "write")
    <3>1. drv' = [drv EXCEPT ![w].pc = "write", ![w].sync = drv[w].sync]
      BY <1>0, <1>1, <2>1 DEF Goto, Driver
    <3> QED BY <3>1
  <2> QED BY <2>1 DEF ClearNext
<1>3. PICK s : drv' = [drv EXCEPT ![w].pc = "write", ![w].sync = s]
  BY <1>2
<1> DEFINE d == [drv[w] EXCEPT !.pc = "write", !.sync = s]
<1>4. drv' = [drv EXCEPT ![w] = d]
  BY <1>0, <1>3
<1>5. /\ d.tx = t /\ d.pc = "write" /\ d.mem = drv[w].mem /\ d.back = drv[w].back /\ d.idx = drv[w].idx
      /\ d.pc \in Persisting /\ drv[w].pc \in Persisting
  BY <1>0, <1>1 DEF Driver, Persisting
<1> HIDE DEF d
<1>6. CASE jn' = jn
  <2>1. Ready(d, jn[t], ops[t], dest, applied[t])
    BY <1>1, <1>5, ReadyCarried
  <2> QED BY <1>0, <1>4, <1>5, <1>6, <2>1, StillAtomic, InstanceAssumption
<1>7. CASE jn' = [jn EXCEPT ![t].next = NoProgress]
  <2>1. jn' = [jn EXCEPT ![t] = k]
    BY <1>0, <1>7
  <2>2. /\ Sound(k, ops[t], dest, applied[t]) /\ (Busy(k) => Busy(jn[t]))
        /\ k.prog = jn[t].prog /\ k.pay = jn[t].pay /\ k.man = jn[t].man
    BY <1>1, SoundWithoutNext
  <2> HIDE DEF k
  <2>3. Ready(d, k, ops[t], dest, applied[t])
    BY <1>1, <1>5, <2>2, ReadyCarried
  <2> QED BY <1>0, <1>4, <1>5, <2>1, <2>2, <2>3, JournalAtomic, InstanceAssumption
<1> QED BY <1>6, <1>7 DEF ClearNext

LEMMA WriteNextAtomic ==
    ASSUME Atomic, OneWorker, Custody', NEW w \in Worker, WriteNext(w)
    PROVE  Atomic'
<1> DEFINE t == drv[w].tx
           k == [jn[t] EXCEPT !.next = drv[w].mem]
           d == [drv[w] EXCEPT !.pc = "rename"]
<1>0. /\ drv[w].pc = "write" /\ drv[w].pc \in Persisting /\ t \in TxId /\ UNCHANGED <<dest, ops, applied>>
      /\ drv \in [Worker -> Driver] /\ jn \in [TxId -> Journal] /\ Replaces(drv[w].mem, jn[t].prog)
  BY PersistingKnows, AtomicFacts DEF WriteNext, At, Atomic, Persisting
<1>1. /\ drv[w] \in Driver /\ jn[t] \in Journal /\ Sound(jn[t], ops[t], dest, applied[t])
      /\ Ready(drv[w], jn[t], ops[t], dest, applied[t])
  BY <1>0, OwnAtomic
<1>2. CASE Fail(w, "raw") /\ jn' = jn
  BY <1>0, <1>2, AtomicFail
<1>3. CASE jn[t].root /\ jn' = [jn EXCEPT ![t].next = drv[w].mem] /\ Goto(w, "rename")
  <2>1. drv' = [drv EXCEPT ![w] = d] /\ jn' = [jn EXCEPT ![t] = k]
    BY <1>0, <1>3 DEF Goto
  <2>2. /\ d.tx = t /\ d.pc = "rename" /\ d.mem = drv[w].mem /\ d.back = drv[w].back /\ d.idx = drv[w].idx
        /\ d.pc \in Persisting
    BY <1>1 DEF Driver, Persisting
  <2>3. k.root /\ k.prog = jn[t].prog /\ k.pay = jn[t].pay /\ k.man = jn[t].man
    BY <1>1, <1>3 DEF Journal
  <2> HIDE DEF d, k
  <2>4. Busy(jn[t])
    BY <1>0, <1>3 DEF Busy, Replaces, LegalTransitions, Terminal
  <2>5. Sound(k, ops[t], dest, applied[t])
    BY <1>1, <2>3, <2>4, SoundSame
  <2>6. Ready(d, k, ops[t], dest, applied[t])
    BY <1>0, <1>1, <2>2, <2>3, ReadyCarried
  <2> QED BY <1>0, <2>1, <2>2, <2>4, <2>5, <2>6, JournalAtomic, InstanceAssumption
<1> QED BY <1>2, <1>3 DEF WriteNext, Mine

\* The rename of progress.next: the new document is as true as the old one.
LEMMA SoundRenamed ==
    ASSUME NEW j, NEW k, NEW o, NEW dst, NEW eff, NEW d, Len(o) \in Nat, d.mem \in Progress,
           d.pc \in Persisting, Sound(j, o, dst, eff), Ready(d, j, o, dst, eff),
           Sane(j.prog), Sane(d.mem), Replaces(d.mem, j.prog),
           k.root, k.prog = d.mem, k.pay = j.pay, k.man = j.man
    PROVE  Sound(k, o, dst, eff)
<1>0. /\ d.mem.published \in Nat /\ d.mem.phase \in Phase /\ d.mem.bound \in BOOLEAN
      /\ o # <<>> => ValidPlan(o)
  BY ProgressFacts, BoundAssumption DEF Sound
<1>1. CASE d.mem.phase = "begun"
  <2>1. j.prog.phase = "missing" /\ ~d.mem.bound /\ d.mem.published = 0
    BY <1>1 DEF Replaces, LegalTransitions, Ready, Truthful
  <2> QED BY <1>0, <1>1, <2>1 DEF Sound
<1>2. CASE d.mem.phase = "prepared"
  <2>1. j.prog.phase = "begun" /\ d.mem.published = 0 /\ j.man = "full" /\ Stands(j, o, dst, eff, 0)
    BY <1>2 DEF Replaces, LegalTransitions, Ready, Truthful
  <2>2. Stands(k, o, dst, eff, 0) /\ eff = {} /\ PayloadsKnown(o, k.pay)
    BY <2>1 DEF Stands, Sound, PublishingPayloads, PayloadsKnown
  <2> QED BY <1>0, <1>2, <2>1, <2>2 DEF Sound
<1>3. CASE d.mem.phase = "publishing"
  <2>1. j.prog.phase \in {"prepared", "publishing"} /\ eff = 1 .. d.mem.published
    BY <1>3 DEF Replaces, LegalTransitions, Ready, Truthful
  <2>2. j.man = "full" /\ PayloadsKnown(o, j.pay)
    BY <2>1 DEF Sane, Sound
  <2>3. PICK n \in 0 .. Len(o) : Stands(j, o, dst, eff, n)
    BY <1>0, <2>1 DEF Sound
  <2>4. n = d.mem.published
    BY <1>0, <2>1, <2>3, Intervals DEF Stands
  <2>5. Stands(k, o, dst, eff, n)
    BY <2>3 DEF Stands
  <2> QED BY <1>0, <1>3, <2>2, <2>4, <2>5 DEF Sound
<1>4. CASE d.mem.phase = "committed"
  <2>1. j.prog.phase = "publishing" /\ eff = 1 .. Len(o) /\ d.mem.published = Len(o)
    BY <1>4 DEF Replaces, LegalTransitions, Ready, Truthful
  <2>2. j.man = "full" /\ PayloadsKnown(o, j.pay)
    BY <2>1 DEF Sane, Sound
  <2>3. PICK n \in 0 .. Len(o) : Stands(j, o, dst, eff, n)
    BY <2>1 DEF Sound
  <2>4. n = Len(o)
    BY <2>1, <2>3, Intervals DEF Stands
  <2>5. Done(o, dst, Len(o))
    BY <2>3, <2>4 DEF Stands
  <2> QED BY <1>0, <1>4, <2>1, <2>2, <2>5 DEF Sound
<1>5. CASE d.mem.phase = "aborted"
  <2>1. j.prog.phase \in {"begun", "prepared"} /\ d.mem.published = 0 /\ d.mem.bound = j.prog.bound
    BY <1>5 DEF Replaces, LegalTransitions, Ready, Truthful
  <2> QED BY <1>0, <1>5, <2>1 DEF Sound
<1> QED BY <1>0, <1>1, <1>2, <1>3, <1>4, <1>5 DEF Phase

LEMMA RenameNextAtomic ==
    ASSUME Atomic, OneWorker, Custody', NEW w \in Worker, RenameNext(w)
    PROVE  Atomic'
<1> DEFINE t == drv[w].tx
           k == [jn[t] EXCEPT !.prog = jn[t].next, !.next = NoProgress]
           d == [drv[w] EXCEPT !.pc = drv[w].back, !.sync = ProgressSync]
<1>0. /\ drv[w].pc = "rename" /\ drv[w].pc \in Persisting /\ t \in TxId /\ UNCHANGED <<dest, ops, applied>>
      /\ drv \in [Worker -> Driver] /\ jn \in [TxId -> Journal] /\ Replaces(drv[w].mem, jn[t].prog)
      /\ drv[w].mem \in Progress /\ Sane(drv[w].mem) /\ jn[t].next \in {NoProgress, drv[w].mem}
      /\ drv[w].back \in {"mkStaging", "authorize", "publish", "decide", "cleanup"}
      /\ InPhase(drv[w].back, drv[w].mem.phase)
  <2>1. drv[w].pc = "rename" /\ drv[w].pc \in Persisting /\ UNCHANGED <<dest, ops, applied>> /\ Custody
    BY DEF RenameNext, At, Persisting, Atomic
  <2>2. DriverShape(drv[w])
    BY <2>1, OwnCustody
  <2> QED BY <2>1, <2>2, PersistingKnows, AtomicFacts DEF DriverShape
<1>1. /\ drv[w] \in Driver /\ jn[t] \in Journal /\ Sound(jn[t], ops[t], dest, applied[t])
      /\ Ready(drv[w], jn[t], ops[t], dest, applied[t]) /\ Sane(jn[t].prog) /\ Len(ops[t]) \in Nat
  BY <1>0, OwnAtomic
<1>2. CASE Fail(w, "raw") /\ jn' = jn
  BY <1>0, <1>2, AtomicFail
<1>3. CASE /\ jn[t].next # NoProgress
           /\ jn' = [jn EXCEPT ![t].prog = jn[t].next, ![t].next = NoProgress]
           /\ drv' = [drv EXCEPT ![w].pc = drv[w].back, ![w].sync = ProgressSync]
  <2>1. drv' = [drv EXCEPT ![w] = d] /\ jn' = [jn EXCEPT ![t] = k]
    BY <1>0, <1>3
  <2>2. d.tx = t /\ d.pc = drv[w].back /\ d.mem = drv[w].mem /\ d.idx = drv[w].idx
    BY <1>1 DEF Driver
  <2>3. jn[t].root
    <3>1. NoJournal.next = NoProgress
      BY DEF NoJournal
    <3> QED BY <1>1, <1>3, <3>1 DEF Sound
  <2>4. k.root /\ k.prog = drv[w].mem /\ k.pay = jn[t].pay /\ k.man = jn[t].man
    BY <1>0, <1>1, <1>3, <2>3 DEF Journal
  <2> HIDE DEF d, k
  <2>5. Busy(jn[t])
    BY <1>0, <2>3 DEF Busy, Replaces, LegalTransitions, Terminal
  <2>6. Sound(k, ops[t], dest, applied[t])
    BY <1>0, <1>1, <2>4, SoundRenamed
  <2>7. Ready(d, k, ops[t], dest, applied[t])
    <3>1. CASE d.pc \in Elsewhere
      BY <3>1, ElsewhereReady
    <3>2. CASE d.pc = "mkStaging"
      BY <1>0, <1>1, <2>2, <3>2 DEF Ready, Persisting
    <3>3. CASE d.pc = "publish"
      BY <1>0, <1>1, <2>2, <3>3 DEF Ready, Truthful, Persisting, InPhase
    <3> QED BY <1>0, <2>2, <3>1, <3>2, <3>3 DEF Elsewhere
  <2>8. d.pc # "begin"
    BY <1>0, <2>2
  <2> QED BY <1>0, <2>1, <2>2, <2>5, <2>6, <2>7, <2>8, JournalAtomic, InstanceAssumption
<1> QED BY <1>2, <1>3 DEF RenameNext

-----------------------------------------------------------------------------
(* Begin and staging.                                                      *)

LEMMA BeginAtomic ==
    ASSUME Atomic, OneWorker, Custody', NEW w \in Worker, NEW t \in TxId, Begin(w, t)
    PROVE  Atomic'
<1> DEFINE mem == [phase |-> "begun", bound |-> FALSE, published |-> 0]
           k == [jn[t] EXCEPT !.root = TRUE]
           d == [drv[w] EXCEPT !.tx = t, !.ops = <<>>, !.pc = "clear", !.mem = mem,
                               !.back = "mkStaging", !.sync = "transactions"]
<1>0. /\ drv \in [Worker -> Driver] /\ drv[w] \in Driver /\ jn \in [TxId -> Journal]
      /\ ops \in [TxId -> Manifest] /\ drv[w].pc = "begin" /\ UNCHANGED <<dest, applied>>
  BY AtomicFacts DEF Begin, At
<1>1. ops[t] = <<>> /\ jn[t] = NoJournal
  BY DEF Begin, Unused, Atomic, Custody, UnusedIsBlank
<1>2. CASE Return(w, "revision_conflict") /\ UNCHANGED <<jn, ops>>
  BY <1>0, <1>2, AtomicIdle DEF Return
<1>3. CASE /\ jn' = [jn EXCEPT ![t].root = TRUE]
           /\ ops' = [ops EXCEPT ![t] = drv[w].ops]
           /\ drv' = [drv EXCEPT ![w].tx = t, ![w].ops = <<>>, ![w].pc = "clear",
                                 ![w].mem = mem, ![w].back = "mkStaging",
                                 ![w].sync = "transactions"]
  <2>1. drv' = [drv EXCEPT ![w] = d] /\ jn' = [jn EXCEPT ![t] = k]
    BY <1>0, <1>3
  <2>2. /\ d.tx = t /\ d.pc = "clear" /\ d.mem = mem /\ d.back = "mkStaging" /\ d.idx = drv[w].idx
        /\ mem.phase = "begun" /\ mem.bound = FALSE /\ mem.published = 0
    BY <1>0 DEF Driver
  <2>3. k.root /\ k.prog = NoProgress
    BY <1>1 DEF NoJournal
  <2>4. NoProgress.phase = "missing" /\ NoProgress.bound = FALSE /\ NoProgress.published = 0
        /\ NoJournal.prog = NoProgress
    BY DEF NoProgress, NoJournal
  <2> HIDE DEF d, k, mem
  <2>5. drv[w].tx = NoTx /\ ValidPlan(drv[w].ops)
    BY <1>0, OwnCustody DEF Atomic, DriverShape
  <2>6. drv[w].idx = 1 /\ \A u \in TxId : ~Busy(jn[u])
    BY <1>0, <2>5 DEF Atomic, DriversReady
  <2>7. applied[t] = {}
    BY <1>1, <2>4, AtomicFacts DEF Sound
  <2>8. \A u \in TxId : /\ jn'[u] = IF u = t THEN k ELSE jn[u]
                        /\ ops'[u] = IF u = t THEN drv[w].ops ELSE ops[u]
    BY <1>0, <1>3, <2>1
  <2>9. \A u \in Worker : drv'[u] = d
    BY <1>0, <2>1 DEF OneWorker
  <2>10. Sound(k, drv[w].ops, dest, applied[t])
    BY <2>3, <2>4, <2>5, <2>7 DEF Sound
  <2>11. SoundJournals'
    BY <1>0, <2>8, <2>10 DEF Atomic, SoundJournals
  <2>12. OneBusy'
    BY <2>6, <2>8 DEF OneBusy
  <2>13. Ready(d, k, drv[w].ops, dest, applied[t])
    BY <2>2, <2>6 DEF Ready, Truthful, Persisting
  <2>14. DriversReady'
    BY <1>0, <2>2, <2>8, <2>9, <2>13, InstanceAssumption DEF DriversReady
  <2> QED BY <2>11, <2>12, <2>14 DEF Atomic
<1> QED BY <1>2, <1>3 DEF Begin

\* A driver that stages or writes the manifest has a begun transaction.
LEMMA StagingKnows ==
    ASSUME Atomic, NEW w \in Worker,
           drv[w].pc \in {"mkStaging", "stage", "fill", "manifest", "fillManifest", "precheck"}
    PROVE  LET t == drv[w].tx
           IN  /\ t \in TxId /\ drv[w] \in Driver /\ jn[t] \in Journal
               /\ drv \in [Worker -> Driver] /\ jn \in [TxId -> Journal]
               /\ Sound(jn[t], ops[t], dest, applied[t])
               /\ Ready(drv[w], jn[t], ops[t], dest, applied[t])
               /\ jn[t].prog.phase = "begun" /\ ~jn[t].prog.bound /\ Busy(jn[t]) /\ jn[t].root
               /\ Len(ops[t]) \in 0 .. MaxOps /\ drv[w].idx \in 1 .. MaxOps + 1
               /\ ops[t] \in Seq(Operation)
<1> DEFINE t == drv[w].tx
<1>1. /\ t \in TxId /\ jn[t].prog.phase = "begun"
  BY SettledKnows DEF Settled, InPhase, Atomic
<1>2. /\ drv[w] \in Driver /\ jn[t] \in Journal /\ Sound(jn[t], ops[t], dest, applied[t])
      /\ Ready(drv[w], jn[t], ops[t], dest, applied[t]) /\ Len(ops[t]) \in 0 .. MaxOps
      /\ ops[t] \in Seq(Operation)
  BY <1>1, OwnAtomic
<1>3. jn[t].root
  <2>1. NoJournal.prog.phase = "missing"
    BY DEF NoJournal, NoProgress
  <2> QED BY <1>1, <1>2, <2>1 DEF Sound
<1>4. ~jn[t].prog.bound /\ Busy(jn[t])
  BY <1>1, <1>2, <1>3 DEF Sound, Busy, Terminal
<1>5. drv[w].idx \in 1 .. MaxOps + 1
  BY <1>2 DEF Driver
<1> QED BY <1>1, <1>2, <1>3, <1>4, <1>5, AtomicFacts

\* The begun transaction's staging, payloads or manifest change.
LEMMA BegunAtomic ==
    ASSUME Atomic, OneWorker, Custody', NEW w \in Worker,
           drv[w].pc \in {"mkStaging", "stage", "fill", "manifest", "fillManifest", "precheck"},
           NEW d, drv' = [drv EXCEPT ![w] = d], d.tx = drv[w].tx, d.pc # "begin",
           NEW k, jn' = [jn EXCEPT ![drv[w].tx] = k], k.root, k.prog = jn[drv[w].tx].prog,
           UNCHANGED <<dest, ops, applied>>,
           Ready(d, k, ops[drv[w].tx], dest, applied[drv[w].tx])
    PROVE  Atomic'
<1> DEFINE t == drv[w].tx
<1>1. /\ t \in TxId /\ Sound(jn[t], ops[t], dest, applied[t])
      /\ jn[t].prog.phase = "begun" /\ ~jn[t].prog.bound /\ Busy(jn[t])
  BY StagingKnows
<1>2. Sound(k, ops[t], dest, applied[t])
  BY <1>1, SoundSame
<1> QED BY <1>1, <1>2, JournalAtomic, InstanceAssumption

LEMMA MakeStagingAtomic ==
    ASSUME Atomic, OneWorker, Custody', NEW w \in Worker, MakeStaging(w)
    PROVE  Atomic'
<1> DEFINE t == drv[w].tx
           k == [jn[t] EXCEPT !.staging = TRUE]
           d == [drv[w] EXCEPT !.pc = "stage", !.sync = "root"]
<1>0. drv[w].pc = "mkStaging" /\ UNCHANGED <<dest, ops, applied>>
  BY DEF MakeStaging, At
<1>1. /\ drv[w] \in Driver /\ jn[t] \in Journal /\ t \in TxId /\ jn[t].root
      /\ drv \in [Worker -> Driver] /\ jn \in [TxId -> Journal]
      /\ Ready(drv[w], jn[t], ops[t], dest, applied[t])
  BY <1>0, StagingKnows
<1>2. CASE Fail(w, "raw") /\ jn' = jn
  BY <1>0, <1>2, AtomicFail
<1>3. CASE /\ jn' = [jn EXCEPT ![t].staging = TRUE]
           /\ drv' = [drv EXCEPT ![w].pc = "stage", ![w].sync = "root"]
  <2>1. drv' = [drv EXCEPT ![w] = d] /\ jn' = [jn EXCEPT ![t] = k]
    BY <1>1, <1>3
  <2>2. d.tx = t /\ d.pc = "stage" /\ d.idx = drv[w].idx
    BY <1>1 DEF Driver
  <2>3. k.root /\ k.prog = jn[t].prog
    BY <1>1 DEF Journal
  <2> HIDE DEF d, k
  <2>4. d.idx = 1
    BY <1>0, <1>1, <2>2 DEF Ready
  <2>5. Ready(d, k, ops[t], dest, applied[t])
    BY <2>2, <2>4 DEF Ready, Persisting
  <2> QED BY <1>0, <2>1, <2>2, <2>3, <2>5, BegunAtomic
<1> QED BY <1>2, <1>3 DEF MakeStaging, Mine

LEMMA StageAtomic ==
    ASSUME Atomic, OneWorker, Custody', NEW w \in Worker, Stage(w)
    PROVE  Atomic'
<1> DEFINE t == drv[w].tx
           i == drv[w].idx
           o == ops[t]
<1>0. drv[w].pc = "stage" /\ UNCHANGED <<dest, ops, applied>>
  BY DEF Stage, At
<1>1. /\ drv[w] \in Driver /\ jn[t] \in Journal /\ t \in TxId /\ jn[t].root
      /\ drv \in [Worker -> Driver] /\ jn \in [TxId -> Journal]
      /\ Ready(drv[w], jn[t], o, dest, applied[t])
      /\ Len(o) \in 0 .. MaxOps /\ i \in 1 .. MaxOps + 1
  BY <1>0, StagingKnows
<1>2. \A n \in 1 .. Len(o) : Staged(o[n]) /\ n < i => jn[t].pay[n] = "full"
  BY <1>0, <1>1 DEF Ready
<1>3. CASE Fail(w, "raw") /\ jn' = jn
  BY <1>0, <1>3, AtomicFail
<1>4. CASE i > Len(o) /\ Goto(w, "manifest") /\ jn' = jn
  <2> DEFINE d == [drv[w] EXCEPT !.pc = "manifest"]
  <2>1. drv' = [drv EXCEPT ![w] = d]
    BY <1>1, <1>4 DEF Goto
  <2>2. d.tx = t /\ d.pc = "manifest"
    BY <1>1 DEF Driver
  <2> HIDE DEF d
  <2>3. PayloadsComplete(o, jn[t].pay)
    BY <1>1, <1>2, <1>4, BoundAssumption DEF PayloadsComplete
  <2>4. Ready(d, jn[t], o, dest, applied[t])
    BY <2>2, <2>3 DEF Ready, Persisting
  <2> QED BY <1>0, <1>1, <1>4, <2>1, <2>2, <2>4, StillAtomic, InstanceAssumption
<1>5. CASE ~Staged(o[i]) /\ drv' = [drv EXCEPT ![w].idx = i + 1] /\ jn' = jn
  <2> DEFINE d == [drv[w] EXCEPT !.idx = i + 1]
  <2>1. drv' = [drv EXCEPT ![w] = d]
    BY <1>1, <1>5
  <2>2. d.tx = t /\ d.pc = "stage" /\ d.idx = i + 1
    BY <1>0, <1>1 DEF Driver
  <2> HIDE DEF d
  <2>3. \A n \in 1 .. Len(o) : Staged(o[n]) /\ n < i + 1 => jn[t].pay[n] = "full"
    BY <1>1, <1>2, <1>5, BoundAssumption
  <2>4. Ready(d, jn[t], o, dest, applied[t])
    BY <2>2, <2>3 DEF Ready, Persisting
  <2> QED BY <1>0, <1>1, <1>5, <2>1, <2>2, <2>4, StillAtomic, InstanceAssumption
<1>6. CASE i <= Len(o) /\ jn' = [jn EXCEPT ![t].pay[i] = "torn"] /\ Goto(w, "fill")
  <2> DEFINE d == [drv[w] EXCEPT !.pc = "fill"]
             k == [jn[t] EXCEPT !.pay[i] = "torn"]
  <2>1. drv' = [drv EXCEPT ![w] = d] /\ jn' = [jn EXCEPT ![t] = k]
    BY <1>1, <1>6 DEF Goto
  <2>2. d.tx = t /\ d.pc = "fill" /\ d.idx = i
    BY <1>1 DEF Driver
  <2>3. k.root /\ k.prog = jn[t].prog /\ k.pay = [jn[t].pay EXCEPT ![i] = "torn"]
    BY <1>1 DEF Journal
  <2>4. jn[t].pay \in [1 .. MaxOps -> FileState]
    BY <1>1 DEF Journal
  <2> HIDE DEF d, k
  <2>5. \A n \in 1 .. Len(o) : Staged(o[n]) /\ n < i => k.pay[n] = "full"
    BY <1>1, <1>2, <2>3, <2>4, BoundAssumption
  <2>6. Ready(d, k, o, dest, applied[t])
    BY <2>2, <2>5 DEF Ready, Persisting
  <2> QED BY <1>0, <2>1, <2>2, <2>3, <2>6, BegunAtomic
<1>7. \/ Fail(w, "raw") /\ jn' = jn
      \/ i > Len(o) /\ Goto(w, "manifest") /\ jn' = jn
      \/ ~Staged(o[i]) /\ drv' = [drv EXCEPT ![w].idx = i + 1] /\ jn' = jn
      \/ ~(i > Len(o)) /\ jn' = [jn EXCEPT ![t].pay[i] = "torn"] /\ Goto(w, "fill")
  BY DEF Stage, LastOp, Op
<1> QED BY <1>1, <1>3, <1>4, <1>5, <1>6, <1>7, BoundAssumption

LEMMA FillPayloadAtomic ==
    ASSUME Atomic, OneWorker, Custody', NEW w \in Worker, FillPayload(w)
    PROVE  Atomic'
<1> DEFINE t == drv[w].tx
           i == drv[w].idx
           o == ops[t]
           k == [jn[t] EXCEPT !.pay[i] = "full"]
           d == [drv[w] EXCEPT !.pc = "stage", !.idx = i + 1, !.sync = StagingSync]
<1>0. drv[w].pc = "fill" /\ UNCHANGED <<dest, ops, applied>>
  BY DEF FillPayload, At
<1>1. /\ drv[w] \in Driver /\ jn[t] \in Journal /\ t \in TxId /\ jn[t].root
      /\ drv \in [Worker -> Driver] /\ jn \in [TxId -> Journal]
      /\ Ready(drv[w], jn[t], o, dest, applied[t])
      /\ Len(o) \in 0 .. MaxOps /\ i \in 1 .. MaxOps + 1
  BY <1>0, StagingKnows
<1>2. \A n \in 1 .. Len(o) : Staged(o[n]) /\ n < i => jn[t].pay[n] = "full"
  BY <1>0, <1>1 DEF Ready
<1>3. CASE Fail(w, "state_corrupt") /\ jn' = jn
  BY <1>0, <1>3, AtomicFail
<1>4. CASE /\ jn' = [jn EXCEPT ![t].pay[i] = "full"]
           /\ drv' = [drv EXCEPT ![w].pc = "stage", ![w].idx = i + 1, ![w].sync = StagingSync]
  <2>1. drv' = [drv EXCEPT ![w] = d] /\ jn' = [jn EXCEPT ![t] = k]
    BY <1>1, <1>4
  <2>2. d.tx = t /\ d.pc = "stage" /\ d.idx = i + 1
    BY <1>1 DEF Driver
  <2>3. k.root /\ k.prog = jn[t].prog /\ k.pay = [jn[t].pay EXCEPT ![i] = "full"]
    BY <1>1 DEF Journal
  <2>4. jn[t].pay \in [1 .. MaxOps -> FileState]
    BY <1>1 DEF Journal
  <2> HIDE DEF d, k
  <2>5. \A n \in 1 .. Len(o) : Staged(o[n]) /\ n < i + 1 => k.pay[n] = "full"
    BY <1>1, <1>2, <2>3, <2>4, BoundAssumption
  <2>6. Ready(d, k, o, dest, applied[t])
    BY <2>2, <2>5 DEF Ready, Persisting
  <2> QED BY <1>0, <2>1, <2>2, <2>3, <2>6, BegunAtomic
<1> QED BY <1>3, <1>4 DEF FillPayload

LEMMA ManifestAtomic ==
    ASSUME Atomic, OneWorker, Custody', NEW w \in Worker, WriteManifest(w) \/ FillManifest(w)
    PROVE  Atomic'
<1> DEFINE t == drv[w].tx
           o == ops[t]
<1>0. drv[w].pc \in {"manifest", "fillManifest"} /\ UNCHANGED <<dest, ops, applied>>
  BY DEF WriteManifest, FillManifest, At
<1>1. /\ drv[w] \in Driver /\ jn[t] \in Journal /\ t \in TxId /\ jn[t].root
      /\ drv \in [Worker -> Driver] /\ jn \in [TxId -> Journal]
      /\ Ready(drv[w], jn[t], o, dest, applied[t])
  BY <1>0, StagingKnows
<1>2. ASSUME NEW f, NEW s, NEW pc, drv' = [drv EXCEPT ![w].pc = pc, ![w].sync = s],
             jn' = [jn EXCEPT ![t].man = f],
             \/ pc = "fillManifest" /\ f = "torn"
             \/ pc = "precheck" /\ f = "full"
      PROVE  Atomic'
  <2> DEFINE d == [drv[w] EXCEPT !.pc = pc, !.sync = s]
             k == [jn[t] EXCEPT !.man = f]
  <2>1. drv' = [drv EXCEPT ![w] = d] /\ jn' = [jn EXCEPT ![t] = k]
    BY <1>1, <1>2
  <2>2. d.tx = t /\ d.pc = pc
    BY <1>1 DEF Driver
  <2>3. k.root /\ k.prog = jn[t].prog /\ k.pay = jn[t].pay /\ k.man = f
    BY <1>1 DEF Journal
  <2> HIDE DEF d, k
  <2>4. PayloadsComplete(o, k.pay)
    BY <1>0, <1>1, <2>3 DEF Ready
  <2>5. Ready(d, k, o, dest, applied[t])
    BY <1>2, <2>2, <2>3, <2>4 DEF Ready, Persisting
  <2>6. d.pc # "begin"
    BY <1>2, <2>2
  <2> QED BY <1>0, <2>1, <2>2, <2>3, <2>5, <2>6, BegunAtomic
<1>3. CASE WriteManifest(w)
  <2>1. CASE jn' = [jn EXCEPT ![t].man = "torn"] /\ Goto(w, "fillManifest")
    <3>1. drv' = [drv EXCEPT ![w].pc = "fillManifest", ![w].sync = drv[w].sync]
      BY <1>1, <2>1 DEF Goto, Driver
    <3> QED BY <1>2, <2>1, <3>1
  <2>2. CASE Fail(w, "raw") /\ jn' = jn
    BY <1>0, <2>2, AtomicFail
  <2> QED BY <1>3, <2>1, <2>2 DEF WriteManifest
<1>4. CASE FillManifest(w)
  <2>1. jn[t].man = "torn"
    BY <1>1, <1>4 DEF FillManifest, At, Ready
  <2>2. jn' = [jn EXCEPT ![t].man = "full"]
    BY <1>4, <2>1 DEF FillManifest
  <2>3. drv' = [drv EXCEPT ![w].pc = "precheck", ![w].sync = "root"]
    BY <1>4 DEF FillManifest
  <2> QED BY <1>2, <2>2, <2>3
<1> QED BY <1>3, <1>4

-----------------------------------------------------------------------------
(* Authorisation, publication and recovery: steps that move only drivers.  *)

LEMMA AtomicPersist ==
    ASSUME Atomic, OneWorker, Custody', NEW w \in Worker, NEW prog, NEW back, back # "mkStaging",
           Persist(w, prog, back), drv[w].tx \in TxId, UNCHANGED <<dest, jn, ops, applied>>,
           Truthful(prog, jn[drv[w].tx], ops[drv[w].tx], dest, applied[drv[w].tx])
    PROVE  Atomic'
<1> DEFINE d == [drv[w] EXCEPT !.pc = "clear", !.mem = prog, !.back = back]
<1>0. drv \in [Worker -> Driver] /\ drv[w] \in Driver
  BY AtomicFacts
<1>1. drv' = [drv EXCEPT ![w] = d]
  BY <1>0 DEF Persist
<1>2. d.tx = drv[w].tx /\ d.pc = "clear" /\ d.mem = prog /\ d.back = back
  BY <1>0 DEF Driver
<1> HIDE DEF d
<1>3. Ready(d, jn[d.tx], ops[d.tx], dest, applied[d.tx])
  BY <1>2 DEF Ready, Persisting
<1> QED BY <1>1, <1>2, <1>3, StillAtomic, InstanceAssumption

\* A settled driver stands where its journal says.
LEMMA SettledAtomic ==
    ASSUME Atomic, NEW w \in Worker, drv[w].pc \in Settled
    PROVE  LET t == drv[w].tx
           IN  /\ t \in TxId /\ drv[w] \in Driver /\ jn[t] \in Journal
               /\ drv \in [Worker -> Driver] /\ jn \in [TxId -> Journal]
               /\ ops[t] \in Seq(Operation) /\ Len(ops[t]) \in 0 .. MaxOps /\ Len(ops[t]) \in Nat
               /\ ValidPlan(ops[t])
               /\ Sound(jn[t], ops[t], dest, applied[t])
               /\ Ready(drv[w], jn[t], ops[t], dest, applied[t])
               /\ drv[w].mem \in Progress /\ drv[w].mem.published \in Nat /\ jn[t].prog = drv[w].mem
               /\ InPhase(drv[w].pc, drv[w].mem.phase)
<1> DEFINE t == drv[w].tx
<1>1. /\ t \in TxId /\ drv[w].mem \in Progress /\ jn[t].prog = drv[w].mem
      /\ InPhase(drv[w].pc, drv[w].mem.phase)
  BY SettledKnows DEF Atomic
<1>2. /\ drv[w] \in Driver /\ jn[t] \in Journal
      /\ ops[t] \in Seq(Operation) /\ Len(ops[t]) \in 0 .. MaxOps /\ Len(ops[t]) \in Nat
      /\ Sound(jn[t], ops[t], dest, applied[t])
      /\ Ready(drv[w], jn[t], ops[t], dest, applied[t]) /\ ops[t] # <<>>
  BY <1>1, OwnAtomic
<1>3. drv[w].mem.published \in Nat
  BY <1>1, ProgressFacts, BoundAssumption
<1>4. ValidPlan(ops[t])
  BY <1>2 DEF Sound
<1> QED BY <1>1, <1>2, <1>3, <1>4, AtomicFacts

\* At these places a driver knows exactly how far the transaction got.
LEMMA PublishingKnows ==
    ASSUME Atomic, NEW w \in Worker, drv[w].pc \in {"publish", "apply", "recheck"}
    PROVE  LET t == drv[w].tx
               n == drv[w].mem.published
           IN  /\ n \in 0 .. Len(ops[t]) /\ Stands(jn[t], ops[t], dest, applied[t], n)
               /\ drv[w].idx = n + 1 /\ drv[w].mem.phase = "publishing"
<1> DEFINE t == drv[w].tx
           n == drv[w].mem.published
<1>1. drv[w].pc \in Settled
  BY DEF Settled
<1>2. /\ Len(ops[t]) \in Nat /\ n \in Nat
      /\ Sound(jn[t], ops[t], dest, applied[t])
      /\ Ready(drv[w], jn[t], ops[t], dest, applied[t])
      /\ jn[t].prog = drv[w].mem /\ drv[w].mem.phase = "publishing"
  BY <1>1, SettledAtomic DEF InPhase
<1>3. applied[t] = 1 .. n
  BY <1>2 DEF Ready
<1>4. PICK k \in 0 .. Len(ops[t]) : Stands(jn[t], ops[t], dest, applied[t], k)
  BY <1>2 DEF Sound
<1>5. k = n
  BY <1>2, <1>3, <1>4, Intervals DEF Stands
<1>6. drv[w].idx = n + 1
  BY OwnCustody DEF Atomic, DriverShape
<1> QED BY <1>2, <1>4, <1>5, <1>6

LEMMA PrepareAtomic ==
    ASSUME Atomic, OneWorker, Custody', NEW w \in Worker, Prepare(w)
    PROVE  Atomic'
<1> DEFINE t == drv[w].tx
           prog == [phase |-> "prepared", bound |-> TRUE, published |-> 0]
<1>0. drv[w].pc = "precheck" /\ UNCHANGED <<dest, jn, ops, applied>>
  BY DEF Prepare, At
<1>1. /\ t \in TxId /\ Sound(jn[t], ops[t], dest, applied[t]) /\ jn[t].prog.phase = "begun"
      /\ Ready(drv[w], jn[t], ops[t], dest, applied[t]) /\ Len(ops[t]) \in 0 .. MaxOps
  BY <1>0, StagingKnows
<1>2. CASE Fail(w, "revision_conflict")
  BY <1>0, <1>2, AtomicFail
<1>3. CASE ExpectedObserved(ops[t], dest) = 1 .. Len(ops[t]) /\ Persist(w, prog, "authorize")
  <2>1. Done(ops[t], dest, 0)
    BY <1>3 DEF ExpectedObserved, Done
  <2>2. PublishingPayloads(ops[t], jn[t].pay, 0) /\ jn[t].man = "full"
    BY <1>0, <1>1 DEF Ready, PayloadsComplete, PublishingPayloads
  <2>3. applied[t] = 1 .. 0
    BY <1>1 DEF Sound
  <2>4. prog.phase = "prepared" /\ prog.published = 0
    OBVIOUS
  <2> HIDE DEF prog
  <2>5. Truthful(prog, jn[t], ops[t], dest, applied[t])
    BY <2>1, <2>2, <2>3, <2>4 DEF Truthful, Stands
  <2> QED BY <1>0, <1>1, <1>3, <2>5, AtomicPersist
<1> QED BY <1>2, <1>3 DEF Prepare, LastOp

LEMMA AuthorizeAtomic ==
    ASSUME Atomic, OneWorker, Custody', NEW w \in Worker, Authorize(w)
    PROVE  Atomic'
<1> DEFINE t == drv[w].tx
           prog == [drv[w].mem EXCEPT !.phase = "publishing"]
           d == [drv[w] EXCEPT !.pc = "clear", !.idx = 1, !.back = "publish", !.mem = prog]
<1>0. drv[w].pc = "authorize" /\ UNCHANGED <<dest, jn, ops, applied>> /\ drv[w].pc \in Settled
  BY DEF Authorize, At, Settled
<1>1. /\ t \in TxId /\ Sound(jn[t], ops[t], dest, applied[t]) /\ jn[t].prog.phase = "prepared"
      /\ drv \in [Worker -> Driver] /\ drv[w] \in Driver /\ drv[w].mem \in Progress
      /\ jn[t].prog = drv[w].mem
  BY <1>0, SettledAtomic DEF InPhase
<1>2. CASE Fail(w, "revision_conflict")
  BY <1>0, <1>2, AtomicFail
<1>3. CASE drv' = [drv EXCEPT ![w].pc = "clear", ![w].idx = 1, ![w].back = "publish", ![w].mem = prog]
  <2>1. drv' = [drv EXCEPT ![w] = d]
    BY <1>1, <1>3
  <2>2. d.tx = t /\ d.pc = "clear" /\ d.back = "publish" /\ d.mem = prog
    BY <1>1 DEF Driver
  <2>3. prog.phase = "publishing" /\ prog.published = 0
    BY <1>1 DEF Progress, Sound
  <2>4. applied[t] = 1 .. 0
    BY <1>1 DEF Sound
  <2> HIDE DEF d, prog
  <2>5. Ready(d, jn[t], ops[t], dest, applied[t])
    BY <2>2, <2>3, <2>4 DEF Ready, Truthful, Persisting
  <2> QED BY <1>0, <1>1, <2>1, <2>2, <2>5, StillAtomic, InstanceAssumption
<1> QED BY <1>2, <1>3 DEF Authorize

LEMMA GoApplyAtomic ==
    ASSUME Atomic, OneWorker, Custody', NEW w \in Worker, drv[w].pc \in {"publish", "recheck"},
           Goto(w, "apply"), UNCHANGED <<dest, jn, ops, applied>>
    PROVE  Atomic'
<1> DEFINE t == drv[w].tx
           d == [drv[w] EXCEPT !.pc = "apply"]
<1>1. drv[w].pc \in Settled
  BY DEF Settled
<1>2. /\ t \in TxId /\ drv \in [Worker -> Driver] /\ drv[w] \in Driver
      /\ Ready(drv[w], jn[t], ops[t], dest, applied[t])
  BY <1>1, SettledAtomic
<1>3. drv' = [drv EXCEPT ![w] = d]
  BY <1>2 DEF Goto
<1>4. d.tx = t /\ d.pc = "apply" /\ d.mem = drv[w].mem
  BY <1>2 DEF Driver
<1> HIDE DEF d
<1>5. Ready(d, jn[t], ops[t], dest, applied[t])
  BY <1>2, <1>4 DEF Ready, Persisting
<1> QED BY <1>2, <1>3, <1>4, <1>5, StillAtomic, InstanceAssumption

LEMMA CheckPublishableAtomic ==
    ASSUME Atomic, OneWorker, Custody', NEW w \in Worker, CheckPublishable(w)
    PROVE  Atomic'
<1>1. drv[w].pc = "publish" /\ UNCHANGED <<dest, jn, ops, applied>>
  BY DEF CheckPublishable, At
<1>2. Goto(w, "apply") \/ \E why : Fail(w, why)
  BY DEF CheckPublishable
<1> QED BY <1>1, <1>2, GoApplyAtomic, AtomicFail

\* The next operation of the manifest has not happened: what recovery finds done
\* is what was applied.
LEMMA RecheckAtomic ==
    ASSUME Atomic, OneWorker, Custody', NEW w \in Worker, Recheck(w)
    PROVE  Atomic'
<1> DEFINE t == drv[w].tx
           n == drv[w].mem.published
<1>1. drv[w].pc = "recheck" /\ drv[w].pc \in Settled /\ UNCHANGED <<dest, jn, ops, applied>>
  BY DEF Recheck, At, Settled
<1>2. /\ n \in 0 .. Len(ops[t]) /\ Stands(jn[t], ops[t], dest, applied[t], n) /\ drv[w].idx = n + 1
  BY <1>1, PublishingKnows
<1>3. ValidPlan(ops[t]) /\ Len(ops[t]) \in Nat
  BY <1>1, SettledAtomic
<1>4. drv[w].idx <= Len(ops[t])
  BY <1>1, OwnCustody DEF Atomic, DriverShape
<1>5. n + 1 \in 1 .. Len(ops[t]) /\ dest[ops[t][n + 1].path] = ops[t][n + 1].expected
  BY <1>2, <1>3, <1>4 DEF Stands, Done
<1>6. dest[Op(w).path] # Op(w).result
  BY <1>2, <1>3, <1>5 DEF ValidPlan, ValidOperation, Op
<1>7. Goto(w, "apply") \/ \E why : Fail(w, why)
  BY <1>6 DEF Recheck
<1> QED BY <1>1, <1>7, GoApplyAtomic, AtomicFail

LEMMA VerifyAtomic ==
    ASSUME Atomic, OneWorker, Custody', NEW w \in Worker, Verify(w)
    PROVE  Atomic'
<1> DEFINE t == drv[w].tx
           prog == [drv[w].mem EXCEPT !.published = @ + 1]
           back == IF drv[w].mode = "exec" THEN "publish" ELSE "decide"
           d == [drv[w] EXCEPT !.pc = "clear", !.idx = drv[w].idx + 1, !.mem = prog, !.back = back]
<1>0. drv[w].pc = "verify" /\ drv[w].pc \in Settled /\ UNCHANGED <<dest, jn, ops, applied>>
  BY DEF Verify, At, Settled
<1>1. /\ t \in TxId /\ drv \in [Worker -> Driver] /\ drv[w] \in Driver
      /\ Ready(drv[w], jn[t], ops[t], dest, applied[t])
      /\ drv[w].mem \in Progress /\ drv[w].mem.phase = "publishing"
  BY <1>0, SettledAtomic DEF InPhase
<1>2. CASE Fail(w, "state_corrupt")
  BY <1>0, <1>2, AtomicFail
<1>3. CASE drv' = [drv EXCEPT ![w].pc = "clear", ![w].idx = drv[w].idx + 1, ![w].mem = prog,
                              ![w].back = back]
  <2>1. prog.phase = "publishing" /\ prog.published = drv[w].mem.published + 1
    BY <1>1 DEF Progress
  <2>2. back # "mkStaging"
    OBVIOUS
  <2> HIDE DEF prog, back
  <2>3. drv' = [drv EXCEPT ![w] = d]
    BY <1>1, <1>3
  <2>4. d.tx = t /\ d.pc = "clear" /\ d.back = back /\ d.mem = prog
    BY <1>1 DEF Driver
  <2> HIDE DEF d
  <2>5. applied[t] = 1 .. prog.published
    BY <1>0, <1>1, <2>1 DEF Ready
  <2>6. Ready(d, jn[t], ops[t], dest, applied[t])
    BY <2>1, <2>2, <2>4, <2>5 DEF Ready, Truthful, Persisting
  <2> QED BY <1>0, <1>1, <2>3, <2>4, <2>6, StillAtomic, InstanceAssumption
<1> QED BY <1>2, <1>3 DEF Verify

LEMMA CommitAtomic ==
    ASSUME Atomic, OneWorker, Custody', NEW w \in Worker, Commit(w)
    PROVE  Atomic'
<1> DEFINE t == drv[w].tx
           n == drv[w].mem.published
           prog == [drv[w].mem EXCEPT !.phase = "committed"]
<1>0. /\ drv[w].pc = "publish" /\ drv[w].pc \in Settled /\ UNCHANGED <<dest, jn, ops, applied>>
      /\ drv[w].idx > Len(ops[t])
  BY DEF Commit, At, Settled, LastOp
<1>1. t \in TxId /\ drv[w].mem \in Progress /\ Len(ops[t]) \in Nat
  BY <1>0, SettledAtomic
<1>2. n \in 0 .. Len(ops[t]) /\ Stands(jn[t], ops[t], dest, applied[t], n) /\ drv[w].idx = n + 1
  BY <1>0, PublishingKnows
<1>3. n = Len(ops[t])
  BY <1>0, <1>1, <1>2
<1>4. CASE Persist(w, prog, "cleanup")
  <2>1. prog.phase = "committed" /\ prog.published = n
    BY <1>1 DEF Progress
  <2> HIDE DEF prog
  <2>2. Truthful(prog, jn[t], ops[t], dest, applied[t])
    BY <1>2, <1>3, <2>1 DEF Truthful, Stands
  <2> QED BY <1>0, <1>1, <1>4, <2>2, AtomicPersist
<1>5. CASE \E why : Fail(w, why)
  BY <1>0, <1>5, AtomicFail
<1> QED BY <1>4, <1>5 DEF Commit

\* What recovery finds of a transaction that stands after k operations, and what
\* it does next: the record first, then the next operation, then the commit.
LEMMA RollsForward ==
    ASSUME NEW o \in Seq(Operation), ValidPlan(o), NEW k \in 0 .. Len(o), NEW dst, NEW pay,
           Done(o, dst, k), PublishingPayloads(o, pay, k),
           NEW prog, prog.phase = "publishing", prog.published \in {k, k - 1}, prog.published \in Nat
    PROVE  DecideRecovery(o, prog, dst, pay) =
             IF prog.published < k THEN Decision("record_published", prog.published + 1)
             ELSE IF k < Len(o) THEN Decision("publish", k + 1)
             ELSE Decision("commit", 0)
<1> DEFINE done == ResultsObserved(o, dst)
           m == CHOOSE n \in 0 .. Len(o) : done = 1 .. n
<1>0. Len(o) \in Nat
  OBVIOUS
<1>1. \A i \in 1 .. Len(o) : o[i].expected # o[i].result
  BY DEF ValidPlan, ValidOperation
<1>2. done = 1 .. k
  BY <1>0, <1>1 DEF Done, ResultsObserved
<1>3. done \cup ExpectedObserved(o, dst) = 1 .. Len(o)
  BY <1>0, <1>1, <1>2 DEF Done, ExpectedObserved
<1>4. m \in 0 .. Len(o) /\ done = 1 .. m
  BY <1>2
<1>5. m = k
  BY <1>0, <1>2, <1>4, Intervals
<1>6. ValidPublishedPrefix(o, prog)
  BY <1>0 DEF ValidPublishedPrefix
<1>7. ~(prog.published > k)
  BY <1>0
<1>8. DecideRecovery(o, prog, dst, pay) = DecidePublishing(o, prog, dst, pay)
  BY <1>6 DEF DecideRecovery
<1>9. ~\A n \in 0 .. Len(o) : done # 1 .. n
  BY <1>2
<1>10. DecidePublishing(o, prog, dst, pay) =
         IF \/ \A n \in 0 .. Len(o) : done # 1 .. n
            \/ done \cup ExpectedObserved(o, dst) # 1 .. Len(o)
            \/ prog.published > m
            \/ ~PublishingPayloads(o, pay, m)
         THEN Blocked
         ELSE IF prog.published < m THEN Decision("record_published", prog.published + 1)
         ELSE IF m < Len(o) THEN Decision("publish", m + 1)
         ELSE Decision("commit", 0)
  BY DEF DecidePublishing
<1> HIDE DEF m, done
<1> QED BY <1>3, <1>5, <1>7, <1>8, <1>9, <1>10

LEMMA DecideAtomic ==
    ASSUME Atomic, OneWorker, Custody', NEW w \in Worker, Decide(w)
    PROVE  Atomic'
<1> DEFINE t == drv[w].tx
           mem == drv[w].mem
           d == DecideRecovery(ops[t], mem, dest, jn[t].pay)
           Tidies == \E pc \in {"cleanup", "finish"}, back \in {"decide", "finish"} :
                        drv' = [drv EXCEPT ![w].pc = pc, ![w].back = back]
<1>0. drv[w].pc = "decide" /\ drv[w].pc \in Settled /\ UNCHANGED <<dest, jn, ops, applied>>
  BY DEF Decide, At, Settled
<1>1. /\ t \in TxId /\ drv \in [Worker -> Driver] /\ drv[w] \in Driver /\ mem \in Progress
      /\ jn[t].prog = mem /\ ops[t] \in Seq(Operation) /\ Len(ops[t]) \in Nat /\ ValidPlan(ops[t])
      /\ Sound(jn[t], ops[t], dest, applied[t]) /\ mem.published \in Nat
  BY <1>0, SettledAtomic
<1>2. /\ d.kind \in {"record_published", "publish", "commit"} => mem.phase = "publishing"
      /\ d.kind = "abort" => mem.phase \in {"begun", "prepared"}
  BY <1>1, DecisionFacts
<1>3. ASSUME mem.phase = "publishing"
      PROVE  \E k \in 0 .. Len(ops[t]) :
               /\ Stands(jn[t], ops[t], dest, applied[t], k) /\ mem.published \in {k, k - 1}
               /\ d = IF mem.published < k THEN Decision("record_published", mem.published + 1)
                      ELSE IF k < Len(ops[t]) THEN Decision("publish", k + 1)
                      ELSE Decision("commit", 0)
  <2>1. PICK k \in 0 .. Len(ops[t]) :
               Stands(jn[t], ops[t], dest, applied[t], k) /\ mem.published \in {k, k - 1}
    BY <1>1, <1>3 DEF Sound
  <2>2. d = IF mem.published < k THEN Decision("record_published", mem.published + 1)
            ELSE IF k < Len(ops[t]) THEN Decision("publish", k + 1)
            ELSE Decision("commit", 0)
    BY <1>1, <1>3, <2>1, RollsForward DEF Stands
  <2> HIDE DEF d
  <2> QED BY <2>1, <2>2
<1>4. \/ d.kind = "abort" /\ Persist(w, [mem EXCEPT !.phase = "aborted", !.published = 0], "decide")
      \/ d.kind = "record_published" /\ Persist(w, [mem EXCEPT !.published = d.op], "decide")
      \/ d.kind = "publish" /\ drv' = [drv EXCEPT ![w].pc = "recheck", ![w].idx = d.op]
      \/ d.kind = "commit" /\ Persist(w, [mem EXCEPT !.phase = "committed", !.published = LastOp(w)], "decide")
      \/ Tidies
      \/ Fail(w, "state_corrupt")
  BY DEF Decide
<1> HIDE DEF d
<1>5. CASE d.kind = "abort" /\ Persist(w, [mem EXCEPT !.phase = "aborted", !.published = 0], "decide")
  <2> DEFINE prog == [mem EXCEPT !.phase = "aborted", !.published = 0]
  <2>1. prog.phase = "aborted" /\ prog.published = 0 /\ prog.bound = mem.bound
    BY <1>1 DEF Progress
  <2> HIDE DEF prog
  <2>2. Truthful(prog, jn[t], ops[t], dest, applied[t])
    BY <1>1, <2>1 DEF Truthful
  <2> QED BY <1>0, <1>1, <1>5, <2>2, AtomicPersist DEF prog
<1>6. CASE d.kind = "record_published" /\ Persist(w, [mem EXCEPT !.published = d.op], "decide")
  <2> DEFINE prog == [mem EXCEPT !.published = d.op]
  <2>1. prog.phase = "publishing" /\ prog.published = d.op
    BY <1>1, <1>2, <1>6 DEF Progress
  <2>2. applied[t] = 1 .. d.op
    <3>1. PICK k \in 0 .. Len(ops[t]) :
               /\ Stands(jn[t], ops[t], dest, applied[t], k) /\ mem.published \in {k, k - 1}
               /\ d = IF mem.published < k THEN Decision("record_published", mem.published + 1)
                      ELSE IF k < Len(ops[t]) THEN Decision("publish", k + 1)
                      ELSE Decision("commit", 0)
      BY <1>2, <1>3, <1>6
    <3>2. d.op = k
      BY <1>1, <1>6, <3>1 DEF Decision
    <3> QED BY <3>1, <3>2 DEF Stands
  <2> HIDE DEF prog
  <2>3. Truthful(prog, jn[t], ops[t], dest, applied[t])
    BY <2>1, <2>2 DEF Truthful
  <2> QED BY <1>0, <1>1, <1>6, <2>3, AtomicPersist DEF prog
<1>7. CASE d.kind = "publish" /\ drv' = [drv EXCEPT ![w].pc = "recheck", ![w].idx = d.op]
  <2> DEFINE e == [drv[w] EXCEPT !.pc = "recheck", !.idx = d.op]
  <2>1. drv' = [drv EXCEPT ![w] = e]
    BY <1>1, <1>7
  <2>2. e.tx = t /\ e.pc = "recheck" /\ e.mem = mem
    BY <1>1 DEF Driver
  <2> HIDE DEF e
  <2>3. applied[t] = 1 .. mem.published
    <3>1. PICK k \in 0 .. Len(ops[t]) :
               /\ Stands(jn[t], ops[t], dest, applied[t], k) /\ mem.published \in {k, k - 1}
               /\ d = IF mem.published < k THEN Decision("record_published", mem.published + 1)
                      ELSE IF k < Len(ops[t]) THEN Decision("publish", k + 1)
                      ELSE Decision("commit", 0)
      BY <1>2, <1>3, <1>7
    <3>2. mem.published = k
      BY <1>1, <1>7, <3>1 DEF Decision
    <3> QED BY <3>1, <3>2 DEF Stands
  <2>4. Ready(e, jn[t], ops[t], dest, applied[t])
    BY <2>2, <2>3 DEF Ready, Persisting
  <2> QED BY <1>0, <1>1, <2>1, <2>2, <2>4, StillAtomic, InstanceAssumption
<1>8. CASE d.kind = "commit" /\ Persist(w, [mem EXCEPT !.phase = "committed", !.published = LastOp(w)], "decide")
  <2> DEFINE prog == [mem EXCEPT !.phase = "committed", !.published = LastOp(w)]
  <2>1. prog.phase = "committed" /\ prog.published = Len(ops[t])
    BY <1>1 DEF Progress, LastOp
  <2>2. applied[t] = 1 .. Len(ops[t])
    <3>1. PICK k \in 0 .. Len(ops[t]) :
               /\ Stands(jn[t], ops[t], dest, applied[t], k) /\ mem.published \in {k, k - 1}
               /\ d = IF mem.published < k THEN Decision("record_published", mem.published + 1)
                      ELSE IF k < Len(ops[t]) THEN Decision("publish", k + 1)
                      ELSE Decision("commit", 0)
      BY <1>2, <1>3, <1>8
    <3>2. k = Len(ops[t])
      BY <1>1, <1>8, <3>1 DEF Decision
    <3> QED BY <3>1, <3>2 DEF Stands
  <2> HIDE DEF prog
  <2>3. Truthful(prog, jn[t], ops[t], dest, applied[t])
    BY <2>1, <2>2 DEF Truthful
  <2> QED BY <1>0, <1>1, <1>8, <2>3, AtomicPersist DEF prog
<1>9. ASSUME NEW pc \in {"cleanup", "finish"}, NEW back \in {"decide", "finish"},
             drv' = [drv EXCEPT ![w].pc = pc, ![w].back = back]
      PROVE  Atomic'
  <2> DEFINE e == [drv[w] EXCEPT !.pc = pc, !.back = back]
  <2>1. drv' = [drv EXCEPT ![w] = e]
    BY <1>1, <1>9
  <2>2. e.tx = t /\ e.pc = pc /\ e.idx = drv[w].idx
    BY <1>1 DEF Driver
  <2> HIDE DEF e
  <2>3. e.pc \in Elsewhere /\ e.pc # "begin"
    BY <2>2 DEF Elsewhere
  <2> QED BY <1>0, <2>1, <2>2, <2>3, AtomicElsewhere
<1>10. CASE Fail(w, "state_corrupt")
  BY <1>0, <1>10, AtomicFail
<1> QED BY <1>4, <1>5, <1>6, <1>7, <1>8, <1>9, <1>10

LEMMA RecoverAtomic ==
    ASSUME Atomic, OneWorker, Custody', NEW w \in Worker, NEW t \in TxId, NEW token \in BOOLEAN,
           Recover(w, t, token)
    PROVE  Atomic'
<1> DEFINE d == RecoveryDriver(t, token)
           prog == jn[t].prog
           mem == [prog EXCEPT !.phase = "aborted", !.published = 0]
<1>0. UNCHANGED <<dest, jn, ops, applied>> /\ drv \in [Worker -> Driver]
  BY AtomicFacts DEF Recover
<1>1. CASE drv' = drv
  <2>1. drv' = [drv EXCEPT ![w] = drv[w]]
    BY <1>0, <1>1
  <2>2. /\ drv[w].tx \in TxId => Ready(drv[w], jn[drv[w].tx], ops[drv[w].tx], dest, applied[drv[w].tx])
        /\ drv[w].tx = NoTx => drv[w].idx = 1
        /\ drv[w].pc = "begin" => \A u \in TxId : ~Busy(jn[u])
    BY DEF Atomic, DriversReady
  <2> QED BY <1>0, <2>1, <2>2, StillAtomic
<1>2. CASE drv' = [drv EXCEPT ![w] = d]
  <2>1. prog \in Progress
    <3>1. jn[t] \in Journal /\ prog # NoProgress
      BY AtomicFacts DEF Recover, Marked
    <3> QED BY <3>1 DEF Journal
  <2>2. mem.phase = "aborted" /\ mem.published = 0 /\ mem.bound = prog.bound
    BY <2>1 DEF Progress
  <2> HIDE DEF prog, mem
  <2>3. d.tx = t /\ d.pc # "begin"
        /\ (d.pc \in {"decide", "cleanup"} \/ (d.pc = "clear" /\ d.mem = mem /\ d.back = "cleanup"))
    BY DEF RecoveryDriver, Idle, prog, mem
  <2> HIDE DEF d
  <2>4. Truthful(mem, jn[t], ops[t], dest, applied[t])
    BY <2>2 DEF Truthful, prog
  <2>5. Ready(d, jn[t], ops[t], dest, applied[t])
    <3>1. CASE d.pc \in {"decide", "cleanup"}
      BY <3>1, ElsewhereReady DEF Elsewhere
    <3>2. CASE d.pc = "clear" /\ d.mem = mem /\ d.back = "cleanup"
      BY <2>4, <3>2 DEF Ready, Persisting
    <3> QED BY <2>3, <3>1, <3>2
  <2> QED BY <1>0, <1>2, <2>3, <2>5, StillAtomic, InstanceAssumption
<1> QED BY <1>1, <1>2 DEF Recover

LEMMA ClassifyAtomic ==
    ASSUME Atomic, OneWorker, Custody', NEW w \in Worker, Classify(w) \/ CleanupUnmarked(w) \/ Finish(w)
    PROVE  Atomic'
<1>0. /\ UNCHANGED <<dest, jn, ops, applied>> /\ drv \in [Worker -> Driver] /\ drv[w] \in Driver
  BY AtomicFacts DEF Classify, CleanupUnmarked, Finish
<1>1. CASE drv' = [drv EXCEPT ![w] = Idle]
  BY <1>0, <1>1, AtomicIdle
<1>2. ASSUME NEW d, drv' = [drv EXCEPT ![w] = d], d.tx = drv[w].tx, d.idx = drv[w].idx,
             d.pc \in {"finish", "unNext", "unDir"}
      PROVE  Atomic'
  <2>1. d.pc \in Elsewhere /\ d.pc # "begin"
    BY <1>2 DEF Elsewhere
  <2> QED BY <1>0, <1>2, <2>1, AtomicElsewhere
<1>3. CASE Classify(w)
  <2> DEFINE d == [drv[w] EXCEPT !.pc = "finish", !.mem = Mine(w).prog, !.sync = "root"]
  <2>1. drv' = [drv EXCEPT ![w] = Idle] \/ drv' = [drv EXCEPT ![w] = d]
    BY <1>0, <1>3 DEF Classify, Return
  <2>2. d.tx = drv[w].tx /\ d.idx = drv[w].idx /\ d.pc = "finish"
    BY <1>0 DEF Driver
  <2> HIDE DEF d
  <2> QED BY <1>1, <1>2, <2>1, <2>2
<1>4. CASE CleanupUnmarked(w)
  <2> DEFINE pc == IF Mine(w).next # NoProgress THEN "unNext" ELSE "unDir"
             d == [drv[w] EXCEPT !.tgt = drv[w].tx, !.pc = pc]
  <2>1. drv' = [drv EXCEPT ![w] = d]
    BY <1>0, <1>4 DEF CleanupUnmarked
  <2>2. pc \in {"unNext", "unDir"}
    OBVIOUS
  <2> HIDE DEF pc
  <2>3. d.tx = drv[w].tx /\ d.idx = drv[w].idx /\ d.pc = pc
    BY <1>0 DEF Driver
  <2> HIDE DEF d
  <2> QED BY <1>2, <2>1, <2>2, <2>3
<1>5. CASE Finish(w)
  BY <1>1, <1>5 DEF Finish, Return
<1> QED BY <1>3, <1>4, <1>5

LEMMA SyncAtomic ==
    ASSUME Atomic, OneWorker, Custody', NEW w \in Worker, Sync(w)
    PROVE  Atomic'
<1> DEFINE sure == drv[w].sure \/ drv[w].pc = "publish"
           d == [drv[w] EXCEPT !.sync = "none", !.sure = sure]
<1>0. /\ UNCHANGED <<dest, jn, ops, applied>> /\ drv \in [Worker -> Driver] /\ drv[w] \in Driver
  BY AtomicFacts DEF Sync
<1>1. CASE Fail(w, "raw")
  BY <1>0, <1>1, AtomicFail
<1>2. CASE drv' = [drv EXCEPT ![w].sync = "none", ![w].sure = sure]
  <2>1. drv' = [drv EXCEPT ![w] = d]
    BY <1>0, <1>2
  <2>2. /\ d.tx = drv[w].tx /\ d.idx = drv[w].idx /\ d.pc = drv[w].pc /\ d.mem = drv[w].mem
        /\ d.back = drv[w].back
    BY <1>0 DEF Driver
  <2> HIDE DEF d
  <2>3. d.tx \in TxId => Ready(d, jn[d.tx], ops[d.tx], dest, applied[d.tx])
    BY <2>2, AtomicFacts DEF Ready
  <2>4. /\ d.tx = NoTx => d.idx = 1
        /\ d.pc = "begin" => \A u \in TxId : ~Busy(jn[u])
    BY <2>2 DEF Atomic, DriversReady
  <2> QED BY <1>0, <2>1, <2>3, <2>4, StillAtomic
<1> QED BY <1>1, <1>2 DEF Sync

-----------------------------------------------------------------------------
(* Clean-up and publication.                                               *)

LEMMA CleanupStepAtomic ==
    ASSUME Atomic, OneWorker, Custody', NEW w \in Worker, CleanupStep(w)
    PROVE  Atomic'
<1> DEFINE t == drv[w].tx
           j == jn[t]
           left == {i \in 1 .. MaxOps : j.pay[i] # "missing"}
           first == CHOOSE i \in left : \A k \in left : i <= k
<1>0. drv[w].pc = "cleanup" /\ drv[w].pc \in Settled /\ UNCHANGED <<dest, ops, applied>>
  BY DEF CleanupStep, At, Settled
<1>1. /\ t \in TxId /\ drv \in [Worker -> Driver] /\ drv[w] \in Driver /\ jn \in [TxId -> Journal]
      /\ j \in Journal /\ j.prog = drv[w].mem /\ Sound(j, ops[t], dest, applied[t])
      /\ Len(ops[t]) \in 0 .. MaxOps
  BY <1>0, SettledAtomic
<1>2. Terminal(j.prog.phase)
  BY <1>0, <1>1, OwnCustody DEF Atomic, DriverShape
<1>3. j.root
  <2>1. NoJournal.prog.phase = "missing"
    BY DEF NoJournal, NoProgress
  <2> QED BY <1>1, <1>2, <2>1 DEF Sound, Terminal
<1>4. ASSUME NEW k, jn' = [jn EXCEPT ![t] = k], drv' = drv, Sound(k, ops[t], dest, applied[t]),
             Busy(k) => Busy(j)
      PROVE  Atomic'
  <2>1. drv' = [drv EXCEPT ![w] = drv[w]] /\ drv[w].tx = t /\ drv[w].pc # "begin"
    BY <1>0, <1>1, <1>4
  <2>2. Ready(drv[w], k, ops[t], dest, applied[t])
    BY <1>0, ElsewhereReady DEF Elsewhere
  <2> QED BY <1>0, <1>1, <1>4, <2>1, <2>2, JournalAtomic, InstanceAssumption
<1>5. CASE left # {} /\ jn' = [jn EXCEPT ![t].pay[first] = "missing"] /\ drv' = drv
  <2> DEFINE k == [j EXCEPT !.pay[first] = "missing"]
  <2>1. jn' = [jn EXCEPT ![t] = k]
    BY <1>1, <1>5
  <2> HIDE DEF first
  <2>2. /\ k.root = j.root /\ k.prog = j.prog /\ k.man = j.man /\ k.staging = j.staging /\ k.next = j.next
        /\ k.pay = [j.pay EXCEPT ![first] = "missing"]
    BY <1>1 DEF Journal
  <2>3. j.pay \in [1 .. MaxOps -> FileState]
    BY <1>1 DEF Journal
  <2> HIDE DEF k
  <2>4. PayloadsKnown(ops[t], j.pay) => PayloadsKnown(ops[t], k.pay)
    BY <1>1, <2>2, <2>3 DEF PayloadsKnown
  <2>5. Busy(k) => Busy(j)
    BY <2>2 DEF Busy, HasCleanupEntries
  <2>6. Sound(k, ops[t], dest, applied[t])
    BY <1>1, <1>2, <1>3, <2>2, <2>4, <2>5, SoundSame
  <2> QED BY <1>4, <1>5, <2>1, <2>5, <2>6
<1>6. CASE jn' = [jn EXCEPT ![t].staging = FALSE] /\ drv' = drv
  <2> DEFINE k == [j EXCEPT !.staging = FALSE]
  <2>1. jn' = [jn EXCEPT ![t] = k]
    BY <1>1, <1>6
  <2>2. /\ k.root = j.root /\ k.prog = j.prog /\ k.man = j.man /\ k.staging = FALSE /\ k.next = j.next
        /\ k.pay = j.pay
    BY <1>1 DEF Journal
  <2> HIDE DEF k
  <2>3. Busy(k) => Busy(j)
    BY <2>2 DEF Busy, HasCleanupEntries
  <2>4. Sound(k, ops[t], dest, applied[t])
    BY <1>1, <1>2, <1>3, <2>2, <2>3, SoundSame
  <2> QED BY <1>4, <1>6, <2>1, <2>3, <2>4
<1>7. CASE jn' = [jn EXCEPT ![t].next = NoProgress] /\ drv' = drv
  <2> DEFINE k == [j EXCEPT !.next = NoProgress]
  <2>1. jn' = [jn EXCEPT ![t] = k]
    BY <1>1, <1>7
  <2>2. Sound(k, ops[t], dest, applied[t]) /\ (Busy(k) => Busy(j))
    BY <1>1, SoundWithoutNext
  <2> QED BY <1>4, <1>7, <2>1, <2>2
<1>8. CASE ~drv[w].mem.bound /\ jn' = [jn EXCEPT ![t].man = "missing"] /\ drv' = drv
  <2> DEFINE k == [j EXCEPT !.man = "missing"]
  <2>1. jn' = [jn EXCEPT ![t] = k]
    BY <1>1, <1>8
  <2>2. /\ k.root = j.root /\ k.prog = j.prog /\ k.man = "missing" /\ k.staging = j.staging
        /\ k.next = j.next /\ k.pay = j.pay
    BY <1>1 DEF Journal
  <2> HIDE DEF k
  <2>3. Busy(k) => Busy(j)
    BY <2>2 DEF Busy, HasCleanupEntries
  <2>4. Sound(k, ops[t], dest, applied[t])
    BY <1>1, <1>3, <1>8, <2>2, <2>3, SoundSame
  <2> QED BY <1>4, <1>8, <2>1, <2>3, <2>4
<1>9. ASSUME NEW pc \in {"decide", "finish"}, jn' = jn, drv' = [drv EXCEPT ![w].pc = pc, ![w].sync = "root"]
      PROVE  Atomic'
  <2> DEFINE d == [drv[w] EXCEPT !.pc = pc, !.sync = "root"]
  <2>1. drv' = [drv EXCEPT ![w] = d]
    BY <1>1, <1>9
  <2>2. d.tx = t /\ d.pc = pc /\ d.idx = drv[w].idx
    BY <1>1 DEF Driver
  <2> HIDE DEF d
  <2>3. d.pc \in Elsewhere /\ d.pc # "begin"
    BY <2>2 DEF Elsewhere
  <2> QED BY <1>0, <1>9, <2>1, <2>2, <2>3, AtomicElsewhere
<1>10. \/ left # {} /\ jn' = [jn EXCEPT ![t].pay[first] = "missing"] /\ drv' = drv
       \/ jn' = [jn EXCEPT ![t].staging = FALSE] /\ drv' = drv
       \/ jn' = [jn EXCEPT ![t].next = NoProgress] /\ drv' = drv
       \/ ~drv[w].mem.bound /\ jn' = [jn EXCEPT ![t].man = "missing"] /\ drv' = drv
       \/ jn' = jn /\ \E pc \in {"decide", "finish"} : drv' = [drv EXCEPT ![w].pc = pc, ![w].sync = "root"]
  BY DEF CleanupStep
<1> QED BY <1>5, <1>6, <1>7, <1>8, <1>9, <1>10

\* One more operation takes effect.
LEMMA StandsNext ==
    ASSUME NEW j, NEW k, NEW o \in Seq(Operation), ValidPlan(o), NEW dst \in [Path -> Fingerprint], NEW eff,
           NEW n \in Nat, n + 1 <= Len(o), Stands(j, o, dst, eff, n),
           j.pay \in [1 .. MaxOps -> FileState], k.pay = [j.pay EXCEPT ![n + 1] = "missing"]
    PROVE  Stands(k, o, [dst EXCEPT ![o[n + 1].path] = o[n + 1].result], eff \cup {n + 1}, n + 1)
<1> DEFINE new == [dst EXCEPT ![o[n + 1].path] = o[n + 1].result]
<1>0. Len(o) \in 1 .. MaxOps /\ n + 1 \in 1 .. Len(o) /\ MaxOps \in Nat
  BY BoundAssumption DEF ValidPlan
<1>1. eff \cup {n + 1} = 1 .. n + 1
  BY DEF Stands
<1>2. ASSUME NEW i \in 1 .. Len(o)
      PROVE  new[o[i].path] = (IF i <= n + 1 THEN o[i].result ELSE o[i].expected)
  <2>0. o[i].path \in Path /\ o[n + 1].path \in Path
    <3>1. o[i] \in Operation /\ o[n + 1] \in Operation
      BY <1>0, <1>2
    <3> QED BY <3>1 DEF Operation
  <2>1. CASE i = n + 1
    BY <2>0, <2>1
  <2>2. CASE i # n + 1
    <3>1. o[i].path # o[n + 1].path
      BY <1>0, <1>2, <2>2 DEF ValidPlan, ValidRelationships
    <3>2. new[o[i].path] = dst[o[i].path]
      BY <2>0, <3>1
    <3>3. (i <= n) <=> (i <= n + 1)
      BY <1>0, <1>2, <2>2
    <3> QED BY <1>2, <3>2, <3>3 DEF Stands, Done
  <2> QED BY <2>1, <2>2
<1>3. PublishingPayloads(o, k.pay, n + 1)
  <2>1. ASSUME NEW i \in 1 .. Len(o), Staged(o[i])
        PROVE  k.pay[i] = (IF i <= n + 1 THEN "missing" ELSE "full")
    <3>1. i \in 1 .. MaxOps
      BY <1>0
    <3>2. CASE i = n + 1
      <4>1. n + 1 \in DOMAIN j.pay
        BY <3>1, <3>2
      <4>2. k.pay[n + 1] = "missing"
        BY <4>1
      <4> QED BY <3>2, <4>2
    <3>3. CASE i # n + 1
      <4>1. (i <= n) <=> (i <= n + 1)
        BY <1>0, <3>3
      <4>2. k.pay[i] = j.pay[i]
        BY <3>1, <3>3
      <4> QED BY <2>1, <4>1, <4>2 DEF Stands, PublishingPayloads
    <3> QED BY <3>2, <3>3
  <2> QED BY <2>1 DEF PublishingPayloads
<1> QED BY <1>1, <1>2, <1>3 DEF Stands, Done

\* What the publication by another transaction leaves of a journal's soundness:
\* everything, unless it is under way itself.
LEMMA SoundApart ==
    ASSUME NEW j, NEW o, NEW dst, NEW new, NEW eff, Sound(j, o, dst, eff), ~Busy(j)
    PROVE  Sound(j, o, new, eff)
<1>1. j.prog.phase \notin {"prepared", "publishing"}
  <2>1. NoJournal.prog.phase = "missing"
    BY DEF NoJournal, NoProgress
  <2> QED BY <2>1 DEF Sound, Busy, Terminal
<1> QED BY <1>1 DEF Sound

LEMMA ApplyAtomic ==
    ASSUME Atomic, OneWorker, Custody', NEW w \in Worker, Apply(w)
    PROVE  Atomic'
<1> DEFINE t == drv[w].tx
           i == drv[w].idx
           o == ops[t]
           n == drv[w].mem.published
           k == [jn[t] EXCEPT !.pay[i] = "missing"]
           d == [drv[w] EXCEPT !.pc = "verify", !.sync = PublishSync]
<1>0. drv[w].pc = "apply" /\ drv[w].pc \in Settled /\ ops' = ops
  BY DEF Apply, At, Settled
<1>1. /\ t \in TxId /\ drv \in [Worker -> Driver] /\ drv[w] \in Driver /\ jn \in [TxId -> Journal]
      /\ jn[t] \in Journal /\ jn[t].prog = drv[w].mem /\ Sound(jn[t], o, dest, applied[t])
      /\ o \in Seq(Operation) /\ Len(o) \in Nat /\ ValidPlan(o) /\ n \in Nat
  BY <1>0, SettledAtomic
<1>2. /\ n \in 0 .. Len(o) /\ Stands(jn[t], o, dest, applied[t], n) /\ i = n + 1
      /\ drv[w].mem.phase = "publishing"
  BY <1>0, PublishingKnows
<1>3. i <= Len(o)
  BY <1>0, OwnCustody DEF Atomic, DriverShape
<1>4. CASE Fail(w, "raw") /\ UNCHANGED <<dest, jn, applied>>
  BY <1>0, <1>4, AtomicFail
<1>5. CASE /\ dest' = [dest EXCEPT ![Op(w).path] = Op(w).result]
           /\ jn' = [jn EXCEPT ![t].pay[i] = "missing"]
           /\ applied' = [applied EXCEPT ![t] = @ \cup {i}]
           /\ drv' = [drv EXCEPT ![w].pc = "verify", ![w].sync = PublishSync]
  <2> DEFINE new == [dest EXCEPT ![o[n + 1].path] = o[n + 1].result]
  <2>1. drv' = [drv EXCEPT ![w] = d] /\ jn' = [jn EXCEPT ![t] = k]
    BY <1>1, <1>5
  <2>2. d.tx = t /\ d.pc = "verify" /\ d.mem = drv[w].mem
    BY <1>1 DEF Driver
  <2>3. /\ k.root = jn[t].root /\ k.prog = jn[t].prog /\ k.man = jn[t].man
        /\ k.staging = jn[t].staging /\ k.next = jn[t].next
        /\ k.pay = [jn[t].pay EXCEPT ![n + 1] = "missing"] /\ jn[t].pay \in [1 .. MaxOps -> FileState]
    BY <1>1, <1>2 DEF Journal
  <2>4. dest' = new /\ applied \in [TxId -> SUBSET (1 .. MaxOps)] /\ dest \in [Path -> Fingerprint]
    BY <1>2, <1>5, AtomicFacts DEF Op
  <2>5. /\ \A u \in TxId : jn'[u] = (IF u = t THEN k ELSE jn[u])
        /\ \A u \in TxId : applied'[u] = (IF u = t THEN applied[t] \cup {n + 1} ELSE applied[u])
    BY <1>1, <1>2, <1>5, <2>1, <2>4
  <2>6. \A u \in Worker : drv'[u] = d
    BY <1>1, <2>1 DEF OneWorker
  <2> HIDE DEF d, k, new
  <2>7. Stands(k, o, new, applied[t] \cup {n + 1}, n + 1)
    <3> HIDE DEF o, n
    <3>1. n + 1 <= Len(o)
      BY <1>2, <1>3
    <3>2. Stands(k, o, [dest EXCEPT ![o[n + 1].path] = o[n + 1].result], applied[t] \cup {n + 1}, n + 1)
      BY <1>1, <1>2, <2>3, <2>4, <3>1, StandsNext
    <3> QED BY <3>2 DEF new
  <2>8. jn[t].root /\ Busy(jn[t]) /\ Busy(k)
    <3>1. NoJournal.prog.phase = "missing"
      BY DEF NoJournal, NoProgress
    <3> QED BY <1>1, <1>2, <2>3, <3>1 DEF Sound, Busy, Terminal
  <2>9. Sound(k, o, new, applied[t] \cup {n + 1})
    <3>1. PayloadsKnown(o, k.pay)
      BY <2>7 DEF Stands, PublishingPayloads, PayloadsKnown
    <3>2. /\ k.root /\ k.prog.phase = "publishing" /\ ValidPlan(o)
          /\ k.prog.bound => k.man = "full"
      BY <1>1, <1>2, <2>3, <2>8 DEF Sound
    <3> DEFINE next == n + 1
    <3>3. Stands(k, o, new, applied[t] \cup {n + 1}, next)
      BY <2>7
    <3>4. next \in 0 .. Len(o) /\ k.prog.published \in {next, next - 1}
      <4>1. k.prog.published = n
        BY <1>1, <2>3
      <4> HIDE DEF o, n
      <4>2. next <= Len(o) /\ next \in Nat
        BY <1>1, <1>2, <1>3
      <4>3. next - 1 = n
        BY <1>1
      <4> HIDE DEF next
      <4> QED BY <1>1, <4>1, <4>2, <4>3
    <3> HIDE DEF o, n, next
    <3> QED BY <3>1, <3>2, <3>3, <3>4 DEF Sound
  <2>10. ASSUME NEW u \in TxId, u # t PROVE Sound(jn[u], ops[u], new, applied[u]) /\ ~Busy(jn[u])
    <3>1. ~Busy(jn[u])
      BY <1>1, <2>8, <2>10 DEF Atomic, OneBusy
    <3> QED BY <3>1, AtomicFacts, SoundApart
  <2>11. SoundJournals'
    BY <1>0, <2>4, <2>5, <2>9, <2>10 DEF SoundJournals
  <2>12. OneBusy'
    BY <2>5, <2>10 DEF OneBusy
  <2>13. Ready(d, k, o, new, applied[t] \cup {n + 1})
    BY <2>2, <2>7 DEF Ready, Persisting, Stands
  <2>14. DriversReady'
    BY <1>0, <1>1, <2>2, <2>4, <2>5, <2>6, <2>13, InstanceAssumption DEF DriversReady
  <2> QED BY <2>11, <2>12, <2>14 DEF Atomic
<1> QED BY <1>4, <1>5 DEF Apply

-----------------------------------------------------------------------------
(* The environment, and the invariant.                                     *)

LEMMA EnvironmentAtomic ==
    ASSUME Atomic, OneWorker, Custody', Environment, MaxPower = 0, MaxEdits = 0
    PROVE  Atomic'
<1>0. budget.power = 0 /\ budget.edits = 0
  BY DEF Atomic, Custody, Shape, Files
<1>1. ~PowerLoss /\ \A p \in Path, c \in Content \cup {Missing} : ~Edit(p, c)
  BY <1>0 DEF PowerLoss, Edit
<1>2. PICK w \in Worker : Crash(w) \/ Fault(w)
  BY <1>1 DEF Environment
<1>3. UNCHANGED <<dest, jn, ops, applied>>
  BY <1>2 DEF Crash, Fault
<1>4. CASE drv' = [drv EXCEPT ![w] = Idle]
  BY <1>3, <1>4, AtomicIdle
<1>5. CASE Fail(w, "raw")
  BY <1>3, <1>5, AtomicFail
<1>6. drv' = [drv EXCEPT ![w] = Idle] \/ Fail(w, "raw")
  BY <1>2 DEF Crash, Fault, Return
<1> QED BY <1>4, <1>5, <1>6

LEMMA InitAtomic == Init => Atomic
<1> SUFFICES ASSUME Init PROVE Atomic
  OBVIOUS
<1>1. Custody
  BY InitCustody
<1>2. /\ ~NoJournal.root /\ NoJournal.prog.phase = "missing" /\ ~NoJournal.prog.bound
      /\ NoJournal.prog.published = 0
  BY DEF NoJournal, NoProgress
<1>3. \A t \in TxId : jn[t] = NoJournal /\ ops[t] = <<>> /\ applied[t] = {}
  BY DEF Init
<1>4. SoundJournals
  <2>1. \A dst : Sound(NoJournal, <<>>, dst, {})
    BY <1>2 DEF Sound
  <2> QED BY <1>3, <2>1 DEF SoundJournals
<1>5. OneBusy
  BY <1>2, <1>3 DEF OneBusy, Busy
<1>6. \A w \in Worker : drv[w].tx = NoTx /\ drv[w].idx = 1 /\ drv[w].pc = "idle"
  BY DEF Init, Idle
<1>7. DriversReady
  BY <1>6, InstanceAssumption DEF DriversReady
<1> QED BY <1>1, <1>4, <1>5, <1>7 DEF Atomic

LEMMA StepAtomic ==
    ASSUME Atomic, OneWorker, Custody', NEW w \in Worker, Step(w)
    PROVE  Atomic'
<1>1. CASE Sync(w)
  BY <1>1, SyncAtomic
<1>2. CASE Preflight(w)
  BY <1>2, ReconcileAtomic, UnmarkAtomic, InspectAtomic, ObserveAtomic DEF Preflight
<1>3. CASE PersistProgress(w)
  BY <1>3, ClearNextAtomic, WriteNextAtomic, RenameNextAtomic DEF PersistProgress
<1>4. CASE DriveExecution(w)
  BY <1>4, BeginAtomic, MakeStagingAtomic, StageAtomic, FillPayloadAtomic, ManifestAtomic,
     PrepareAtomic, AuthorizeAtomic, CheckPublishableAtomic, CommitAtomic DEF DriveExecution
<1>5. CASE Publish(w)
  BY <1>5, ApplyAtomic, VerifyAtomic DEF Publish
<1>6. CASE DriveRecovery(w)
  BY <1>6, DecideAtomic, RecheckAtomic DEF DriveRecovery
<1>7. CASE Conclude(w)
  BY <1>7, CleanupStepAtomic, ClassifyAtomic DEF Conclude
<1> QED BY <1>1, <1>2, <1>3, <1>4, <1>5, <1>6, <1>7 DEF Step

LEMMA NextAtomic ==
    ASSUME ~RecoverLive, OneWorker, MaxPower = 0, MaxEdits = 0, Atomic, [Next]_vars
    PROVE  Atomic'
<1>1. Custody'
  BY NextCustody DEF Atomic
<1>2. CASE UNCHANGED vars
  <2>1. UNCHANGED <<dest, jn, ops, applied, drv>>
    BY <1>2 DEF vars
  <2>2. SoundJournals' /\ OneBusy' /\ DriversReady'
    BY <2>1 DEF Atomic, SoundJournals, OneBusy, DriversReady
  <2> QED BY <1>1, <2>2 DEF Atomic
<1>3. ASSUME NEW w \in Worker, Step(w) PROVE Atomic'
  BY <1>1, <1>3, StepAtomic
<1>4. ASSUME NEW w \in Worker, Call(w) PROVE Atomic'
  BY <1>1, <1>4, SubmitAtomic, RecoverAtomic DEF Call
<1>5. CASE Environment
  BY <1>1, <1>5, EnvironmentAtomic
<1> QED BY <1>2, <1>3, <1>4, <1>5 DEF Next

-----------------------------------------------------------------------------
(* Recovery never blocks on what a lost driver left.                       *)

LEMMA RecoveryDecides ==
    ASSUME NEW j \in Journal, NEW o \in Seq(Operation), ValidPlan(o), NEW dst, NEW eff,
           Sound(j, o, dst, eff), Incomplete(j), j.prog.bound
    PROVE  DecideRecovery(o, j.prog, dst, j.pay).kind # "blocked"
<1>0. Len(o) \in Nat /\ MaxOps \in Nat
  BY BoundAssumption
<1>1. j.root /\ Busy(j)
  <2>1. NoJournal.prog = NoProgress
    BY DEF NoJournal
  <2> QED BY <2>1 DEF Sound, Incomplete, Marked, Busy
<1>2. j.prog \in Progress /\ j.prog.published \in Nat /\ j.prog.phase \in Phase
  <2>1. j.prog \in Progress
    BY DEF Journal, Incomplete, Marked
  <2> QED BY <2>1, ProgressFacts, BoundAssumption
<1>3. PayloadsKnown(o, j.pay) /\ j.prog.phase # "begun"
  BY DEF Sound
<1>4. DecideTerminal(o, j.pay).kind # "blocked"
  BY <1>3 DEF DecideTerminal, Decision
<1>5. CASE j.prog.phase = "prepared"
  <2>1. Done(o, dst, 0) /\ PublishingPayloads(o, j.pay, 0) /\ j.prog.published = 0
    BY <1>5 DEF Sound, Stands
  <2>2. ExpectedObserved(o, dst) = 1 .. Len(o)
    BY <1>0, <2>1 DEF Done, ExpectedObserved
  <2>3. PayloadsComplete(o, j.pay)
    BY <1>0, <2>1 DEF PublishingPayloads, PayloadsComplete
  <2>4. DecideRecovery(o, j.prog, dst, j.pay) = DecidePrepublication(o, j.prog, dst, j.pay)
    BY <1>5, <2>1 DEF DecideRecovery, ValidPublishedPrefix
  <2> QED BY <1>5, <2>2, <2>3, <2>4 DEF DecidePrepublication, Decision
<1>6. CASE j.prog.phase = "publishing"
  <2>1. PICK k \in 0 .. Len(o) : Stands(j, o, dst, eff, k) /\ j.prog.published \in {k, k - 1}
    BY <1>6 DEF Sound
  <2> QED BY <1>2, <1>6, <2>1, RollsForward DEF Stands, Decision
<1>7. CASE j.prog.phase = "committed"
  <2>1. Done(o, dst, Len(o)) /\ j.prog.published = Len(o)
    BY <1>1, <1>7 DEF Sound
  <2>2. ResultsObserved(o, dst) = 1 .. Len(o)
    BY <1>0, <2>1 DEF Done, ResultsObserved
  <2>3. DecideRecovery(o, j.prog, dst, j.pay) = DecideTerminal(o, j.pay)
    BY <1>7, <2>1, <2>2 DEF DecideRecovery, ValidPublishedPrefix
  <2> QED BY <1>4, <2>3
<1>8. CASE j.prog.phase = "aborted"
  <2>1. j.prog.published = 0
    BY <1>8 DEF Sound
  <2>2. DecideRecovery(o, j.prog, dst, j.pay) = DecideTerminal(o, j.pay)
    BY <1>8, <2>1 DEF DecideRecovery, ValidPublishedPrefix
  <2> QED BY <1>4, <2>2
<1> QED BY <1>2, <1>3, <1>5, <1>6, <1>7, <1>8 DEF Phase

LEMMA AtomicRecoverable == Atomic => AlwaysRecoverable
<1> SUFFICES ASSUME Atomic, NEW t \in TxId, Incomplete(jn[t])
             PROVE  /\ ~CorruptJournal(jn[t])
                    /\ jn[t].prog.bound => DecideRecovery(ops[t], jn[t].prog, dest, jn[t].pay).kind # "blocked"
  BY DEF AlwaysRecoverable
<1>1. jn[t] \in Journal /\ ops[t] \in Seq(Operation) /\ Sound(jn[t], ops[t], dest, applied[t])
  BY AtomicFacts DEF Manifest
<1>2. ops[t] # <<>>
  <2>1. NoJournal.prog = NoProgress
    BY DEF NoJournal
  <2> QED BY <2>1 DEF Atomic, Custody, UnusedIsBlank, Incomplete, Marked
<1>3. ValidPlan(ops[t])
  BY <1>1, <1>2 DEF Sound
<1>4. ~CorruptJournal(jn[t])
  BY <1>1 DEF Sound, CorruptJournal, Incomplete
<1> QED BY <1>1, <1>3, <1>4, RecoveryDecides

\* Whatever call a process dies at or a fault strikes, the transaction it leaves
\* behind is not corrupt, and recovery aborts it, rolls it forward or tidies it
\* up: decideRecovery never blocks.  One process at a time, nobody edits the
\* destinations and the machine stays up: an edit or a rename that the disk lost
\* is what "blocked" is for.
THEOREM NeverBlocked ==
    ASSUME ~RecoverLive, OneWorker, MaxPower = 0, MaxEdits = 0
    PROVE  Spec => []AlwaysRecoverable
<1>1. Init => Atomic
  BY InitAtomic
<1>2. Atomic /\ [Next]_vars => Atomic'
  BY NextAtomic
<1>3. Atomic => AlwaysRecoverable
  BY AtomicRecoverable
<1> QED BY <1>1, <1>2, <1>3, PTL DEF Spec

LEMMA AtomicTrails == Atomic => ProgressTrailsEffects
<1> SUFFICES ASSUME Atomic, NEW t \in TxId, Marked(jn[t])
             PROVE  \/ applied[t] = 1 .. jn[t].prog.published
                    \/ jn[t].prog.phase = "publishing" /\ applied[t] = 1 .. jn[t].prog.published + 1
  BY DEF ProgressTrailsEffects
<1>1. jn[t] \in Journal /\ ops[t] \in Seq(Operation) /\ Sound(jn[t], ops[t], dest, applied[t])
  BY AtomicFacts DEF Manifest
<1>2. jn[t].prog.phase \in Phase
  BY <1>1 DEF Journal, Marked, Progress
<1>3. CASE jn[t].prog.phase = "publishing"
  <2>1. PICK k \in 0 .. Len(ops[t]) : applied[t] = 1 .. k /\ jn[t].prog.published \in {k, k - 1}
    BY <1>1, <1>3 DEF Sound, Stands
  <2>2. k - 1 + 1 = k
    BY <1>1, <2>1
  <2> QED BY <1>3, <2>1, <2>2
<1>4. CASE jn[t].prog.phase = "committed"
  BY <1>1, <1>4 DEF Sound
<1>5. CASE jn[t].prog.phase \in {"begun", "prepared", "aborted"}
  <2>1. applied[t] = {} /\ jn[t].prog.published = 0
    BY <1>1, <1>5 DEF Sound
  <2> QED BY <2>1
<1> QED BY <1>2, <1>3, <1>4, <1>5 DEF Phase

-----------------------------------------------------------------------------
(* The refinement of AtomicCommit.                                         *)

\* Owed and Store of explicit journals, manifests, effects and destinations.
OwedIn(J, O, E, p) ==
    {r \in TxId \X (1 .. MaxOps) :
        /\ J[r[1]].prog.phase = "publishing"
        /\ r[2] \in DOMAIN O[r[1]] \ E[r[1]]
        /\ O[r[1]][r[2]].path = p}

StoreIn(J, O, E, D) ==
    [p \in Path |->
        IF OwedIn(J, O, E, p) = {} THEN D[p]
        ELSE LET r == CHOOSE r \in OwedIn(J, O, E, p) : TRUE IN O[r[1]][r[2]].result]

\* The destinations D with all operations of o done.
Published(o, D) ==
    [p \in Path |->
        LET here == {i \in 1 .. Len(o) : o[i].path = p}
        IN  IF here = {} THEN D[p] ELSE o[CHOOSE i \in here : TRUE].result]

LEMMA StoreIsStoreIn ==
    /\ Store = StoreIn(jn, ops, applied, dest)
    /\ Store' = StoreIn(jn', ops', applied', dest')
BY DEF Store, Owed, StoreIn, OwedIn

\* Nobody publishes: nothing is owed.
LEMMA StoreQuiet ==
    ASSUME NEW J, NEW O, NEW E, NEW D \in [Path -> Fingerprint],
           \A u \in TxId : J[u].prog.phase # "publishing"
    PROVE  StoreIn(J, O, E, D) = D
<1>1. \A p \in Path : OwedIn(J, O, E, p) = {}
  BY DEF OwedIn
<1>2. \A p \in Path : StoreIn(J, O, E, D)[p] = D[p]
  BY <1>1 DEF StoreIn
<1>3. StoreIn(J, O, E, D) = [p \in Path |-> StoreIn(J, O, E, D)[p]]
  BY DEF StoreIn
<1>4. D = [p \in Path |-> D[p]]
  OBVIOUS
<1> QED BY <1>2, <1>3, <1>4

\* Only the transaction t publishes: what it owes counts as done.
LEMMA StorePublishing ==
    ASSUME NEW J, NEW O, NEW E, NEW D, NEW t \in TxId, J[t].prog.phase = "publishing",
           \A u \in TxId : J[u].prog.phase = "publishing" => u = t,
           ValidPlan(O[t]), NEW k \in Nat, E[t] = 1 .. k, Done(O[t], D, k)
    PROVE  StoreIn(J, O, E, D) = Published(O[t], D)
<1> DEFINE o == O[t]
<1>0. /\ o \in Seq(Operation) /\ Len(o) \in 1 .. MaxOps /\ MaxOps \in Nat /\ DOMAIN o = 1 .. Len(o)
      /\ \A i, j \in 1 .. Len(o) : o[i].path = o[j].path => i = j
  <2>1. o \in Seq(Operation) /\ Len(o) \in 1 .. MaxOps /\ MaxOps \in Nat /\ DOMAIN o = 1 .. Len(o)
    BY BoundAssumption DEF ValidPlan
  <2>2. ASSUME NEW i \in 1 .. Len(o), NEW j \in 1 .. Len(o), o[i].path = o[j].path PROVE i = j
    <3>1. ~(i < j) /\ ~(j < i)
      BY <2>2 DEF ValidPlan, ValidRelationships
    <3> QED BY <2>1, <3>1
  <2> QED BY <2>1, <2>2
<1> HIDE DEF o
<1>1. ASSUME NEW p \in Path PROVE StoreIn(J, O, E, D)[p] = Published(o, D)[p]
  <2> DEFINE here == {i \in 1 .. Len(o) : o[i].path = p}
             owed == OwedIn(J, O, E, p)
  <2>1. owed = {<<t, i>> : i \in here \ (1 .. k)}
    BY <1>0 DEF OwedIn, o
  <2>2. StoreIn(J, O, E, D)[p] = IF owed = {} THEN D[p] ELSE LET r == CHOOSE r \in owed : TRUE IN O[r[1]][r[2]].result
    BY DEF StoreIn
  <2>3. Published(o, D)[p] = IF here = {} THEN D[p] ELSE o[CHOOSE i \in here : TRUE].result
    BY DEF Published
  <2> HIDE DEF owed
  <2>4. CASE here = {}
    BY <2>1, <2>2, <2>3, <2>4
  <2>5. ASSUME NEW i \in here PROVE StoreIn(J, O, E, D)[p] = Published(o, D)[p]
    <3>1. here = {i}
      BY <1>0, <2>5
    <3>2. (CHOOSE m \in here : TRUE) = i
      BY <3>1
    <3>3. Published(o, D)[p] = o[i].result
      BY <2>3, <3>1, <3>2
    <3>4. CASE i <= k
      <4>1. owed = {}
        BY <2>1, <3>1, <3>4
      <4>2. D[p] = o[i].result
        BY <2>5, <3>4 DEF Done, o
      <4> QED BY <2>2, <3>3, <4>1, <4>2
    <3>5. CASE ~(i <= k)
      <4>1. owed = {<<t, i>>}
        BY <2>1, <3>1, <3>5
      <4>2. (CHOOSE r \in owed : TRUE) = <<t, i>>
        BY <4>1
      <4>3. StoreIn(J, O, E, D)[p] = o[i].result
        BY <2>2, <4>1, <4>2 DEF o
      <4> QED BY <3>3, <4>3
    <3> QED BY <3>4, <3>5
  <2> QED BY <2>4, <2>5
<1> QED BY <1>1 DEF StoreIn, Published, o

\* Nothing changes that the store depends on.
LEMMA StoreSame ==
    ASSUME NEW J, NEW K, NEW O, NEW Q, NEW E, NEW D,
           \A u \in TxId : /\ J[u].prog.phase = "publishing" <=> K[u].prog.phase = "publishing"
                           /\ J[u].prog.phase = "publishing" => O[u] = Q[u]
    PROVE  StoreIn(J, O, E, D) = StoreIn(K, Q, E, D)
<1>1. ASSUME NEW p \in Path PROVE OwedIn(J, O, E, p) = OwedIn(K, Q, E, p)
  BY DEF OwedIn
<1>2. ASSUME NEW p \in Path PROVE StoreIn(J, O, E, D)[p] = StoreIn(K, Q, E, D)[p]
  <2> DEFINE owed == OwedIn(J, O, E, p)
             r == CHOOSE r \in owed : TRUE
  <2>1. CASE owed = {}
    BY <1>1, <2>1 DEF StoreIn
  <2>2. CASE owed # {}
    <3>1. r \in owed
      BY <2>2
    <3>2. O[r[1]] = Q[r[1]]
      <4> HIDE DEF r
      <4> QED BY <3>1 DEF OwedIn
    <3>3. StoreIn(J, O, E, D)[p] = O[r[1]][r[2]].result /\ StoreIn(K, Q, E, D)[p] = Q[r[1]][r[2]].result
      BY <1>1, <2>2 DEF StoreIn
    <3> QED BY <3>2, <3>3
  <2> QED BY <2>1, <2>2
<1> QED BY <1>2 DEF StoreIn

\* A step that changes no progress document and no destination.
Silent ==
    /\ UNCHANGED <<dest, ops, applied>>
    /\ \A t \in TxId : jn'[t].prog = jn[t].prog

\* Only Begin, the rename of progress.next and Apply are not silent.
LEMMA MostlySilent ==
    ASSUME Atomic, [Next]_vars, MaxPower = 0, MaxEdits = 0
    PROVE  \/ Silent
           \/ \E w \in Worker : (\E t \in TxId : Begin(w, t)) \/ RenameNext(w) \/ Apply(w)
<1>0. jn \in [TxId -> Journal] /\ Custody /\ budget.power = 0 /\ budget.edits = 0
  BY DEF Atomic, Custody, Shape, Files
<1>1. CASE UNCHANGED vars
  BY <1>1 DEF vars, Silent
<1>2. CASE Environment
  <2>1. ~PowerLoss /\ \A p \in Path, c \in Content \cup {Missing} : ~Edit(p, c)
    BY <1>0 DEF PowerLoss, Edit
  <2> QED BY <1>2, <2>1 DEF Environment, Crash, Fault, Silent
<1>3. ASSUME NEW w \in Worker, Call(w) PROVE Silent
  BY <1>3 DEF Call, Submit, Recover, Silent
<1>4. ASSUME NEW w \in Worker, Step(w), ~\E t \in TxId : Begin(w, t), ~RenameNext(w), ~Apply(w)
      PROVE  Silent
  <2>1. CASE Calm /\ UNCHANGED <<dest, ops, applied>>
    BY <2>1 DEF Calm, Silent
  <2>2. CASE UNCHANGED <<jn, dest, ops, applied>>
    BY <2>2 DEF Silent
  <2>3. CASE \/ Sync(w) \/ (\E u \in TxId : ReconcileUnmarked(w, u)) \/ ReconcileDone(w)
             \/ Inspect(w) \/ Prepare(w) \/ Authorize(w) \/ CheckPublishable(w)
             \/ Commit(w) \/ Verify(w) \/ Finish(w) \/ CleanupUnmarked(w)
    BY <2>2, <2>3 DEF Sync, ReconcileUnmarked, ReconcileDone, Inspect, Prepare,
       Authorize, CheckPublishable, Commit, Verify, Finish, CleanupUnmarked
  <2>4. CASE Observe(w) \/ Decide(w) \/ Recheck(w) \/ Classify(w)
    BY <2>2, <2>4 DEF Observe, Decide, Recheck, Classify
  <2>5. CASE UnmarkNext(w) \/ UnmarkDirectory(w)
    <3>1. UNCHANGED <<dest, ops, applied>>
      BY <2>5 DEF UnmarkNext, UnmarkDirectory
    <3> QED BY <1>0, <2>1, <2>5, <3>1, UnmarkCalm
  <2>6. CASE \/ ClearNext(w) \/ MakeStaging(w) \/ Stage(w) \/ FillPayload(w) \/ WriteManifest(w)
             \/ FillManifest(w) \/ CleanupStep(w)
    <3>1. UNCHANGED <<dest, ops, applied>>
      BY <2>6 DEF ClearNext, MakeStaging, Stage, FillPayload, WriteManifest, FillManifest, CleanupStep
    <3> QED BY <1>0, <2>1, <2>6, <3>1, JournalActionCalm
  <2>7. CASE WriteNext(w)
    <3>1. ASSUME NEW t \in TxId PROVE jn'[t].prog = jn[t].prog
      <4>1. jn'[t] = jn[t] \/ jn'[t] = [jn[t] EXCEPT !.next = drv[w].mem]
        BY <1>0, <2>7 DEF WriteNext
      <4>2. jn[t] \in Journal
        BY <1>0
      <4> QED BY <4>1, <4>2 DEF Journal
    <3> QED BY <2>7, <3>1 DEF WriteNext, Silent
  <2> QED BY <1>4, <2>3, <2>4, <2>5, <2>6, <2>7
      DEF Step, Preflight, PersistProgress, DriveExecution, Publish, DriveRecovery, Conclude
<1> QED BY <1>1, <1>2, <1>3, <1>4 DEF Next

LEMMA AbstractOperators ==
    /\ \A o : Abstract!ValidPlan(o) <=> ValidPlan(o)
    /\ \A o, dst : Abstract!ExpectedObserved(o, dst) = ExpectedObserved(o, dst)
<1>1. ASSUME NEW o PROVE Abstract!ValidPlan(o) <=> ValidPlan(o)
  BY DEF Abstract!ValidPlan, ValidPlan, Abstract!Operation, Operation, Abstract!Fingerprint, Fingerprint,
     Abstract!ValidOperation, ValidOperation, Abstract!ValidRelationships, ValidRelationships,
     Abstract!Contains, Contains
<1>2. ASSUME NEW o, NEW dst PROVE Abstract!ExpectedObserved(o, dst) = ExpectedObserved(o, dst)
  BY DEF Abstract!ExpectedObserved, ExpectedObserved
<1> QED BY <1>1, <1>2

\* The fate a phase stands for.
FateOf(phase) ==
    CASE phase \in {"publishing", "committed"} -> "committed"
      [] phase = "aborted" -> "aborted"
      [] OTHER -> "open"

LEMMA FateIsFateOf ==
    /\ Fate = [t \in TxId |-> FateOf(jn[t].prog.phase)]
    /\ Fate' = [t \in TxId |-> FateOf(jn'[t].prog.phase)]
BY DEF Fate, FateOf

\* A step that seals no fate, moves nothing to or from "publishing" and changes
\* no destination is not seen.
LEMMA NothingSeen ==
    ASSUME UNCHANGED <<dest, applied>>,
           \A t \in TxId : /\ FateOf(jn'[t].prog.phase) = FateOf(jn[t].prog.phase)
                           /\ jn[t].prog.phase = "publishing" <=> jn'[t].prog.phase = "publishing"
                           /\ jn[t].prog.phase = "publishing" => ops'[t] = ops[t]
    PROVE  UNCHANGED <<Store, Fate>>
<1>1. Fate' = Fate
  BY FateIsFateOf
<1>2. StoreIn(jn, ops, applied, dest) = StoreIn(jn', ops', applied, dest)
  BY StoreSame
<1>3. Store' = Store
  BY <1>2, StoreIsStoreIn
<1> QED BY <1>1, <1>3

LEMMA BeginProposes ==
    ASSUME Atomic, NEW w \in Worker, NEW t \in TxId, Begin(w, t)
    PROVE  UNCHANGED <<Store, Fate, ops>> \/ Abstract!Propose(t)
<1>0. /\ drv[w].pc = "begin" /\ UNCHANGED <<dest, applied>> /\ ops[t] = <<>> /\ jn[t] = NoJournal
      /\ jn \in [TxId -> Journal] /\ ops \in [TxId -> Manifest]
  BY AtomicFacts DEF Begin, At, Unused, Atomic, Custody, UnusedIsBlank
<1>1. CASE UNCHANGED <<jn, ops>>
  BY <1>0, <1>1, NothingSeen
<1>2. CASE jn' = [jn EXCEPT ![t].root = TRUE] /\ ops' = [ops EXCEPT ![t] = drv[w].ops]
  <2>1. ValidPlan(drv[w].ops)
    BY <1>0, OwnCustody DEF Atomic, DriverShape
  <2>2. ASSUME NEW u \in TxId
        PROVE  /\ jn'[u].prog.phase = jn[u].prog.phase
               /\ jn[u].prog.phase = "publishing" => ops'[u] = ops[u]
    <3>1. CASE u = t
      <4>1. jn'[t] = [NoJournal EXCEPT !.root = TRUE]
        BY <1>0, <1>2
      <4> QED BY <1>0, <3>1, <4>1 DEF NoJournal, NoProgress
    <3>2. CASE u # t
      BY <1>0, <1>2, <3>2
    <3> QED BY <3>1, <3>2
  <2>3. UNCHANGED <<Store, Fate>>
    BY <1>0, <2>2, NothingSeen
  <2>4. ops'[t] = drv[w].ops /\ ops' = [ops EXCEPT ![t] = ops'[t]]
    BY <1>0, <1>2
  <2> QED BY <1>0, <2>1, <2>3, <2>4, AbstractOperators DEF Abstract!Propose
<1> QED BY <1>1, <1>2 DEF Begin

\* The store of sound journals, one of which may be under way: with a publisher
\* all its operations count, without one the destinations are what they are.
LEMMA SoundStore ==
    ASSUME NEW J, NEW O, NEW E, NEW D \in [Path -> Fingerprint],
           \A u \in TxId : Sound(J[u], O[u], D, E[u]),
           \A t, u \in TxId : Busy(J[t]) /\ Busy(J[u]) => t = u,
           NEW t \in TxId, Busy(J[t]), ValidPlan(O[t])
    PROVE  StoreIn(J, O, E, D) = IF J[t].prog.phase = "publishing" THEN Published(O[t], D) ELSE D
<1>1. \A u \in TxId : J[u].prog.phase = "publishing" => u = t
  <2>1. NoJournal.prog.phase = "missing"
    BY DEF NoJournal, NoProgress
  <2>2. \A u \in TxId : J[u].prog.phase = "publishing" => Busy(J[u])
    BY <2>1 DEF Sound, Busy, Terminal
  <2> QED BY <2>2
<1>2. CASE J[t].prog.phase = "publishing"
  <2>1. PICK k \in 0 .. Len(O[t]) : Stands(J[t], O[t], D, E[t], k)
    BY <1>2 DEF Sound
  <2>2. E[t] = 1 .. k /\ Done(O[t], D, k) /\ k \in Nat
    <3>1. Len(O[t]) \in Nat
      BY DEF ValidPlan
    <3> QED BY <2>1, <3>1 DEF Stands
  <2>3. StoreIn(J, O, E, D) = Published(O[t], D)
    BY <1>1, <1>2, <2>1, <2>2, StorePublishing
  <2> QED BY <1>2, <2>3
<1>3. CASE J[t].prog.phase # "publishing"
  BY <1>1, <1>3, StoreQuiet
<1> QED BY <1>2, <1>3

\* An operation that is published anyway.
LEMMA PublishedAlready ==
    ASSUME NEW o, NEW D \in [Path -> Fingerprint], NEW i \in 1 .. Len(o), NEW r
    PROVE  Published(o, [D EXCEPT ![o[i].path] = r]) = Published(o, D)
<1> DEFINE new == [D EXCEPT ![o[i].path] = r]
<1>1. ASSUME NEW p \in Path PROVE Published(o, new)[p] = Published(o, D)[p]
  <2> DEFINE here == {m \in 1 .. Len(o) : o[m].path = p}
  <2>1. here = {} => new[p] = D[p]
    BY <1>1
  <2> HIDE DEF new
  <2>2. /\ Published(o, new)[p] = IF here = {} THEN new[p] ELSE o[CHOOSE m \in here : TRUE].result
        /\ Published(o, D)[p] = IF here = {} THEN D[p] ELSE o[CHOOSE m \in here : TRUE].result
    BY <1>1 DEF Published
  <2> HIDE DEF here
  <2> QED BY <2>1, <2>2
<1> HIDE DEF new
<1>2. Published(o, new) = Published(o, D)
  BY <1>1 DEF Published
<1> QED BY <1>2 DEF new

\* All operations took effect: nothing is left to publish.
LEMMA PublishedDone ==
    ASSUME NEW o, Len(o) \in Nat, NEW D \in [Path -> Fingerprint], Done(o, D, Len(o))
    PROVE  Published(o, D) = D
<1>1. ASSUME NEW p \in Path PROVE Published(o, D)[p] = D[p]
  <2> DEFINE here == {m \in 1 .. Len(o) : o[m].path = p}
             i == CHOOSE m \in here : TRUE
  <2>1. Published(o, D)[p] = IF here = {} THEN D[p] ELSE o[i].result
    BY <1>1 DEF Published
  <2>2. CASE here # {}
    <3>1. i \in here
      BY <2>2
    <3> HIDE DEF i
    <3>2. i \in 1 .. Len(o) /\ i <= Len(o) /\ o[i].path = p
      BY <3>1
    <3>3. D[p] = o[i].result
      BY <3>2 DEF Done
    <3> QED BY <2>1, <2>2, <3>3
  <2> QED BY <2>1, <2>2
<1>2. DOMAIN D = Path /\ D = [p \in Path |-> D[p]]
  OBVIOUS
<1>3. Published(o, D) = [p \in Path |-> Published(o, D)[p]]
  BY DEF Published
<1> QED BY <1>1, <1>2, <1>3

\* An effect of a transaction that publishes was counted when it was authorised.
LEMMA ApplyUnseen ==
    ASSUME Atomic, Atomic', NEW w \in Worker, Apply(w)
    PROVE  UNCHANGED <<Store, Fate, ops>>
<1> DEFINE t == drv[w].tx
           o == ops[t]
<1>0. drv[w].pc = "apply" /\ drv[w].pc \in Settled /\ ops' = ops
  BY DEF Apply, At, Settled
<1>1. /\ t \in TxId /\ jn[t].prog.phase = "publishing" /\ ValidPlan(o) /\ Len(o) \in Nat
      /\ drv[w].idx \in 1 .. Len(o)
  <2>1. /\ t \in TxId /\ ValidPlan(o) /\ Len(o) \in Nat /\ jn[t].prog = drv[w].mem /\ drv[w] \in Driver
        /\ InPhase("apply", drv[w].mem.phase)
    BY <1>0, SettledAtomic
  <2>2. drv[w].idx <= Len(o)
    BY <1>0, OwnCustody DEF Atomic, DriverShape
  <2>3. drv[w].idx \in 1 .. MaxOps + 1
    BY <2>1 DEF Driver
  <2> QED BY <2>1, <2>2, <2>3, BoundAssumption DEF InPhase
<1>2. \A u \in TxId : jn'[u].prog = jn[u].prog
  BY JournalActionCalm DEF Atomic, Calm
<1>3. CASE UNCHANGED <<dest, jn, applied>>
  BY <1>0, <1>3, NothingSeen
<1>4. CASE dest' = [dest EXCEPT ![Op(w).path] = Op(w).result]
  <2>1. /\ dest \in [Path -> Fingerprint] /\ dest' \in [Path -> Fingerprint]
        /\ \A u \in TxId : Sound(jn[u], ops[u], dest, applied[u])
        /\ \A u \in TxId : Sound(jn'[u], ops'[u], dest', applied'[u])
        /\ \A u, v \in TxId : Busy(jn[u]) /\ Busy(jn[v]) => u = v
        /\ \A u, v \in TxId : Busy(jn'[u]) /\ Busy(jn'[v]) => u = v
    BY DEF Atomic, SoundJournals, OneBusy, Custody, Shape, Files
  <2>2. Busy(jn[t]) /\ Busy(jn'[t])
    <3>1. NoJournal.prog.phase = "missing"
      BY DEF NoJournal, NoProgress
    <3> QED BY <1>1, <1>2, <2>1, <3>1 DEF Sound, Busy, Terminal
  <2>3. Store = Published(o, dest)
    BY <1>1, <2>1, <2>2, SoundStore, StoreIsStoreIn
  <2>4. Store' = Published(o, dest')
    BY <1>0, <1>1, <1>2, <2>1, <2>2, SoundStore, StoreIsStoreIn
  <2>5. Published(o, dest') = Published(o, dest)
    BY <1>1, <1>4, <2>1, PublishedAlready DEF Op
  <2>6. Fate' = Fate
    BY <1>2, FateIsFateOf
  <2> QED BY <1>0, <2>3, <2>4, <2>5, <2>6
<1> QED BY <1>3, <1>4 DEF Apply

\* The rename of progress.next is where a transaction commits and where it aborts.
LEMMA RenameDecides ==
    ASSUME Atomic, Atomic', NEW w \in Worker, RenameNext(w)
    PROVE  \/ UNCHANGED <<Store, Fate, ops>>
           \/ Abstract!Commit(drv[w].tx)
           \/ Abstract!Abort(drv[w].tx)
<1> DEFINE t == drv[w].tx
           o == ops[t]
           old == jn[t].prog
           new == drv[w].mem
<1>0. /\ drv[w].pc = "rename" /\ drv[w].pc \in Persisting /\ t \in TxId /\ UNCHANGED <<dest, ops, applied>>
      /\ jn \in [TxId -> Journal] /\ Replaces(new, old) /\ jn[t].next \in {NoProgress, new}
      /\ dest \in [Path -> Fingerprint]
  BY PersistingKnows, AtomicFacts DEF RenameNext, At, Persisting, Atomic
<1>1. /\ jn[t] \in Journal /\ Sound(jn[t], o, dest, applied[t]) /\ Len(o) \in Nat /\ o # <<>>
      /\ Ready(drv[w], jn[t], o, dest, applied[t]) /\ ValidPlan(o)
  <2>1. /\ jn[t] \in Journal /\ Sound(jn[t], o, dest, applied[t]) /\ Len(o) \in Nat /\ o # <<>>
        /\ Ready(drv[w], jn[t], o, dest, applied[t])
    BY <1>0, OwnAtomic
  <2> QED BY <2>1 DEF Sound
<1>2. CASE jn' = jn
  BY <1>0, <1>2, NothingSeen
<1>3. CASE jn[t].next # NoProgress /\ jn' = [jn EXCEPT ![t].prog = jn[t].next, ![t].next = NoProgress]
  <2>1. jn'[t].prog = new /\ \A u \in TxId : u # t => jn'[u] = jn[u]
    <3>1. jn'[t] = [jn[t] EXCEPT !.prog = jn[t].next, !.next = NoProgress]
      BY <1>0, <1>3
    <3>2. jn'[t].prog = jn[t].next
      BY <1>1, <3>1 DEF Journal
    <3> QED BY <1>0, <1>3, <3>2
  <2>2. Busy(jn[t])
    <3>1. jn[t].root
      <4>1. NoJournal.next = NoProgress
        BY DEF NoJournal
      <4> QED BY <1>1, <1>3, <4>1 DEF Sound
    <3> QED BY <1>0, <3>1 DEF Busy, Replaces, LegalTransitions, Terminal
  <2>3. /\ \A u \in TxId : Sound(jn[u], ops[u], dest, applied[u])
        /\ \A u \in TxId : Sound(jn'[u], ops[u], dest, applied[u])
        /\ \A u, v \in TxId : Busy(jn[u]) /\ Busy(jn[v]) => u = v
        /\ \A u, v \in TxId : Busy(jn'[u]) /\ Busy(jn'[v]) => u = v
    BY <1>0 DEF Atomic, SoundJournals, OneBusy
  <2>4. \A u \in TxId : u # t => jn'[u].prog.phase # "publishing" /\ jn[u].prog.phase # "publishing"
    <3>1. NoJournal.prog.phase = "missing"
      BY DEF NoJournal, NoProgress
    <3> QED BY <1>0, <2>1, <2>2, <2>3, <3>1 DEF Sound, Busy, Terminal
  <2>5. Store = IF old.phase = "publishing" THEN Published(o, dest) ELSE dest
    BY <1>0, <1>1, <2>2, <2>3, SoundStore, StoreIsStoreIn
  <2>6. new.phase # "publishing" => Store' = dest
    BY <1>0, <2>1, <2>4, StoreQuiet, StoreIsStoreIn
  <2>7. new.phase = "publishing" => Store' = Published(o, dest)
    <3>1. ASSUME new.phase = "publishing" PROVE Store' = Published(o, dest)
      <4>1. Busy(jn'[t])
        <5>1. NoJournal.prog.phase = "missing"
          BY DEF NoJournal, NoProgress
        <5> QED BY <1>0, <2>1, <2>3, <3>1, <5>1 DEF Sound, Busy, Terminal
      <4>2. StoreIn(jn', ops, applied, dest) = Published(o, dest)
        BY <1>0, <1>1, <2>1, <2>3, <3>1, <4>1, SoundStore
      <4> QED BY <1>0, <4>2, StoreIsStoreIn
    <3> QED BY <3>1
  <2>8. /\ Fate = [u \in TxId |-> FateOf(jn[u].prog.phase)]
        /\ Fate' = [Fate EXCEPT ![t] = FateOf(new.phase)]
        /\ Fate[t] = FateOf(old.phase)
    BY <1>0, <2>1, FateIsFateOf
  <2>9. <<old.phase, new.phase>> \in LegalTransitions \cup {<<"publishing", "publishing">>}
    BY <1>0 DEF Replaces
  <2> HIDE DEF o, old, new
  <2>10. CASE <<old.phase, new.phase>> \in {<<"missing", "begun">>, <<"begun", "prepared">>}
    <3>1. Store' = Store
      BY <2>5, <2>6, <2>10
    <3>2. FateOf(new.phase) = FateOf(old.phase)
      BY <2>10 DEF FateOf
    <3>3. Fate' = Fate
      BY <2>8, <3>2
    <3> QED BY <1>0, <3>1, <3>3
  <2>11. CASE <<old.phase, new.phase>> \in {<<"begun", "aborted">>, <<"prepared", "aborted">>}
    <3>1. Store' = Store
      BY <2>5, <2>6, <2>11
    <3>2. FateOf(new.phase) = "aborted" /\ FateOf(old.phase) = "open"
      BY <2>11 DEF FateOf
    <3> QED BY <1>0, <1>1, <2>8, <3>1, <3>2 DEF Abstract!Abort, o
  <2>12. CASE <<old.phase, new.phase>> = <<"prepared", "publishing">>
    <3>1. Store = dest /\ Store' = Published(o, Store)
      BY <2>5, <2>7, <2>12
    <3>2. FateOf(new.phase) = "committed" /\ FateOf(old.phase) = "open"
      BY <2>12 DEF FateOf
    <3>3. ExpectedObserved(o, Store) = 1 .. Len(o)
      <4>1. Done(o, dest, 0)
        BY <1>1, <2>12 DEF Sound, Stands, old
      <4>2. ExpectedObserved(o, dest) = 1 .. Len(o)
        BY <1>1, <4>1 DEF Done, ExpectedObserved
      <4> QED BY <3>1, <4>2
    <3>4. ExpectedObserved(ops[t], Store) = 1 .. Len(ops[t]) /\ ops[t] # <<>> /\ Store' = Published(ops[t], Store)
      BY <1>1, <3>1, <3>3 DEF o
    <3>5. Abstract!ExpectedObserved(ops[t], Store) = 1 .. Len(ops[t])
      BY <3>4, AbstractOperators
    <3> QED BY <1>0, <2>8, <3>2, <3>4, <3>5 DEF Abstract!Commit, Published
  <2>13. CASE <<old.phase, new.phase>> = <<"publishing", "publishing">>
    <3>1. Store' = Store
      BY <2>5, <2>7, <2>13
    <3>2. FateOf(new.phase) = FateOf(old.phase)
      BY <2>13 DEF FateOf
    <3>3. Fate' = Fate
      BY <2>8, <3>2
    <3> QED BY <1>0, <3>1, <3>3
  <2>14. CASE <<old.phase, new.phase>> = <<"publishing", "committed">>
    <3>1. applied[t] = 1 .. Len(o)
      BY <1>0, <1>1, <2>14 DEF Ready, Truthful, new
    <3>2. PICK k \in 0 .. Len(o) : Stands(jn[t], o, dest, applied[t], k)
      BY <1>1, <2>14 DEF Sound, old
    <3>3. k = Len(o)
      BY <1>1, <3>1, <3>2, Intervals DEF Stands
    <3>4. Published(o, dest) = dest
      BY <1>0, <1>1, <3>2, <3>3, PublishedDone DEF Stands
    <3>5. Store' = Store
      BY <2>5, <2>6, <2>14, <3>4
    <3>6. FateOf(new.phase) = FateOf(old.phase)
      BY <2>14 DEF FateOf
    <3>7. Fate' = Fate
      BY <2>8, <3>6
    <3> QED BY <1>0, <3>5, <3>7
  <2> QED BY <2>9, <2>10, <2>11, <2>12, <2>13, <2>14 DEF LegalTransitions
<1> QED BY <1>2, <1>3 DEF RenameNext

\* Initially nothing is owed and nothing is decided.
LEMMA InitAbstract == Init => Abstract!Init
<1> SUFFICES ASSUME Init PROVE Abstract!Init
  OBVIOUS
<1>1. \A t \in TxId : jn[t].prog.phase = "missing"
  BY DEF Init, NoJournal, NoProgress
<1>2. Store = InitialDest
  <2>1. dest = InitialDest /\ InitialDest \in [Path -> Fingerprint]
    BY InstanceAssumption DEF Init
  <2> QED BY <1>1, <2>1, StoreQuiet, StoreIsStoreIn
<1>3. Fate = [t \in TxId |-> "open"]
  BY <1>1, FateIsFateOf DEF FateOf
<1> QED BY <1>2, <1>3 DEF Init, Abstract!Init

\* Managed transactions are atomic: step by step, through crashes and faults at
\* any call and through every recovery, executeManagedMutation and
\* recoverManagedMutation implement manifests that take effect as a whole, on
\* exactly the destinations their callers observed, or not at all.  A manifest
\* takes effect at the rename that makes its progress document say "publishing";
\* the operations published after it, by the executor or by a recovery years
\* later, change nothing an observer of the abstract store could see.
THEOREM TransactionsAreAtomic ==
    ASSUME ~RecoverLive, OneWorker, MaxPower = 0, MaxEdits = 0
    PROVE  Spec => ImplementsAtomicCommit
<1>1. Init => Atomic /\ Abstract!Init
  BY InitAtomic, InitAbstract
<1>2. Atomic /\ [Next]_vars => Atomic'
  BY NextAtomic
<1>3. Atomic /\ Atomic' /\ [Next]_vars => [Abstract!Next]_<<Store, Fate, ops>>
  <2> SUFFICES ASSUME Atomic, Atomic', [Next]_vars PROVE [Abstract!Next]_<<Store, Fate, ops>>
    OBVIOUS
  <2>1. CASE Silent
    BY <2>1, NothingSeen DEF Silent
  <2>2. ASSUME NEW w \in Worker, NEW t \in TxId, Begin(w, t) PROVE [Abstract!Next]_<<Store, Fate, ops>>
    BY <2>2, BeginProposes DEF Abstract!Next
  <2>3. ASSUME NEW w \in Worker, Apply(w) PROVE [Abstract!Next]_<<Store, Fate, ops>>
    BY <2>3, ApplyUnseen
  <2>4. ASSUME NEW w \in Worker, RenameNext(w) PROVE [Abstract!Next]_<<Store, Fate, ops>>
    <3>1. drv[w].tx \in TxId
      BY <2>4, PersistingKnows DEF RenameNext, At, Persisting, Atomic
    <3> QED BY <2>4, <3>1, RenameDecides DEF Abstract!Next
  <2> QED BY <2>1, <2>2, <2>3, <2>4, MostlySilent
<1> QED BY <1>1, <1>2, <1>3, PTL DEF Spec, ImplementsAtomicCommit, Abstract!Spec

-----------------------------------------------------------------------------
(***************************************************************************)
(* What a power loss cannot take away.  Every change of a journal or of a  *)
(* destination is followed by the synchronisation of its directory before  *)
(* the driver goes on; so whatever reached the disk when the machine stops *)
(* is a state the driver itself was in.                                    *)
(*                                                                         *)
(* Processes neither crash nor fail here: the next process would take a    *)
(* progress document or an effect for durable that its predecessor renamed *)
(* and never synchronised.                                                 *)
(***************************************************************************)

\* A directory that does not exist holds no progress document.
Rooted(j) == ~j.root => j.prog = NoProgress /\ j.next = NoProgress

\* One of the drivers ds drives t and waits for the synchronisation s.
Awaits(ds, t, s) == \E w \in Worker : ds[w].tx = t /\ ds[w].sync = s

\* The journal j that processes see and the durable one, k: what differs of the
\* root and of the progress document, some driver is about to synchronise.
Trails(ds, t, j, k) ==
    /\ Rooted(j)
    /\ k.prog # NoProgress => k.root /\ j.prog # NoProgress
    /\ j.root /\ ~k.root => Awaits(ds, t, "transactions")
    /\ j.prog # k.prog => Awaits(ds, t, "root")

\* An effect is authorised in both.
Authorized(j, k, eff, keff) ==
    /\ keff \subseteq eff
    /\ eff # {} => /\ j.prog.phase \in {"publishing", "committed"}
                   /\ k.prog.phase \in {"publishing", "committed"}

JournalsTrail == \A t \in TxId : Trails(drv, t, jn[t], disk.jn[t])

EffectsAuthorizedTwice ==
    \A t \in TxId : Authorized(jn[t], disk.jn[t], applied[t], disk.applied[t])

Durable == Custody /\ JournalsTrail /\ EffectsAuthorizedTwice

-----------------------------------------------------------------------------
(* Effects are durably authorised: any number of drivers, edits and power  *)
(* losses.                                                                 *)

LEMMA DurableFacts ==
    ASSUME Durable
    PROVE  /\ Custody /\ SoleDriver
           /\ drv \in [Worker -> Driver] /\ jn \in [TxId -> Journal]
           /\ disk.jn \in [TxId -> Journal]
           /\ applied \in [TxId -> SUBSET (1 .. MaxOps)]
           /\ \A t \in TxId : Trails(drv, t, jn[t], disk.jn[t])
           /\ \A t \in TxId : Authorized(jn[t], disk.jn[t], applied[t], disk.applied[t])
BY DEF Durable, Custody, Shape, Registers, Files, JournalsTrail, EffectsAuthorizedTwice

\* A step of a driver that waits for no synchronisation, by what it may change.
Quietly(w) ==
    /\ drv[w].sync = "none"
    /\ \A u \in Worker : u # w => drv'[u] = drv[u]
    /\ UNCHANGED <<disk, applied>>

\* The progress document stays, and no directory comes into being.
QuietJournals ==
    \A t \in TxId : /\ jn'[t].prog = jn[t].prog
                    /\ jn'[t].root => jn[t].root
                    /\ Rooted(jn'[t])

LEMMA StillAwaited ==
    ASSUME NEW w \in Worker, Quietly(w), NEW t, NEW s, s # "none", Awaits(drv, t, s)
    PROVE  Awaits(drv', t, s)
BY DEF Quietly, Awaits

LEMMA QuietDurable ==
    ASSUME Durable, Custody', NEW w \in Worker, Quietly(w), QuietJournals
    PROVE  Durable'
<1>1. JournalsTrail'
  <2> SUFFICES ASSUME NEW t \in TxId PROVE Trails(drv', t, jn'[t], disk'.jn[t])
    BY DEF JournalsTrail
  <2>1. Trails(drv, t, jn[t], disk.jn[t])
    BY DurableFacts
  <2>2. /\ Awaits(drv, t, "transactions") => Awaits(drv', t, "transactions")
        /\ Awaits(drv, t, "root") => Awaits(drv', t, "root")
    BY StillAwaited
  <2> QED BY <2>1, <2>2 DEF Trails, Quietly, QuietJournals
<1>2. EffectsAuthorizedTwice'
  BY DurableFacts DEF EffectsAuthorizedTwice, Authorized, Quietly, QuietJournals
<1> QED BY <1>1, <1>2 DEF Durable

LEMMA SameJournals ==
    ASSUME Durable, jn' = jn
    PROVE  QuietJournals
BY DurableFacts DEF QuietJournals, Trails

\* One journal changes in its payloads, its staging, its manifest or its scratch.
LEMMA OneJournalQuiet ==
    ASSUME Durable, NEW t \in TxId, NEW k, jn' = [jn EXCEPT ![t] = k],
           k.prog = jn[t].prog, k.root = jn[t].root, Rooted(k)
    PROVE  QuietJournals
BY DurableFacts DEF QuietJournals, Trails

\* Which actions are quiet.
LEMMA DriverMovesQuietly ==
    ASSUME Durable, NEW w \in Worker, drv[w].sync = "none", NEW d, drv' = [drv EXCEPT ![w] = d],
           UNCHANGED <<disk, applied>>
    PROVE  Quietly(w)
BY DurableFacts DEF Quietly

LEMMA StepsQuietly ==
    ASSUME Durable, NEW w \in Worker,
           \/ Preflight(w) \/ PersistProgress(w) \/ DriveExecution(w) \/ DriveRecovery(w)
           \/ Verify(w) \/ Conclude(w) \/ Call(w)
    PROVE  Quietly(w)
<1>1. CASE Preflight(w)
  BY <1>1, DurableFacts DEF Preflight, Quietly, ReconcileUnmarked, UnmarkNext, UnmarkDirectory, ReconcileDone,
     Inspect, Observe, At, Return, Goto
<1>2. CASE PersistProgress(w)
  BY <1>2, DurableFacts DEF PersistProgress, Quietly, ClearNext, WriteNext, RenameNext, At, Goto, Fail
<1>3. CASE DriveExecution(w)
  BY <1>3, DurableFacts DEF DriveExecution, Quietly, Begin, MakeStaging, Stage, FillPayload, WriteManifest,
     FillManifest, Prepare, Authorize, CheckPublishable, Commit, At, Return, Goto, Fail, Persist
<1>4. CASE DriveRecovery(w) \/ Verify(w)
  <2>1. CASE Decide(w)
    BY <2>1, DurableFacts DEF Quietly, Decide, At, Fail, Persist
  <2>2. CASE Recheck(w) \/ Verify(w)
    BY <2>2, DurableFacts DEF Quietly, Recheck, Verify, At, Goto, Fail, Persist
  <2> QED BY <1>4, <2>1, <2>2 DEF DriveRecovery
<1>5. CASE Conclude(w)
  BY <1>5, DurableFacts DEF Conclude, Quietly, CleanupStep, Finish, CleanupUnmarked, Classify, At, Return
<1>6. CASE Call(w)
  BY <1>6, DurableFacts DEF Call, Quietly, Submit, Recover, At
<1> QED BY <1>1, <1>2, <1>3, <1>4, <1>5, <1>6

LEMMA UnmarkQuiet ==
    ASSUME Durable, Custody', NEW w \in Worker, UnmarkNext(w) \/ UnmarkDirectory(w)
    PROVE  Durable'
<1> DEFINE t == drv[w].tgt
<1>0. jn \in [TxId -> Journal] /\ Quietly(w)
  BY StepsQuietly, DurableFacts DEF Preflight
<1>1. t \in TxId /\ jn[t] \in Journal /\ Rooted(jn[t])
  <2>1. drv[w].pc \in {"unNext", "unDir"}
    BY DEF UnmarkNext, UnmarkDirectory, At
  <2> QED BY <1>0, <2>1, DurableFacts, OwnCustody DEF DriverShape, Trails
<1>2. CASE jn' = jn
  BY <1>0, <1>2, SameJournals, QuietDurable
<1>3. CASE jn' = [jn EXCEPT ![t].next = NoProgress]
  <2> DEFINE k == [jn[t] EXCEPT !.next = NoProgress]
  <2>1. k.prog = jn[t].prog /\ k.root = jn[t].root /\ k.next = NoProgress
    BY <1>1 DEF Journal
  <2>2. jn' = [jn EXCEPT ![t] = k]
    BY <1>0, <1>1, <1>3
  <2> HIDE DEF k
  <2>3. Rooted(k)
    BY <1>1, <2>1 DEF Rooted
  <2>4. QuietJournals
    BY <1>1, <2>1, <2>2, <2>3, OneJournalQuiet
  <2> QED BY <1>0, <2>4, QuietDurable
<1>4. CASE [jn[t] EXCEPT !.root = FALSE] = NoJournal /\ jn' = [jn EXCEPT ![t] = NoJournal]
  <2>1. NoJournal.root = FALSE /\ NoJournal.prog = NoProgress /\ NoJournal.next = NoProgress
    BY DEF NoJournal
  <2>2. jn[t].prog = NoProgress
    BY <1>1, <1>4, <2>1 DEF Journal
  <2>3. QuietJournals
    BY <1>0, <1>1, <1>4, <2>1, <2>2, DurableFacts DEF QuietJournals, Trails, Rooted
  <2> QED BY <1>0, <2>3, QuietDurable
<1> QED BY <1>2, <1>3, <1>4 DEF UnmarkNext, UnmarkDirectory

\* The other journal actions touch the driver's own journal.
LEMMA JournalActionQuiet ==
    ASSUME Durable, Custody', NEW w \in Worker,
           \/ ClearNext(w) \/ WriteNext(w) \/ MakeStaging(w) \/ Stage(w) \/ FillPayload(w)
           \/ WriteManifest(w) \/ FillManifest(w) \/ CleanupStep(w)
    PROVE  Durable'
<1> DEFINE t == drv[w].tx
<1>0. jn \in [TxId -> Journal] /\ Quietly(w)
  BY StepsQuietly, DurableFacts DEF PersistProgress, DriveExecution, Conclude
<1>1. t \in TxId /\ jn[t] \in Journal /\ Rooted(jn[t])
  <2>1. drv[w].pc \in Owning
    BY DEF ClearNext, WriteNext, MakeStaging, Stage, FillPayload, WriteManifest, FillManifest,
           CleanupStep, At, Owning, Persisting, Settled
  <2> QED BY <1>0, <2>1, DurableFacts, OwnCustody DEF DriverShape, Trails
<1>2. CASE jn' = jn
  BY <1>0, <1>2, SameJournals, QuietDurable
<1>3. ASSUME NEW k, jn' = [jn EXCEPT ![t] = k], k.prog = jn[t].prog, k.root = jn[t].root,
             k.next \in {jn[t].next, NoProgress} \/ jn[t].root
      PROVE  Durable'
  <2>1. Rooted(k)
    BY <1>1, <1>3 DEF Rooted
  <2>2. QuietJournals
    BY <1>1, <1>3, <2>1, OneJournalQuiet
  <2> QED BY <1>0, <2>2, QuietDurable
<1>4. ASSUME NEW next, jn' = [jn EXCEPT ![t].next = next], next = NoProgress \/ jn[t].root
      PROVE  Durable'
  <2> DEFINE k == [jn[t] EXCEPT !.next = next]
  <2>1. k.prog = jn[t].prog /\ k.root = jn[t].root /\ k.next = next
    BY <1>1 DEF Journal
  <2>2. jn' = [jn EXCEPT ![t] = k]
    BY <1>0, <1>1, <1>4
  <2> HIDE DEF k
  <2> QED BY <1>3, <1>4, <2>1, <2>2
<1>5. ASSUME NEW staging, jn' = [jn EXCEPT ![t].staging = staging]
      PROVE  Durable'
  <2> DEFINE k == [jn[t] EXCEPT !.staging = staging]
  <2>1. k.prog = jn[t].prog /\ k.root = jn[t].root /\ k.next = jn[t].next
    BY <1>1 DEF Journal
  <2>2. jn' = [jn EXCEPT ![t] = k]
    BY <1>0, <1>1, <1>5
  <2> HIDE DEF k
  <2> QED BY <1>3, <2>1, <2>2
<1>6. ASSUME NEW i, NEW file, jn' = [jn EXCEPT ![t].pay[i] = file]
      PROVE  Durable'
  <2> DEFINE pay == [jn[t].pay EXCEPT ![i] = file]
             k == [jn[t] EXCEPT !.pay = pay]
  <2>1. k.prog = jn[t].prog /\ k.root = jn[t].root /\ k.next = jn[t].next
    BY <1>1 DEF Journal
  <2>2. jn' = [jn EXCEPT ![t] = k]
    BY <1>0, <1>1, <1>6
  <2> HIDE DEF k
  <2> QED BY <1>3, <2>1, <2>2
<1>7. ASSUME NEW man, jn' = [jn EXCEPT ![t].man = man]
      PROVE  Durable'
  <2> DEFINE k == [jn[t] EXCEPT !.man = man]
  <2>1. k.prog = jn[t].prog /\ k.root = jn[t].root /\ k.next = jn[t].next
    BY <1>1 DEF Journal
  <2>2. jn' = [jn EXCEPT ![t] = k]
    BY <1>0, <1>1, <1>7
  <2> HIDE DEF k
  <2> QED BY <1>3, <2>1, <2>2
<1>8. CASE ClearNext(w) \/ WriteNext(w)
  BY <1>2, <1>4, <1>8 DEF ClearNext, WriteNext, Mine
<1>9. CASE MakeStaging(w) \/ WriteManifest(w)
  BY <1>2, <1>5, <1>7, <1>9 DEF MakeStaging, WriteManifest
<1>10. CASE Stage(w) \/ FillPayload(w)
  BY <1>2, <1>6, <1>10 DEF Stage, FillPayload
<1>11. CASE FillManifest(w)
  <2>1. jn' = [jn EXCEPT ![t].man = IF jn[t].man = "torn" THEN "full" ELSE jn[t].man]
    BY <1>0, <1>1, <1>11 DEF FillManifest
  <2> QED BY <1>7, <2>1
<1>12. CASE CleanupStep(w)
  BY <1>2, <1>4, <1>5, <1>6, <1>7, <1>12 DEF CleanupStep
<1> QED BY <1>8, <1>9, <1>10, <1>11, <1>12

LEMMA BeginDurable ==
    ASSUME Durable, Custody', NEW w \in Worker, NEW t \in TxId, Begin(w, t)
    PROVE  Durable'
<1>0. Quietly(w) /\ jn \in [TxId -> Journal] /\ drv \in [Worker -> Driver]
  BY StepsQuietly, DurableFacts DEF DriveExecution
<1>1. CASE jn' = jn
  BY <1>0, <1>1, SameJournals, QuietDurable
<1>2. CASE /\ jn' = [jn EXCEPT ![t].root = TRUE]
           /\ drv'[w].tx = t /\ drv'[w].sync = "transactions"
  <2>1. jn[t] = NoJournal /\ disk.jn[t] = NoJournal
    BY DurableFacts DEF Begin, Unused, Custody, UnusedIsBlank
  <2>2. NoJournal.prog = NoProgress /\ NoJournal.next = NoProgress
    BY DEF NoJournal
  <2>3. jn'[t] = [NoJournal EXCEPT !.root = TRUE] /\ \A u \in TxId : u # t => jn'[u] = jn[u]
    BY <1>0, <1>2, <2>1
  <2>4. jn'[t].root = TRUE /\ jn'[t].prog = NoProgress
    BY <2>2, <2>3, EmptyJournal DEF Journal
  <2>5. Awaits(drv', t, "transactions")
    BY <1>2 DEF Awaits
  <2>6. Trails(drv', t, jn'[t], disk'.jn[t])
    BY <1>0, <2>1, <2>2, <2>4, <2>5 DEF Trails, Rooted, Quietly
  <2>7. ASSUME NEW u \in TxId, u # t PROVE Trails(drv', u, jn'[u], disk'.jn[u])
    <3>1. Trails(drv, u, jn[u], disk.jn[u])
      BY DurableFacts
    <3>2. /\ Awaits(drv, u, "transactions") => Awaits(drv', u, "transactions")
          /\ Awaits(drv, u, "root") => Awaits(drv', u, "root")
      BY <1>0, StillAwaited
    <3> QED BY <1>0, <2>3, <2>7, <3>1, <3>2 DEF Trails, Quietly
  <2>8. JournalsTrail'
    BY <2>6, <2>7 DEF JournalsTrail
  <2>9. \A u \in TxId : jn'[u].prog = jn[u].prog
    BY <2>1, <2>2, <2>3, <2>4
  <2>10. EffectsAuthorizedTwice'
    BY <1>0, <2>9, DurableFacts DEF EffectsAuthorizedTwice, Authorized, Quietly
  <2> QED BY <2>8, <2>10 DEF Durable
<1>3. ASSUME drv' = [drv EXCEPT ![w].tx = t, ![w].ops = <<>>, ![w].pc = "clear",
                       ![w].mem = [phase |-> "begun", bound |-> FALSE, published |-> 0],
                       ![w].back = "mkStaging", ![w].sync = "transactions"]
      PROVE  drv'[w].tx = t /\ drv'[w].sync = "transactions"
  <2>1. drv[w] \in Driver
    BY <1>0
  <2> QED BY <1>0, <1>3, <2>1 DEF Driver
<1> QED BY <1>0, <1>1, <1>2, <1>3 DEF Begin

\* Nobody else drives what a driver drives.
LEMMA OnlyOwnAwaits ==
    ASSUME Durable, NEW w \in Worker, drv[w].tx \in TxId, NEW s, Awaits(drv, drv[w].tx, s)
    PROVE  drv[w].sync = s
BY DurableFacts DEF Awaits, SoleDriver

LEMMA RenameNextDurable ==
    ASSUME Durable, Custody', Shape', NEW w \in Worker, RenameNext(w)
    PROVE  Durable'
<1> DEFINE t == drv[w].tx
<1>0. Quietly(w) /\ jn \in [TxId -> Journal] /\ drv \in [Worker -> Driver]
  BY StepsQuietly, DurableFacts DEF PersistProgress
<1>1. CASE jn' = jn
  BY <1>0, <1>1, SameJournals, QuietDurable
<1>2. CASE /\ jn[t].next # NoProgress
           /\ jn' = [jn EXCEPT ![t].prog = jn[t].next, ![t].next = NoProgress]
           /\ drv' = [drv EXCEPT ![w].pc = drv[w].back, ![w].sync = "root"]
  <2>1. t \in TxId /\ drv[w] \in Driver
    <3>1. drv[w].pc \in Owning
      BY DEF RenameNext, At, Owning, Persisting
    <3> QED BY <1>0, <3>1, DurableFacts, OwnCustody DEF DriverShape
  <2>2. /\ jn'[t] = [jn[t] EXCEPT !.prog = jn[t].next, !.next = NoProgress] /\ jn[t] \in Journal
        /\ \A u \in TxId : u # t => jn'[u] = jn[u]
    BY <1>0, <1>2, <2>1
  <2>3. jn'[t].prog = jn[t].next /\ jn'[t].root = jn[t].root
    BY <2>2 DEF Journal
  <2>4. drv'[w].tx = t /\ drv'[w].sync = "root"
    BY <1>0, <1>2, <2>1 DEF Driver
  <2>5. Awaits(drv', t, "root")
    BY <2>4 DEF Awaits
  <2>6. ~Awaits(drv, t, "transactions")
    BY <1>0, <2>1, OnlyOwnAwaits DEF Quietly
  <2>7. Trails(drv, t, jn[t], disk.jn[t])
    BY <2>1, DurableFacts
  <2>8. Trails(drv', t, jn'[t], disk'.jn[t])
    BY <1>0, <1>2, <2>3, <2>5, <2>6, <2>7 DEF Trails, Rooted, Quietly
  <2>9. ASSUME NEW u \in TxId, u # t PROVE Trails(drv', u, jn'[u], disk'.jn[u])
    <3>1. Trails(drv, u, jn[u], disk.jn[u])
      BY DurableFacts
    <3>2. /\ Awaits(drv, u, "transactions") => Awaits(drv', u, "transactions")
          /\ Awaits(drv, u, "root") => Awaits(drv', u, "root")
      BY <1>0, StillAwaited
    <3> QED BY <1>0, <2>2, <2>9, <3>1, <3>2 DEF Trails, Quietly
  <2>10. JournalsTrail'
    BY <2>8, <2>9 DEF JournalsTrail
  <2>11. budget' = budget /\ [Next]_vars
    BY DEF RenameNext, Next, Step, PersistProgress
  <2>12. ASSUME NEW u \in TxId, jn[u].prog.phase \in {"publishing", "committed"}
         PROVE  jn'[u].prog.phase \in {"publishing", "committed"}
    BY <2>11, <2>12, ProgressMoves, DurableFacts DEF LegalTransitions
  <2>13. EffectsAuthorizedTwice'
    BY <1>0, <2>12, DurableFacts DEF EffectsAuthorizedTwice, Authorized, Quietly
  <2> QED BY <2>10, <2>13 DEF Durable
<1> QED BY <1>1, <1>2 DEF RenameNext, ProgressSync

LEMMA ApplyDurable ==
    ASSUME Durable, Custody', NEW w \in Worker, Apply(w)
    PROVE  Durable'
<1> DEFINE t == drv[w].tx
           i == drv[w].idx
<1>0. /\ jn \in [TxId -> Journal] /\ drv \in [Worker -> Driver] /\ drv[w].sync = "none"
      /\ drv[w].pc = "apply" /\ disk' = disk
  BY DurableFacts DEF Apply, At
<1>1. t \in TxId /\ jn[t] \in Journal /\ drv[w] \in Driver
  BY <1>0, DurableFacts, OwnCustody DEF DriverShape, Owning, Settled
<1>2. \A u \in Worker : u # w => drv'[u] = drv[u]
  BY <1>0 DEF Apply, Fail
<1>3. CASE jn' = jn /\ applied' = applied
  <2>1. Quietly(w)
    BY <1>0, <1>2, <1>3 DEF Quietly
  <2> QED BY <1>3, <2>1, SameJournals, QuietDurable
<1>4. CASE jn' = [jn EXCEPT ![t].pay[i] = "missing"] /\ applied' = [applied EXCEPT ![t] = @ \cup {i}]
  <2> DEFINE pay == [jn[t].pay EXCEPT ![i] = "missing"]
             k == [jn[t] EXCEPT !.pay = pay]
  <2>1. k.prog = jn[t].prog /\ k.root = jn[t].root /\ k.next = jn[t].next
    BY <1>1 DEF Journal
  <2>2. jn' = [jn EXCEPT ![t] = k]
    BY <1>0, <1>1, <1>4
  <2> HIDE DEF k
  <2>3. \A u \in TxId : jn'[u] = IF u = t THEN k ELSE jn[u]
    BY <1>0, <2>2
  <2>4. \A u \in TxId : applied'[u] = IF u = t THEN applied[u] \cup {i} ELSE applied[u]
    BY <1>4, DurableFacts
  <2>5. ASSUME NEW u \in TxId, NEW s, s # "none", Awaits(drv, u, s) PROVE Awaits(drv', u, s)
    BY <1>0, <1>2, <2>5 DEF Awaits
  <2>6. JournalsTrail'
    <3> SUFFICES ASSUME NEW u \in TxId PROVE Trails(drv', u, jn'[u], disk'.jn[u])
      BY DEF JournalsTrail
    <3>1. Trails(drv, u, jn[u], disk.jn[u])
      BY DurableFacts
    <3>2. /\ Awaits(drv, u, "transactions") => Awaits(drv', u, "transactions")
          /\ Awaits(drv, u, "root") => Awaits(drv', u, "root")
      BY <2>5
    <3> QED BY <1>0, <2>1, <2>3, <3>1, <3>2 DEF Trails, Rooted
  <2>7. jn[t].prog.phase = "publishing"
    BY <1>0, <1>1, DurableFacts, SettledKnows DEF InPhase, Settled
  <2>8. disk.jn[t].prog = jn[t].prog
    <3>1. Trails(drv, t, jn[t], disk.jn[t])
      BY <1>1, DurableFacts
    <3> QED BY <1>0, <1>1, <3>1, OnlyOwnAwaits DEF Trails
  <2>9. ASSUME NEW u \in TxId PROVE Authorized(jn'[u], disk'.jn[u], applied'[u], disk'.applied[u])
    <3>1. Authorized(jn[u], disk.jn[u], applied[u], disk.applied[u])
      BY DurableFacts
    <3> QED BY <1>0, <2>1, <2>3, <2>4, <2>7, <2>8, <3>1 DEF Authorized
  <2> QED BY <2>6, <2>9 DEF Durable, EffectsAuthorizedTwice
<1> QED BY <1>3, <1>4 DEF Apply

\* What a synchronisation leaves of the durable journal and effects of t.
LEMMA SyncedJournals ==
    ASSUME Durable, NEW w \in Worker, Sync(w), NEW t \in TxId
    PROVE  /\ \/ disk'.jn[t].prog = disk.jn[t].prog
                 /\ disk'.jn[t].root = disk.jn[t].root
                 /\ (drv[w].sync = "root" /\ drv[w].tx = t => ~jn[t].root)
                 /\ (drv[w].sync = "transactions" /\ jn[t].root => disk.jn[t].root)
              \/ /\ drv[w].sync = "transactions" /\ jn[t].root
                 /\ disk'.jn[t].prog = disk.jn[t].prog /\ disk'.jn[t].root = TRUE
              \/ /\ drv[w].sync = "transactions" /\ ~jn[t].root /\ disk'.jn[t] = NoJournal
              \/ /\ drv[w].sync = "root" /\ drv[w].tx = t /\ jn[t].root
                 /\ disk'.jn[t].prog = jn[t].prog /\ disk'.jn[t].root = disk.jn[t].root
           /\ disk'.applied[t] \subseteq disk.applied[t] \cup applied[t]
<1> DEFINE v == drv[w].tx
           s == drv[w].sync
<1>0. /\ jn \in [TxId -> Journal] /\ disk.jn \in [TxId -> Journal] /\ jn[t] \in Journal /\ disk.jn[t] \in Journal
      /\ disk \in [dest : [Path -> Fingerprint], jn : [TxId -> Journal],
                   applied : [TxId -> SUBSET (1 .. MaxOps)]]
      /\ drv[w] \in Driver /\ (s \in {"root", "staging", "parent"} => v \in TxId)
  BY DurableFacts, OwnCustody DEF Custody, Shape, Files, DriverShape
<1>1. CASE s \in {"root", "staging"} /\ ~jn[v].root
  <2>1. disk' = disk
    BY <1>1 DEF Sync
  <2> QED BY <1>1, <2>1
<1>2. CASE ~(s \in {"root", "staging"} /\ ~jn[v].root)
  <2>1. disk' = CASE s = "transactions" -> SyncTransactions
                  [] s = "root"    -> SyncRoot(v)
                  [] s = "staging" -> SyncStaging(v)
                  [] OTHER         -> SyncParent(Op(w).path)
    BY <1>2 DEF Sync
  <2>2. CASE s = "transactions"
    <3>1. disk'.jn[t] = IF jn[t].root THEN [disk.jn[t] EXCEPT !.root = TRUE] ELSE NoJournal
      BY <1>0, <2>1, <2>2 DEF SyncTransactions
    <3>2. disk'.applied = disk.applied
      BY <1>0, <2>1, <2>2 DEF SyncTransactions
    <3>3. LET k == [disk.jn[t] EXCEPT !.root = TRUE]
          IN  k.prog = disk.jn[t].prog /\ k.root = TRUE
      BY <1>0 DEF Journal
    <3> QED BY <2>2, <3>1, <3>2, <3>3
  <2>3. CASE s = "root"
    <3> DEFINE pay == IF jn[v].staging THEN disk.jn[v].pay ELSE jn[v].pay
               k == [jn[v] EXCEPT !.root = disk.jn[v].root, !.pay = pay]
    <3>0. v \in TxId /\ jn[v] \in Journal /\ disk.jn[v] \in Journal /\ jn[v].root
      BY <1>0, <1>2, <2>3
    <3>1. disk' = [disk EXCEPT !.jn[v] = k]
      BY <2>1, <2>3, <3>0 DEF SyncRoot, Journal
    <3>2. k.prog = jn[v].prog /\ k.root = disk.jn[v].root
      BY <3>0 DEF Journal
    <3> HIDE DEF k
    <3>3. disk'.jn[t] = (IF t = v THEN k ELSE disk.jn[t]) /\ disk'.applied = disk.applied
      BY <1>0, <3>0, <3>1
    <3>4. CASE t = v
      BY <2>3, <3>0, <3>2, <3>3, <3>4
    <3>5. CASE t # v
      BY <2>3, <3>3, <3>5
    <3> QED BY <3>4, <3>5
  <2>4. CASE s = "staging"
    <3> DEFINE k == [disk.jn[v] EXCEPT !.pay = jn[v].pay]
    <3>0. v \in TxId /\ disk.jn[v] \in Journal
      BY <1>0, <2>4
    <3>1. disk' = [disk EXCEPT !.jn[v] = k]
      BY <1>0, <2>1, <2>4 DEF SyncStaging
    <3>2. k.prog = disk.jn[v].prog /\ k.root = disk.jn[v].root
      BY <3>0 DEF Journal
    <3> HIDE DEF k
    <3>3. disk'.jn[t] = (IF t = v THEN k ELSE disk.jn[t]) /\ disk'.applied = disk.applied
      BY <1>0, <3>0, <3>1
    <3> QED BY <2>4, <3>2, <3>3
  <2>5. CASE s \notin {"transactions", "root", "staging"}
    <3> DEFINE p == Op(w).path
               now == {i \in applied[t] : ops[t][i].path \in Siblings(p)}
               pay == [i \in 1 .. MaxOps |-> IF i \in now THEN "missing" ELSE disk.jn[t].pay[i]]
    <3>1. disk' = SyncParent(p)
      BY <2>1, <2>5
    <3>2. disk'.jn[t] = [disk.jn[t] EXCEPT !.pay = pay] /\ disk'.applied[t] = disk.applied[t] \cup now
      BY <3>1 DEF SyncParent
    <3>3. now \in SUBSET applied[t]
      OBVIOUS
    <3> HIDE DEF pay, now
    <3>4. LET k == [disk.jn[t] EXCEPT !.pay = pay]
          IN  k.prog = disk.jn[t].prog /\ k.root = disk.jn[t].root
      BY <1>0 DEF Journal
    <3> QED BY <2>5, <3>2, <3>3, <3>4
  <2> QED BY <2>2, <2>3, <2>4, <2>5
<1> QED BY <1>1, <1>2

LEMMA SyncDurable ==
    ASSUME Durable, Custody', NEW w \in Worker, Sync(w)
    PROVE  Durable'
<1>0. /\ jn' = jn /\ applied' = applied /\ drv[w].sync # "none"
      /\ \A u \in Worker : u # w => drv'[u] = drv[u]
  <2>1. drv \in [Worker -> Driver]
    BY DurableFacts
  <2> QED BY <2>1 DEF Sync, Fail
<1>1. ASSUME NEW t \in TxId, NEW s, s # "none", Awaits(drv, t, s), ~(drv[w].tx = t /\ drv[w].sync = s)
      PROVE  Awaits(drv', t, s)
  BY <1>0, <1>1 DEF Awaits
<1>2. ASSUME NEW t \in TxId PROVE Trails(drv', t, jn'[t], disk'.jn[t])
  <2> DEFINE k == disk'.jn[t]
  <2>1. Trails(drv, t, jn[t], disk.jn[t])
    BY DurableFacts
  <2>2. NoJournal.prog = NoProgress /\ NoJournal.root = FALSE
    BY DEF NoJournal
  <2>3. /\ Awaits(drv, t, "transactions") /\ drv[w].sync # "transactions" => Awaits(drv', t, "transactions")
        /\ Awaits(drv, t, "root") /\ ~(drv[w].sync = "root" /\ drv[w].tx = t) => Awaits(drv', t, "root")
    BY <1>1
  <2>4. CASE /\ k.prog = disk.jn[t].prog /\ k.root = disk.jn[t].root
             /\ (drv[w].sync = "root" /\ drv[w].tx = t => ~jn[t].root)
             /\ (drv[w].sync = "transactions" /\ jn[t].root => disk.jn[t].root)
    BY <1>0, <2>1, <2>3, <2>4 DEF Trails, Rooted
  <2>5. CASE drv[w].sync = "transactions" /\ k.prog = disk.jn[t].prog /\ k.root = TRUE
    BY <1>0, <2>1, <2>3, <2>5 DEF Trails
  <2>6. CASE drv[w].sync = "transactions" /\ ~jn[t].root /\ k = NoJournal
    BY <1>0, <2>1, <2>2, <2>6 DEF Trails, Rooted
  <2>7. CASE drv[w].sync = "root" /\ drv[w].tx = t /\ jn[t].root
             /\ k.prog = jn[t].prog /\ k.root = disk.jn[t].root
    <3>1. ~Awaits(drv, t, "transactions")
      BY <2>7, OnlyOwnAwaits
    <3> QED BY <1>0, <2>1, <2>7, <3>1 DEF Trails
  <2> HIDE DEF k
  <2>8. \/ /\ k.prog = disk.jn[t].prog /\ k.root = disk.jn[t].root
           /\ (drv[w].sync = "root" /\ drv[w].tx = t => ~jn[t].root)
           /\ (drv[w].sync = "transactions" /\ jn[t].root => disk.jn[t].root)
        \/ drv[w].sync = "transactions" /\ k.prog = disk.jn[t].prog /\ k.root = TRUE
        \/ drv[w].sync = "transactions" /\ ~jn[t].root /\ k = NoJournal
        \/ drv[w].sync = "root" /\ drv[w].tx = t /\ jn[t].root
             /\ k.prog = jn[t].prog /\ k.root = disk.jn[t].root
    BY SyncedJournals DEF k
  <2> QED BY <2>4, <2>5, <2>6, <2>7, <2>8 DEF k
<1>3. ASSUME NEW t \in TxId PROVE Authorized(jn'[t], disk'.jn[t], applied'[t], disk'.applied[t])
  <2>1. Authorized(jn[t], disk.jn[t], applied[t], disk.applied[t]) /\ Trails(drv, t, jn[t], disk.jn[t])
    BY DurableFacts
  <2>2. disk'.applied[t] \subseteq applied[t]
    <3>1. disk'.applied[t] \subseteq disk.applied[t] \cup applied[t]
      BY SyncedJournals
    <3> QED BY <2>1, <3>1 DEF Authorized
  <2>3. applied[t] # {} => jn[t].root
    <3>1. NoProgress.phase = "missing"
      BY DEF NoProgress
    <3> QED BY <2>1, <3>1 DEF Authorized, Trails, Rooted
  <2>4. applied[t] # {} => disk'.jn[t].prog \in {disk.jn[t].prog, jn[t].prog}
    BY <2>3, SyncedJournals
  <2> QED BY <1>0, <2>1, <2>2, <2>4 DEF Authorized
<1> QED BY <1>2, <1>3 DEF Durable, JournalsTrail, EffectsAuthorizedTwice

LEMMA PowerLossDurable ==
    ASSUME Durable, Custody', PowerLoss
    PROVE  Durable'
<1>0. PICK J \in SUBSET TxId, D \in SUBSET Path :
         LET kept(t) == disk.applied[t] \cup {i \in applied[t] : ops[t][i].path \in D}
             base(t) == IF t \in J THEN jn[t] ELSE disk.jn[t]
             left(t) ==
               [base(t) EXCEPT !.pay = [i \in 1 .. MaxOps |->
                  CASE i \in kept(t) \/ ~base(t).staging -> "missing"
                    [] i \in applied[t] \ kept(t)        -> disk.jn[t].pay[i]
                    [] OTHER                             -> base(t).pay[i]]]
             now == [p \in Path |-> IF p \in D THEN dest[p] ELSE disk.dest[p]]
         IN  /\ dest' = now
             /\ jn' = [t \in TxId |-> IF base(t).root THEN left(t) ELSE NoJournal]
             /\ applied' = [t \in TxId |-> kept(t)]
             /\ disk' = [dest |-> dest', jn |-> jn', applied |-> applied']
  BY DEF PowerLoss
<1> DEFINE base(t) == IF t \in J THEN jn[t] ELSE disk.jn[t]
<1>1. disk'.jn = jn' /\ disk'.applied = applied'
  BY <1>0
<1>2. ASSUME NEW t \in TxId
      PROVE  /\ Rooted(jn'[t])
             /\ jn'[t].prog # NoProgress => jn'[t].root
             /\ Authorized(jn'[t], jn'[t], applied'[t], applied'[t])
  <2>0. NoJournal.prog = NoProgress /\ NoJournal.next = NoProgress /\ NoJournal.root = FALSE
        /\ NoProgress.phase = "missing"
    BY DEF NoJournal, NoProgress
  <2>1. /\ base(t) \in Journal /\ base(t) \in {jn[t], disk.jn[t]}
        /\ Trails(drv, t, jn[t], disk.jn[t])
        /\ Authorized(jn[t], disk.jn[t], applied[t], disk.applied[t])
    BY <1>2, DurableFacts
  <2>2. \/ ~base(t).root /\ jn'[t] = NoJournal
        \/ base(t).root /\ \E pay : jn'[t] = [base(t) EXCEPT !.pay = pay]
    BY <1>0
  <2>3. applied'[t] \subseteq applied[t]
    <3>1. applied'[t] = disk.applied[t] \cup {i \in applied[t] : ops[t][i].path \in D}
      BY <1>0
    <3> QED BY <2>1, <3>1 DEF Authorized
  <2>4. applied[t] # {} => base(t).root /\ base(t).prog.phase \in {"publishing", "committed"}
    BY <2>0, <2>1 DEF Authorized, Trails, Rooted
  <2> HIDE DEF base
  <2>5. \A pay : LET k == [base(t) EXCEPT !.pay = pay]
                 IN  k.prog = base(t).prog /\ k.root = base(t).root
    BY <2>1 DEF Journal
  <2>6. jn'[t] = NoJournal \/ (jn'[t].prog = base(t).prog /\ jn'[t].root)
    BY <2>2, <2>5
  <2>7. Rooted(jn'[t]) /\ (jn'[t].prog # NoProgress => jn'[t].root)
    BY <2>0, <2>6 DEF Rooted
  <2>8. applied[t] # {} => jn'[t].prog.phase \in {"publishing", "committed"}
    BY <2>2, <2>4, <2>5
  <2> QED BY <2>3, <2>7, <2>8 DEF Authorized
<1>3. JournalsTrail'
  BY <1>1, <1>2 DEF JournalsTrail, Trails, Rooted
<1>4. EffectsAuthorizedTwice'
  BY <1>1, <1>2 DEF EffectsAuthorizedTwice
<1> QED BY <1>3, <1>4 DEF Durable

LEMMA EditDurable ==
    ASSUME Durable, Custody', NEW p \in Path, NEW c \in Content \cup {Missing}, Edit(p, c)
    PROVE  Durable'
<1>1. disk \in [dest : [Path -> Fingerprint], jn : [TxId -> Journal], applied : [TxId -> SUBSET (1 .. MaxOps)]]
  BY DurableFacts DEF Custody, Shape, Files
<1>2. disk'.jn = disk.jn /\ UNCHANGED <<jn, applied, drv>>
  BY <1>1 DEF Edit
<1>3. ASSUME NEW t \in TxId
      PROVE  disk'.applied[t] = disk.applied[t] \cup {i \in applied[t] : ops[t][i].path = p}
  BY <1>1, <1>3 DEF Edit
<1>4. JournalsTrail'
  BY <1>2 DEF Durable, JournalsTrail
<1>5. ASSUME NEW t \in TxId PROVE Authorized(jn'[t], disk'.jn[t], applied'[t], disk'.applied[t])
  <2>1. Authorized(jn[t], disk.jn[t], applied[t], disk.applied[t])
    BY DurableFacts
  <2> QED BY <1>2, <1>3, <2>1 DEF Authorized
<1> QED BY <1>4, <1>5 DEF Durable, EffectsAuthorizedTwice

LEMMA InitDurable == Init => Durable
<1> SUFFICES ASSUME Init PROVE Durable
  OBVIOUS
<1>1. NoJournal.prog = NoProgress /\ NoJournal.next = NoProgress /\ NoJournal.root = FALSE
  BY DEF NoJournal
<1>2. ASSUME NEW t \in TxId PROVE jn[t] = NoJournal /\ disk.jn[t] = NoJournal /\ applied[t] = {} /\ disk.applied[t] = {}
  BY DEF Init
<1>3. JournalsTrail /\ EffectsAuthorizedTwice
  BY <1>1, <1>2 DEF JournalsTrail, EffectsAuthorizedTwice, Trails, Rooted, Authorized
<1> QED BY <1>3, InitCustody DEF Durable

LEMMA StepDurable ==
    ASSUME Durable, Custody', NEW w \in Worker, Step(w)
    PROVE  Durable'
<1>1. CASE jn' = jn /\ Quietly(w)
  BY <1>1, SameJournals, QuietDurable
<1>2. Quietly(w) \/ Sync(w) \/ Apply(w)
  BY StepsQuietly DEF Step, Publish
<1>3. \/ jn' = jn \/ UnmarkNext(w) \/ UnmarkDirectory(w) \/ (\E t \in TxId : Begin(w, t)) \/ RenameNext(w)
      \/ ClearNext(w) \/ WriteNext(w) \/ MakeStaging(w) \/ Stage(w) \/ FillPayload(w)
      \/ WriteManifest(w) \/ FillManifest(w) \/ CleanupStep(w) \/ Apply(w)
  <2>1. CASE \/ (\E t \in TxId : ReconcileUnmarked(w, t)) \/ ReconcileDone(w) \/ Inspect(w)
             \/ Prepare(w) \/ Authorize(w) \/ CheckPublishable(w) \/ Commit(w)
    BY <2>1 DEF ReconcileUnmarked, ReconcileDone, Inspect, Prepare, Authorize, CheckPublishable, Commit
  <2>2. CASE Observe(w) \/ Decide(w) \/ Recheck(w) \/ Verify(w)
    BY <2>2 DEF Observe, Decide, Recheck, Verify
  <2>3. CASE Sync(w) \/ Finish(w) \/ CleanupUnmarked(w) \/ Classify(w)
    BY <2>3 DEF Sync, Finish, CleanupUnmarked, Classify
  <2> QED BY <2>1, <2>2, <2>3
      DEF Step, Preflight, PersistProgress, DriveExecution, Publish, DriveRecovery, Conclude
<1>4. Shape'
  BY DEF Custody
<1> QED BY <1>1, <1>2, <1>3, <1>4, UnmarkQuiet, BeginDurable, RenameNextDurable, JournalActionQuiet,
        ApplyDurable, SyncDurable

\* Without crashes and faults a driver always gets to its synchronisation.
LEMMA NextDurable ==
    ASSUME ~RecoverLive, MaxCrash = 0, MaxFault = 0, Durable, [Next]_vars
    PROVE  Durable'
<1>0. Custody' /\ budget.crash = 0 /\ budget.fault = 0
  BY NextCustody DEF Durable, Custody, Shape, Files
<1>1. CASE UNCHANGED vars
  BY <1>0, <1>1 DEF vars, Durable, JournalsTrail, EffectsAuthorizedTwice
<1>2. ASSUME NEW w \in Worker, Step(w) PROVE Durable'
  BY <1>0, <1>2, StepDurable
<1>3. ASSUME NEW w \in Worker, Call(w) PROVE Durable'
  <2>1. Quietly(w) /\ jn' = jn
    BY <1>3, StepsQuietly DEF Call, Submit, Recover
  <2> QED BY <1>0, <2>1, SameJournals, QuietDurable
<1>4. CASE Environment
  <2>1. \A w \in Worker : ~Crash(w) /\ ~Fault(w)
    BY <1>0 DEF Crash, Fault
  <2> QED BY <1>0, <1>4, <2>1, PowerLossDurable, EditDurable DEF Environment
<1> QED BY <1>1, <1>2, <1>3, <1>4 DEF Next

\* Roll-forward is durably authorised before the first destination changes.  For
\* any number of racing drivers, recoveries, edits and power losses a
\* transaction with an effect left owns a durable progress document that says
\* "publishing" or "committed".  Nobody recovers what is still driven, and no
\* process dies or fails between a rename and its synchronisation: the next one
\* would publish under a document the disk does not have (persistProgress).
THEOREM PublicationIsDurable ==
    ASSUME ~RecoverLive, MaxCrash = 0, MaxFault = 0
    PROVE  Spec => []DurablyAuthorized
<1>1. Init => Durable
  BY InitDurable
<1>2. Durable /\ [Next]_vars => Durable'
  BY NextDurable
<1>3. Durable => DurablyAuthorized
  BY DurableFacts DEF DurablyAuthorized, Authorized
<1> QED BY <1>1, <1>2, <1>3, PTL DEF Spec

-----------------------------------------------------------------------------
(* What the disk holds is what a driver already saw: one process at a time,*)
(* any number of power losses.                                             *)

\* Payloads live in staging, and an operation that took effect has none left.
Stored(j, eff) ==
    /\ ~j.staging => j.pay = NoPayloads
    /\ \A i \in eff : j.pay[i] = "missing"

\* A directory without marker, staging and manifest.
Bare(j) == j.prog = NoProgress /\ ~j.staging /\ j.pay = NoPayloads /\ j.man = "missing"

Fresh == [NoJournal EXCEPT !.root = TRUE]

\* The journal j that a driver d sees is ahead of the durable one, k, by the one
\* change it synchronises next; between two changes they are the same.
Lag(d, j, k) ==
    /\ d.sync = "transactions" => d.pc = "clear" /\ j = Fresh /\ k = NoJournal
    /\ d.sync # "transactions" => j.root /\ k.root
    /\ d.sync = "root" /\ j.staging => j.pay = k.pay
    /\ d.sync = "staging" => k = [j EXCEPT !.pay = k.pay]
    /\ d.sync = "parent" => j = [k EXCEPT !.pay[d.idx] = "missing"]
    /\ d.sync = "none" =>
          /\ d.pc = "rename" => k = [j EXCEPT !.next = NoProgress] /\ j.next = d.mem
          /\ d.pc = "fill" => k = [j EXCEPT !.pay = k.pay] /\ j.pay[d.idx] = "torn"
          /\ d.pc = "fillManifest" => k = [j EXCEPT !.man = k.man]
          /\ d.pc \notin {"rename", "fill", "fillManifest", "cleanup"} => j = k
    /\ d.sync # "none" => d.pc \notin {"rename", "fill", "fillManifest"}
    /\ d.pc = "write" => j.next = NoProgress
    /\ d.pc \in Failing => Marked(j)

\* Preflight removes the residue of t.
Unmarks(d, t, j, k) ==
    /\ d.tgt = t /\ d.tx = NoTx
    /\ Bare(j) /\ Bare(k) /\ k.root
    /\ \/ d.pc = "unDir" /\ d.sync = "none" /\ j.root
       \/ d.pc = "pre" /\ d.sync = "transactions" /\ j = NoJournal

\* The operation a driver d of the manifest o published last is not durable yet.
InFlight(d, o, dst, ddst, eff, deff) ==
    /\ d.idx \notin deff /\ eff = deff \cup {d.idx}
    /\ ddst[o[d.idx].path] = o[d.idx].expected
    /\ dst = [ddst EXCEPT ![o[d.idx].path] = o[d.idx].result]

AllStored ==
    \A t \in TxId : Stored(jn[t], applied[t]) /\ Stored(disk.jn[t], disk.applied[t])

SoundDisk == \A t \in TxId : Sound(disk.jn[t], ops[t], disk.dest, disk.applied[t])

JournalsLag ==
    /\ \A w \in Worker : drv[w].tx \in TxId => Lag(drv[w], jn[drv[w].tx], disk.jn[drv[w].tx])
    /\ \A t \in TxId : (\A w \in Worker : drv[w].tx # t) =>
          \/ jn[t] = disk.jn[t]
          \/ \E w \in Worker : Unmarks(drv[w], t, jn[t], disk.jn[t])

\* What preflight removes is residue.
RemovesResidue ==
    \A w \in Worker : drv[w].pc \in {"unNext", "unDir"} =>
        /\ drv[w].tx = NoTx /\ drv[w].sync = "none"
        /\ jn[drv[w].tgt].root /\ Bare(jn[drv[w].tgt])
        /\ drv[w].pc = "unDir" => jn[drv[w].tgt].next = NoProgress

EffectsLag ==
    /\ (\A w \in Worker : drv[w].sync # "parent") => disk.dest = dest /\ disk.applied = applied
    /\ \A w \in Worker : drv[w].sync = "parent" =>
          LET t == drv[w].tx
          IN  /\ InFlight(drv[w], ops[t], dest, disk.dest, applied[t], disk.applied[t])
              /\ \A u \in TxId : u # t => disk.applied[u] = applied[u]

\* A transaction busy on the disk: no other one is busy, here or there.
BusyAlone ==
    \A t, u \in TxId : Busy(disk.jn[t]) /\ (Busy(jn[u]) \/ Busy(disk.jn[u])) => t = u

Synced == AllStored /\ SoundDisk /\ JournalsLag /\ RemovesResidue /\ EffectsLag /\ BusyAlone

Steady == Atomic /\ Synced

LEMMA SteadyFacts ==
    ASSUME Steady
    PROVE  /\ Atomic /\ Custody /\ SoleDriver /\ Shape
           /\ drv \in [Worker -> Driver] /\ jn \in [TxId -> Journal] /\ disk.jn \in [TxId -> Journal]
           /\ ops \in [TxId -> Manifest] /\ dest \in [Path -> Fingerprint]
           /\ disk.dest \in [Path -> Fingerprint]
           /\ applied \in [TxId -> SUBSET (1 .. MaxOps)] /\ disk.applied \in [TxId -> SUBSET (1 .. MaxOps)]
           /\ disk \in [dest : [Path -> Fingerprint], jn : [TxId -> Journal],
                        applied : [TxId -> SUBSET (1 .. MaxOps)]]
           /\ \A t \in TxId : Sound(jn[t], ops[t], dest, applied[t])
BY AtomicFacts DEF Steady, Atomic, Custody, Shape, Files

\* Everything reached the disk.
Flushed ==
    /\ \A t \in TxId : jn[t] = disk.jn[t]
    /\ dest = disk.dest /\ applied = disk.applied

\* Where a driver that waits for nothing may be ahead of the disk.
Ahead == {"unDir", "rename", "fill", "fillManifest", "cleanup"}

LEMMA UsuallyFlushed ==
    ASSUME Steady, OneWorker, NEW w \in Worker, drv[w].sync = "none", drv[w].pc \notin Ahead
    PROVE  Flushed
<1>0. \A u \in Worker : u = w
  BY DEF OneWorker
<1>1. dest = disk.dest /\ applied = disk.applied
  BY <1>0 DEF Steady, Synced, EffectsLag
<1>2. ASSUME NEW t \in TxId PROVE jn[t] = disk.jn[t]
  <2>1. CASE drv[w].tx = t
    <3>1. Lag(drv[w], jn[t], disk.jn[t])
      BY <2>1 DEF Steady, Synced, JournalsLag
    <3> QED BY <3>1 DEF Lag, Ahead
  <2>2. CASE drv[w].tx # t
    <3>1. ~\E u \in Worker : Unmarks(drv[u], t, jn[t], disk.jn[t])
      BY <1>0 DEF Unmarks, Ahead
    <3> QED BY <1>0, <2>2, <3>1 DEF Steady, Synced, JournalsLag
  <2> QED BY <2>1, <2>2
<1> QED BY <1>1, <1>2 DEF Flushed

\* A state where everything reached the disk is steady.
LEMMA FlushedSteady ==
    ASSUME Atomic', Flushed', RemovesResidue',
           \A t \in TxId : Stored(jn'[t], applied'[t]),
           \A w \in Worker : /\ drv'[w].sync # "parent"
                             /\ drv'[w].tx \in TxId => Lag(drv'[w], jn'[drv'[w].tx], jn'[drv'[w].tx])
    PROVE  Steady'
<1>1. AllStored'
  BY DEF AllStored, Flushed
<1>2. SoundDisk'
  BY DEF SoundDisk, Flushed, Atomic, SoundJournals
<1>3. JournalsLag'
  BY DEF JournalsLag, Flushed
<1>4. EffectsLag'
  BY DEF EffectsLag, Flushed
<1>5. BusyAlone'
  BY DEF BusyAlone, Flushed, Atomic, OneBusy
<1> QED BY <1>1, <1>2, <1>3, <1>4, <1>5 DEF Steady, Synced

\* From such a state only the driver moves.
LEMMA FlushedMove ==
    ASSUME Steady, OneWorker, Atomic', NEW w \in Worker, drv[w].sync = "none", drv[w].pc \notin Ahead,
           NEW d, drv' = [drv EXCEPT ![w] = d], UNCHANGED <<jn, disk, dest, applied>>,
           d.sync \in {"none", "root"}, d.pc \notin {"rename", "fill", "fillManifest", "unNext", "unDir"},
           d.tx \in TxId => /\ jn[d.tx].root
                            /\ d.pc = "write" => jn[d.tx].next = NoProgress
                            /\ d.pc \in Failing => Marked(jn[d.tx])
    PROVE  Steady'
<1>0. \A u \in Worker : drv'[u] = d
  BY SteadyFacts DEF OneWorker
<1>1. Flushed'
  BY UsuallyFlushed DEF Flushed
<1>2. RemovesResidue'
  BY <1>0 DEF RemovesResidue
<1>3. \A t \in TxId : Stored(jn'[t], applied'[t])
  BY DEF Steady, Synced, AllStored
<1>4. ASSUME NEW u \in Worker
      PROVE  /\ drv'[u].sync # "parent"
             /\ drv'[u].tx \in TxId => Lag(drv'[u], jn'[drv'[u].tx], jn'[drv'[u].tx])
  BY <1>0, <1>4 DEF Lag
<1> QED BY <1>1, <1>2, <1>3, <1>4, FlushedSteady

LEMMA FlushedIdle ==
    ASSUME Steady, OneWorker, Atomic', NEW w \in Worker, drv[w].sync = "none", drv[w].pc \notin Ahead,
           drv' = [drv EXCEPT ![w] = Idle], UNCHANGED <<jn, disk, dest, applied>>
    PROVE  Steady'
<1>1. Idle.tx = NoTx /\ Idle.sync = "none" /\ Idle.pc = "idle"
  BY DEF Idle
<1> QED BY <1>1, FlushedMove, InstanceAssumption

\* A driver stays with its transaction.
LEMMA OwnLag ==
    ASSUME Steady, NEW w \in Worker, drv[w].tx \in TxId
    PROVE  Lag(drv[w], jn[drv[w].tx], disk.jn[drv[w].tx]) /\ drv[w].pc \notin {"unNext", "unDir"}
BY InstanceAssumption DEF Steady, Synced, JournalsLag, RemovesResidue

LEMMA FlushedOwn ==
    ASSUME Steady, OneWorker, Atomic', NEW w \in Worker, drv[w].sync = "none", drv[w].pc \notin Ahead,
           drv[w].tx \in TxId, NEW d, drv' = [drv EXCEPT ![w] = d], UNCHANGED <<jn, disk, dest, applied>>,
           d.tx = drv[w].tx, d.sync \in {"none", "root"},
           d.pc \notin {"rename", "write", "fill", "fillManifest", "unNext", "unDir"},
           d.pc \in Failing => Marked(jn[d.tx])
    PROVE  Steady'
<1>1. jn[d.tx].root
  BY OwnLag DEF Lag
<1> QED BY <1>1, FlushedMove

LEMMA FlushedFail ==
    ASSUME Steady, OneWorker, Atomic', NEW w \in Worker, drv[w].sync = "none", drv[w].pc \in Settled,
           drv[w].pc \notin Ahead, NEW why, Fail(w, why), UNCHANGED <<jn, disk, dest, applied>>
    PROVE  Steady'
<1> DEFINE d == [drv[w] EXCEPT !.pc = "failed", !.why = why, !.sync = "none"]
<1>1. drv' = [drv EXCEPT ![w] = d] /\ drv[w] \in Driver
  BY SteadyFacts DEF Fail
<1>2. d.tx = drv[w].tx /\ d.pc = "failed" /\ d.sync = "none"
  BY <1>1 DEF Driver
<1> HIDE DEF d
<1>3. drv[w].tx \in TxId /\ jn[drv[w].tx].prog \in Progress
  BY SteadyFacts, SettledKnows
<1>4. Marked(jn[drv[w].tx])
  BY <1>3, ProgressFacts DEF Marked
<1> QED BY <1>1, <1>2, <1>3, <1>4, FlushedOwn

LEMMA FlushedGoto ==
    ASSUME Steady, OneWorker, Atomic', NEW w \in Worker, drv[w].sync = "none", drv[w].pc \notin Ahead,
           NEW pc, Goto(w, pc), UNCHANGED <<jn, disk, dest, applied>>, drv[w].tx \in TxId,
           pc \notin {"rename", "write", "fill", "fillManifest", "unNext", "unDir"} \cup Failing
    PROVE  Steady'
<1> DEFINE d == [drv[w] EXCEPT !.pc = pc]
<1>1. drv' = [drv EXCEPT ![w] = d] /\ drv[w] \in Driver
  BY SteadyFacts DEF Goto
<1>2. d.tx = drv[w].tx /\ d.pc = pc /\ d.sync = "none"
  BY <1>1 DEF Driver
<1> HIDE DEF d
<1> QED BY <1>1, <1>2, FlushedOwn

LEMMA FlushedPersist ==
    ASSUME Steady, OneWorker, Atomic', NEW w \in Worker, drv[w].sync = "none", drv[w].pc \notin Ahead,
           NEW prog, NEW back, Persist(w, prog, back), UNCHANGED <<jn, disk, dest, applied>>, drv[w].tx \in TxId
    PROVE  Steady'
<1> DEFINE d == [drv[w] EXCEPT !.pc = "clear", !.mem = prog, !.back = back]
<1>1. drv' = [drv EXCEPT ![w] = d] /\ drv[w] \in Driver
  BY SteadyFacts DEF Persist
<1>2. d.tx = drv[w].tx /\ d.pc = "clear" /\ d.sync = "none"
  BY <1>1 DEF Driver
<1> HIDE DEF d
<1> QED BY <1>1, <1>2, FlushedOwn DEF Failing

-----------------------------------------------------------------------------
(* Steps of a driver that is even with the disk.                           *)

LEMMA EvenOwner ==
    ASSUME Steady, NEW w \in Worker,
           drv[w].pc \in {"precheck", "authorize", "publish", "verify", "decide", "recheck"}
    PROVE  /\ drv[w].pc \in Settled /\ drv[w].pc \notin Ahead /\ drv[w].tx \in TxId
           /\ drv \in [Worker -> Driver] /\ drv[w] \in Driver
<1>1. drv[w].pc \in Settled /\ drv[w].pc \notin Ahead
  BY DEF Settled, Ahead
<1> QED BY <1>1, SteadyFacts, SettledKnows

LEMMA PrepareSteady ==
    ASSUME Steady, OneWorker, Atomic', NEW w \in Worker, Prepare(w) \/ CheckPublishable(w) \/ Commit(w)
    PROVE  Steady'
<1>1. /\ drv[w].sync = "none" /\ drv[w].pc \in {"precheck", "publish"}
      /\ UNCHANGED <<jn, disk, dest, applied>>
  BY DEF Prepare, CheckPublishable, Commit, At
<1>2. /\ drv[w].pc \in Settled /\ drv[w].pc \notin Ahead /\ drv[w].tx \in TxId
  BY <1>1, EvenOwner
<1>3. (\E prog, back : Persist(w, prog, back)) \/ Goto(w, "apply") \/ (\E why : Fail(w, why))
  BY DEF Prepare, CheckPublishable, Commit
<1>4. "apply" \notin {"rename", "write", "fill", "fillManifest", "unNext", "unDir"} \cup Failing
  BY DEF Failing
<1> QED BY <1>1, <1>2, <1>3, <1>4, FlushedPersist, FlushedGoto, FlushedFail

LEMMA RecheckSteady ==
    ASSUME Steady, OneWorker, Atomic', NEW w \in Worker, Recheck(w)
    PROVE  Steady'
<1>1. drv[w].sync = "none" /\ drv[w].pc = "recheck" /\ UNCHANGED <<jn, disk, dest, applied>>
  BY DEF Recheck, At
<1>2. /\ drv[w].pc \in Settled /\ drv[w].pc \notin Ahead /\ drv[w].tx \in TxId
  BY <1>1, EvenOwner
<1>3. (\E prog, back : Persist(w, prog, back)) \/ Goto(w, "apply") \/ (\E why : Fail(w, why))
  BY DEF Recheck
<1>4. "apply" \notin {"rename", "write", "fill", "fillManifest", "unNext", "unDir"} \cup Failing
  BY DEF Failing
<1> QED BY <1>1, <1>2, <1>3, <1>4, FlushedPersist, FlushedGoto, FlushedFail

LEMMA AuthorizeSteady ==
    ASSUME Steady, OneWorker, Atomic', NEW w \in Worker, Authorize(w)
    PROVE  Steady'
<1> DEFINE prog == [drv[w].mem EXCEPT !.phase = "publishing"]
           d == [drv[w] EXCEPT !.pc = "clear", !.idx = 1, !.back = "publish", !.mem = prog]
<1>1. drv[w].sync = "none" /\ drv[w].pc = "authorize" /\ UNCHANGED <<jn, disk, dest, applied>>
  BY DEF Authorize, At
<1>2. /\ drv[w].pc \in Settled /\ drv[w].pc \notin Ahead /\ drv[w].tx \in TxId
      /\ drv \in [Worker -> Driver] /\ drv[w] \in Driver
  BY <1>1, EvenOwner
<1>3. CASE drv' = [drv EXCEPT ![w].pc = "clear", ![w].idx = 1, ![w].back = "publish", ![w].mem = prog]
  <2>1. drv' = [drv EXCEPT ![w] = d]
    BY <1>2, <1>3
  <2>2. d.tx = drv[w].tx /\ d.pc = "clear" /\ d.sync = "none"
    BY <1>1, <1>2 DEF Driver
  <2> HIDE DEF d, prog
  <2> QED BY <1>1, <1>2, <2>1, <2>2, FlushedOwn DEF Failing
<1> QED BY <1>1, <1>2, <1>3, FlushedFail DEF Authorize

LEMMA VerifySteady ==
    ASSUME Steady, OneWorker, Atomic', NEW w \in Worker, Verify(w)
    PROVE  Steady'
<1> DEFINE prog == [drv[w].mem EXCEPT !.published = @ + 1]
           back == IF drv[w].mode = "exec" THEN "publish" ELSE "decide"
           d == [drv[w] EXCEPT !.pc = "clear", !.idx = drv[w].idx + 1, !.mem = prog, !.back = back]
<1>1. drv[w].sync = "none" /\ drv[w].pc = "verify" /\ UNCHANGED <<jn, disk, dest, applied>>
  BY DEF Verify, At
<1>2. /\ drv[w].pc \in Settled /\ drv[w].pc \notin Ahead /\ drv[w].tx \in TxId
      /\ drv \in [Worker -> Driver] /\ drv[w] \in Driver
  BY <1>1, EvenOwner
<1>3. CASE drv' = [drv EXCEPT ![w].pc = "clear", ![w].idx = drv[w].idx + 1, ![w].mem = prog,
                              ![w].back = back]
  <2> HIDE DEF prog, back
  <2>1. drv' = [drv EXCEPT ![w] = d]
    BY <1>2, <1>3
  <2>2. d.tx = drv[w].tx /\ d.pc = "clear" /\ d.sync = "none"
    BY <1>1, <1>2 DEF Driver
  <2> HIDE DEF d
  <2> QED BY <1>1, <1>2, <2>1, <2>2, FlushedOwn DEF Failing
<1> QED BY <1>1, <1>2, <1>3, FlushedFail DEF Verify

LEMMA DecideSteady ==
    ASSUME Steady, OneWorker, Atomic', NEW w \in Worker, Decide(w)
    PROVE  Steady'
<1>1. drv[w].sync = "none" /\ drv[w].pc = "decide" /\ UNCHANGED <<jn, disk, dest, applied>>
  BY DEF Decide, At
<1>2. /\ drv[w].pc \in Settled /\ drv[w].pc \notin Ahead /\ drv[w].tx \in TxId
      /\ drv \in [Worker -> Driver] /\ drv[w] \in Driver
  BY <1>1, EvenOwner
<1>3. \/ \E prog, back : Persist(w, prog, back)
      \/ \E idx : drv' = [drv EXCEPT ![w].pc = "recheck", ![w].idx = idx]
      \/ \E pc \in {"cleanup", "finish"} : \E back : drv' = [drv EXCEPT ![w].pc = pc, ![w].back = back]
      \/ Fail(w, "state_corrupt")
  BY DEF Decide
<1>4. ASSUME NEW idx, drv' = [drv EXCEPT ![w].pc = "recheck", ![w].idx = idx] PROVE Steady'
  <2> DEFINE d == [drv[w] EXCEPT !.pc = "recheck", !.idx = idx]
  <2>1. drv' = [drv EXCEPT ![w] = d]
    BY <1>2, <1>4
  <2>2. d.tx = drv[w].tx /\ d.pc = "recheck" /\ d.sync = "none"
    BY <1>1, <1>2 DEF Driver
  <2> HIDE DEF d
  <2> QED BY <1>1, <1>2, <2>1, <2>2, FlushedOwn DEF Failing
<1>5. ASSUME NEW pc \in {"cleanup", "finish"}, NEW back, drv' = [drv EXCEPT ![w].pc = pc, ![w].back = back]
      PROVE  Steady'
  <2> DEFINE d == [drv[w] EXCEPT !.pc = pc, !.back = back]
  <2>1. drv' = [drv EXCEPT ![w] = d]
    BY <1>2, <1>5
  <2>2. d.tx = drv[w].tx /\ d.pc = pc /\ d.sync = "none"
    BY <1>1, <1>2 DEF Driver
  <2> HIDE DEF d
  <2> QED BY <1>1, <1>2, <2>1, <2>2, FlushedOwn DEF Failing
<1>6. CASE \E prog, back : Persist(w, prog, back)
  BY <1>1, <1>2, <1>6, FlushedPersist
<1> QED BY <1>1, <1>2, <1>3, <1>4, <1>5, <1>6, FlushedFail

\* A call returns or answers a failure: the journal has its marker.
LEMMA ConcludeSteady ==
    ASSUME Steady, OneWorker, Atomic', NEW w \in Worker, Finish(w) \/ Classify(w) \/ CleanupUnmarked(w)
    PROVE  Steady'
<1> DEFINE d == [drv[w] EXCEPT !.pc = "finish", !.mem = Mine(w).prog, !.sync = "root"]
<1>1. /\ drv[w].sync = "none" /\ drv[w].pc \in {"finish"} \cup Failing /\ UNCHANGED <<jn, disk, dest, applied>>
      /\ drv \in [Worker -> Driver] /\ drv[w] \in Driver
  BY SteadyFacts DEF Finish, Classify, CleanupUnmarked, At, Failing
<1>2. drv[w].pc \notin Ahead
  BY <1>1 DEF Ahead, Failing
<1>3. drv[w].tx \in TxId
  BY <1>1, OwnRegisters, SteadyFacts DEF DriverShape, Owning, Settled
<1>4. ~CleanupUnmarked(w)
  <2>1. drv[w].pc \in Failing => Marked(jn[drv[w].tx])
    BY <1>3, OwnLag DEF Lag
  <2> QED BY <2>1 DEF CleanupUnmarked, At, Failing, RemovesOwnDirectory, Mine
<1>5. drv' = [drv EXCEPT ![w] = Idle] \/ drv' = [drv EXCEPT ![w] = d]
  BY <1>1, <1>4 DEF Finish, Classify, Return
<1>6. d.tx = drv[w].tx /\ d.pc = "finish" /\ d.sync = "root"
  BY <1>1 DEF Driver
<1> HIDE DEF d
<1>7. CASE drv' = [drv EXCEPT ![w] = d]
  BY <1>1, <1>2, <1>3, <1>6, <1>7, FlushedOwn DEF Failing
<1> QED BY <1>1, <1>2, <1>5, <1>7, FlushedIdle

LEMMA CallSteady ==
    ASSUME Steady, OneWorker, Atomic', NEW w \in Worker, Call(w)
    PROVE  Steady'
<1>1. /\ drv[w].sync = "none" /\ drv[w].pc = "idle" /\ UNCHANGED <<jn, disk, dest, applied>>
      /\ drv \in [Worker -> Driver]
  BY SteadyFacts DEF Call, Submit, Recover, At
<1>2. drv[w].pc \notin Ahead /\ drv[w].tx = NoTx
  BY <1>1, OwnRegisters, SteadyFacts DEF Ahead, DriverShape
<1>3. ASSUME NEW plan, drv' = [drv EXCEPT ![w] = [Idle EXCEPT !.pc = "pre", !.plan = plan, !.back = "observe"]]
      PROVE  Steady'
  <2> DEFINE d == [Idle EXCEPT !.pc = "pre", !.plan = plan, !.back = "observe"]
  <2>1. d.tx = NoTx /\ d.pc = "pre" /\ d.sync = "none"
    BY DEF Idle
  <2> HIDE DEF d
  <2> QED BY <1>1, <1>2, <1>3, <2>1, FlushedMove, InstanceAssumption DEF d
<1>4. ASSUME NEW t \in TxId, NEW token \in BOOLEAN, Marked(jn[t]), drv' = [drv EXCEPT ![w] = RecoveryDriver(t, token)]
      PROVE  Steady'
  <2> DEFINE d == RecoveryDriver(t, token)
  <2>1. d.tx = t /\ d.sync = "none" /\ d.pc \in {"decide", "cleanup", "clear"}
    BY DEF RecoveryDriver, Idle
  <2> HIDE DEF d
  <2>2. jn[t].root
    <3>1. NoJournal.prog = NoProgress
      BY DEF NoJournal
    <3> QED BY <1>4, <3>1, SteadyFacts DEF Sound, Marked
  <2> QED BY <1>1, <1>2, <1>4, <2>1, <2>2, FlushedMove DEF d, Failing
<1>5. CASE drv' = drv
  <2>1. drv' = [drv EXCEPT ![w] = drv[w]]
    BY <1>1, <1>5
  <2> QED BY <1>1, <1>2, <2>1, FlushedMove, InstanceAssumption
<1> QED BY <1>3, <1>4, <1>5 DEF Call, Submit, Recover

-----------------------------------------------------------------------------
(* Preflight.                                                              *)

LEMMA PreflightSteady ==
    ASSUME Steady, OneWorker, Atomic', NEW w \in Worker, ReconcileDone(w) \/ Inspect(w) \/ Observe(w)
    PROVE  Steady'
<1>1. /\ drv[w].sync = "none" /\ drv[w].pc \in {"pre", "inspect", "observe"} /\ UNCHANGED <<jn, disk, dest, applied>>
      /\ drv \in [Worker -> Driver] /\ drv[w] \in Driver
  BY SteadyFacts DEF ReconcileDone, Inspect, Observe, At
<1>2. drv[w].pc \notin Ahead /\ drv[w].tx = NoTx
  BY <1>1, OwnRegisters, SteadyFacts DEF Ahead, DriverShape
<1>3. ASSUME NEW pc \in {"inspect", "observe", "begin"}, Goto(w, pc) PROVE Steady'
  <2> DEFINE d == [drv[w] EXCEPT !.pc = pc]
  <2>1. drv' = [drv EXCEPT ![w] = d] /\ d.tx = NoTx /\ d.pc = pc /\ d.sync = "none"
    BY <1>1, <1>2, <1>3 DEF Goto, Driver
  <2> HIDE DEF d
  <2> QED BY <1>1, <1>2, <2>1, FlushedMove, InstanceAssumption
<1>4. CASE ReconcileDone(w)
  BY <1>3, <1>4 DEF ReconcileDone
<1>5. CASE Inspect(w)
  <2>1. drv[w].back \in {"observe", "begin"}
    BY <1>5, OwnRegisters, SteadyFacts DEF DriverShape, Inspect, At
  <2>2. drv' = [drv EXCEPT ![w] = Idle] \/ Goto(w, drv[w].back)
    BY <1>5 DEF Inspect, Return
  <2> QED BY <1>1, <1>2, <1>3, <2>1, <2>2, FlushedIdle
<1>6. CASE Observe(w)
  <2> DEFINE o == Normalize(drv[w].plan.effects, dest).ops
             d == [drv[w] EXCEPT !.ops = o, !.pc = "pre", !.back = "begin"]
  <2>1. \/ drv' = [drv EXCEPT ![w] = Idle]
        \/ drv' = [drv EXCEPT ![w].ops = o, ![w].pc = "pre", ![w].back = "begin"]
    BY <1>6 DEF Observe, Return
  <2> HIDE DEF o
  <2>2. drv' = [drv EXCEPT ![w] = Idle] \/ drv' = [drv EXCEPT ![w] = d]
    BY <1>1, <2>1
  <2>3. d.tx = NoTx /\ d.pc = "pre" /\ d.sync = "none"
    BY <1>1, <1>2 DEF Driver
  <2> HIDE DEF d
  <2> QED BY <1>1, <1>2, <2>2, <2>3, FlushedMove, FlushedIdle, InstanceAssumption
<1> QED BY <1>4, <1>5, <1>6

\* A directory without progress.json holds nothing: its payloads went with staging.
LEMMA ReconcileSteady ==
    ASSUME Steady, OneWorker, Atomic', NEW w \in Worker, NEW t \in TxId, ReconcileUnmarked(w, t)
    PROVE  Steady'
<1> DEFINE pc == IF jn[t].next # NoProgress THEN "unNext" ELSE "unDir"
           d == [drv[w] EXCEPT !.tgt = t, !.pc = pc]
<1>1. /\ drv[w].sync = "none" /\ drv[w].pc = "pre" /\ UNCHANGED <<jn, disk, dest, applied>>
      /\ drv \in [Worker -> Driver] /\ drv[w] \in Driver /\ jn[t].root /\ ~Marked(jn[t])
  BY SteadyFacts DEF ReconcileUnmarked, At
<1>2. drv[w].pc \notin Ahead /\ drv[w].tx = NoTx
  BY <1>1, OwnRegisters, SteadyFacts DEF Ahead, DriverShape
<1>3. CASE /\ ~jn[t].staging /\ jn[t].man = "missing"
           /\ drv' = [drv EXCEPT ![w].tgt = t, ![w].pc = pc]
  <2>1. d.tx = NoTx /\ d.tgt = t /\ d.pc = pc /\ d.sync = "none"
    BY <1>1, <1>2 DEF Driver
  <2>2. \A u \in Worker : drv'[u] = d
    BY <1>1, <1>3 DEF OneWorker
  <2> HIDE DEF d
  <2>3. Bare(jn[t])
    BY <1>1, <1>3 DEF Bare, Marked, Steady, Synced, AllStored, Stored
  <2>4. Flushed'
    BY <1>1, <1>2, UsuallyFlushed DEF Flushed
  <2>5. RemovesResidue'
    BY <1>1, <2>1, <2>2, <2>3 DEF RemovesResidue
  <2>6. \A u \in TxId : Stored(jn'[u], applied'[u])
    BY <1>1 DEF Steady, Synced, AllStored
  <2>7. \A u \in Worker : drv'[u].sync # "parent" /\ drv'[u].tx \notin TxId
    BY <2>1, <2>2, InstanceAssumption
  <2> QED BY <2>4, <2>5, <2>6, <2>7, FlushedSteady
<1>4. CASE drv' = [drv EXCEPT ![w] = Idle]
  BY <1>1, <1>2, <1>4, FlushedIdle
<1> QED BY <1>3, <1>4 DEF ReconcileUnmarked, Return

LEMMA UnmarkNextSteady ==
    ASSUME Steady, OneWorker, Atomic', NEW w \in Worker, UnmarkNext(w)
    PROVE  Steady'
<1> DEFINE t == drv[w].tgt
           k == [jn[t] EXCEPT !.next = NoProgress]
           d == [drv[w] EXCEPT !.pc = "unDir"]
<1>1. /\ drv[w].sync = "none" /\ drv[w].pc = "unNext" /\ UNCHANGED <<disk, dest, ops, applied>>
      /\ drv \in [Worker -> Driver] /\ drv[w] \in Driver /\ jn \in [TxId -> Journal]
  BY SteadyFacts DEF UnmarkNext, At
<1>2. drv[w].pc \notin Ahead /\ t \in TxId /\ jn[t] \in Journal
  BY <1>1, OwnRegisters, SteadyFacts DEF Ahead, DriverShape
<1>3. drv[w].tx = NoTx /\ jn[t].root /\ Bare(jn[t])
  BY <1>1 DEF Steady, Synced, RemovesResidue
<1>4. Flushed
  BY <1>1, <1>2, UsuallyFlushed
<1>5. CASE drv' = [drv EXCEPT ![w] = Idle] /\ jn' = jn
  BY <1>1, <1>2, <1>5, FlushedIdle
<1>6. CASE jn' = [jn EXCEPT ![t].next = NoProgress] /\ Goto(w, "unDir")
  <2>1. d.tx = NoTx /\ d.tgt = t /\ d.pc = "unDir" /\ d.sync = "none"
    BY <1>1, <1>3 DEF Driver
  <2>2. \A u \in Worker : drv'[u] = d
    BY <1>1, <1>6 DEF OneWorker, Goto
  <2>3. \A u \in TxId : jn'[u] = IF u = t THEN k ELSE jn[u]
    BY <1>1, <1>2, <1>6
  <2>4. /\ k.root /\ k.prog = jn[t].prog /\ k.next = NoProgress /\ k.staging = jn[t].staging
        /\ k.pay = jn[t].pay /\ k.man = jn[t].man
    BY <1>2, <1>3 DEF Journal
  <2> HIDE DEF d, k
  <2>5. Bare(k) /\ (Busy(k) => Busy(jn[t]))
    BY <1>3, <2>4 DEF Bare, Busy, HasCleanupEntries, NoProgress, Terminal
  <2>6. AllStored'
    BY <1>1, <2>3, <2>4 DEF Steady, Synced, AllStored, Stored
  <2>7. SoundDisk'
    BY <1>1 DEF Steady, Synced, SoundDisk
  <2>8. JournalsLag'
    <3>1. Unmarks(d, t, k, jn[t])
      BY <1>3, <2>1, <2>4, <2>5 DEF Unmarks
    <3>2. \A u \in TxId : disk'.jn[u] = jn[u]
      BY <1>1, <1>4 DEF Flushed
    <3>3. \A u \in TxId : jn'[u] = disk'.jn[u] \/ Unmarks(drv'[w], u, jn'[u], disk'.jn[u])
      BY <2>2, <2>3, <3>1, <3>2
    <3>4. \A u \in Worker : drv'[u].tx \notin TxId
      BY <2>1, <2>2, InstanceAssumption
    <3> QED BY <3>3, <3>4 DEF JournalsLag
  <2>9. RemovesResidue'
    BY <1>2, <2>1, <2>2, <2>3, <2>4, <2>5 DEF RemovesResidue
  <2>10. EffectsLag'
    BY <1>1, <1>4, <2>1, <2>2 DEF EffectsLag, Flushed
  <2>11. BusyAlone'
    BY <1>1, <2>3, <2>5, <1>2 DEF Steady, Synced, BusyAlone
  <2> QED BY <2>6, <2>7, <2>8, <2>9, <2>10, <2>11 DEF Steady, Synced
<1> QED BY <1>5, <1>6 DEF UnmarkNext, Return

LEMMA UnmarkDirectorySteady ==
    ASSUME Steady, OneWorker, Atomic', NEW w \in Worker, UnmarkDirectory(w)
    PROVE  Steady'
<1> DEFINE t == drv[w].tgt
           d == [drv[w] EXCEPT !.pc = "pre", !.sync = "transactions"]
<1>1. /\ drv[w].sync = "none" /\ drv[w].pc = "unDir" /\ UNCHANGED <<disk, dest, ops, applied>>
      /\ drv \in [Worker -> Driver] /\ drv[w] \in Driver /\ jn \in [TxId -> Journal]
  BY SteadyFacts DEF UnmarkDirectory, At
<1>2. t \in TxId /\ jn[t] \in Journal
  BY <1>1, OwnRegisters, SteadyFacts DEF DriverShape
<1>3. drv[w].tx = NoTx /\ jn[t].root /\ Bare(jn[t]) /\ jn[t].next = NoProgress
  BY <1>1 DEF Steady, Synced, RemovesResidue
<1>4. [jn[t] EXCEPT !.root = FALSE] = NoJournal
  <2> DEFINE j == [jn[t] EXCEPT !.root = FALSE]
  <2>1. /\ j \in Journal /\ j.root = FALSE /\ j.prog = jn[t].prog /\ j.next = jn[t].next
        /\ j.staging = jn[t].staging /\ j.pay = jn[t].pay /\ j.man = jn[t].man
    BY <1>2 DEF Journal
  <2> HIDE DEF j
  <2>2. j = [root |-> j.root, prog |-> j.prog, next |-> j.next,
             staging |-> j.staging, pay |-> j.pay, man |-> j.man] /\ j.staging \in BOOLEAN
    BY <2>1 DEF Journal
  <2>3. j.prog = NoProgress /\ j.next = NoProgress /\ j.pay = NoPayloads /\ j.man = "missing"
    BY <1>3, <2>1 DEF Bare
  <2>4. j.staging = FALSE
    BY <1>3, <2>1, <2>2 DEF Bare
  <2>5. j = NoJournal
    BY <2>1, <2>2, <2>3, <2>4 DEF NoJournal
  <2> QED BY <2>5 DEF j
<1>5. NoTx # t
  BY <1>2, InstanceAssumption
<1>6. jn' = [jn EXCEPT ![t] = NoJournal] /\ drv' = [drv EXCEPT ![w].pc = "pre", ![w].sync = "transactions"]
  BY <1>3, <1>4, <1>5 DEF UnmarkDirectory
<1>7. d.tx = NoTx /\ d.tgt = t /\ d.pc = "pre" /\ d.sync = "transactions"
  BY <1>1, <1>3 DEF Driver
<1>8. \A u \in Worker : drv'[u] = d
  BY <1>1, <1>6 DEF OneWorker
<1>9. \A u \in TxId : jn'[u] = IF u = t THEN NoJournal ELSE jn[u]
  BY <1>1, <1>2, <1>6
<1> HIDE DEF d
<1>10. Bare(NoJournal) /\ ~NoJournal.root /\ ~Busy(NoJournal) /\ ~NoJournal.staging /\ NoJournal.pay = NoPayloads
  BY DEF Bare, NoJournal, Busy
<1>11. \A u \in TxId : jn[u] = disk.jn[u] \/ (u = t /\ Bare(disk.jn[t]) /\ disk.jn[t].root)
  <2>1. \A u \in Worker : drv[u] = drv[w]
    BY DEF OneWorker
  <2>2. \A u \in TxId : jn[u] = disk.jn[u] \/ Unmarks(drv[w], u, jn[u], disk.jn[u])
    BY <1>3, <2>1, InstanceAssumption DEF Steady, Synced, JournalsLag
  <2> QED BY <2>2 DEF Unmarks
<1>12. Bare(disk.jn[t]) /\ disk.jn[t].root
  BY <1>2, <1>3, <1>11
<1>13. AllStored'
  <2>1. Stored(NoJournal, applied[t])
    <3>1. \A i \in 1 .. MaxOps : NoPayloads[i] = "missing"
      BY DEF NoPayloads
    <3> QED BY <1>2, <1>10, <3>1, SteadyFacts DEF Stored
  <2> QED BY <1>1, <1>9, <2>1 DEF Steady, Synced, AllStored
<1>14. SoundDisk'
  BY <1>1 DEF Steady, Synced, SoundDisk
<1>15. JournalsLag'
  <2>1. Unmarks(d, t, NoJournal, disk'.jn[t])
    BY <1>1, <1>7, <1>10, <1>12 DEF Unmarks
  <2>2. \A u \in TxId : jn'[u] = disk'.jn[u] \/ Unmarks(drv'[w], u, jn'[u], disk'.jn[u])
    BY <1>1, <1>8, <1>9, <1>11, <2>1
  <2>3. \A u \in Worker : drv'[u].tx \notin TxId
    BY <1>7, <1>8, InstanceAssumption
  <2> QED BY <2>2, <2>3 DEF JournalsLag
<1>16. RemovesResidue'
  BY <1>7, <1>8 DEF RemovesResidue
<1>17. EffectsLag'
  <2>1. \A u \in Worker : drv[u].sync = "none"
    BY <1>1 DEF OneWorker
  <2> QED BY <1>1, <1>7, <1>8, <2>1 DEF Steady, Synced, EffectsLag
<1>18. BusyAlone'
  BY <1>1, <1>9, <1>10 DEF Steady, Synced, BusyAlone
<1> QED BY <1>13, <1>14, <1>15, <1>16, <1>17, <1>18 DEF Steady, Synced

-----------------------------------------------------------------------------
(* The driver changes its own journal.                                     *)

LEMMA OwnStep ==
    ASSUME Steady, OneWorker, Atomic', NEW w \in Worker, drv[w].tx \in TxId, drv[w].sync # "parent",
           NEW d, drv' = [drv EXCEPT ![w] = d], d.tx = drv[w].tx,
           d.sync # "parent", d.pc \notin {"unNext", "unDir"},
           NEW k, jn' = [jn EXCEPT ![d.tx] = k], UNCHANGED <<dest, ops, applied, disk>>,
           Stored(k, applied[d.tx]), Lag(d, k, disk.jn[d.tx])
    PROVE  Steady'
<1> DEFINE t == d.tx
<1>0. t \in TxId /\ t # NoTx /\ jn \in [TxId -> Journal] /\ drv \in [Worker -> Driver]
  BY SteadyFacts, InstanceAssumption
<1>1. \A u \in Worker : drv'[u] = d /\ drv[u] = drv[w]
  BY <1>0 DEF OneWorker
<1>2. \A u \in TxId : jn'[u] = IF u = t THEN k ELSE jn[u]
  BY <1>0
<1>3. \A u \in TxId : u # t => jn[u] = disk.jn[u]
  BY <1>0, <1>1 DEF Steady, Synced, JournalsLag, Unmarks
<1>4. AllStored'
  BY <1>2 DEF Steady, Synced, AllStored
<1>5. SoundDisk'
  BY DEF Steady, Synced, SoundDisk
<1>6. JournalsLag'
  BY <1>0, <1>1, <1>2, <1>3 DEF JournalsLag
<1>7. RemovesResidue'
  BY <1>1 DEF RemovesResidue
<1>8. EffectsLag'
  BY <1>1 DEF Steady, Synced, EffectsLag
<1>9. BusyAlone'
  <2> SUFFICES ASSUME NEW u \in TxId, NEW v \in TxId, Busy(disk.jn[u]),
                      Busy(jn'[v]) \/ Busy(disk.jn[v]), u # v
               PROVE  FALSE
    BY DEF BusyAlone
  <2>1. CASE Busy(disk.jn[v])
    BY <2>1 DEF Steady, Synced, BusyAlone
  <2>2. CASE Busy(jn'[v]) /\ v = t
    <3>1. Busy(jn'[u])
      BY <1>2, <1>3, <2>2
    <3> QED BY <2>2, <3>1 DEF Atomic, OneBusy
  <2>3. CASE Busy(jn'[v]) /\ v # t
    <3>1. Busy(disk.jn[v])
      BY <1>2, <1>3, <2>3
    <3> QED BY <3>1 DEF Steady, Synced, BusyAlone
  <2> QED BY <2>1, <2>2, <2>3
<1> QED BY <1>4, <1>5, <1>6, <1>7, <1>8, <1>9 DEF Steady, Synced

LEMMA SameJournal ==
    ASSUME NEW j \in Journal, NEW k \in Journal, j.root = k.root, j.prog = k.prog, j.next = k.next,
           j.staging = k.staging, j.pay = k.pay, j.man = k.man
    PROVE  j = k
<1>1. j = [root |-> j.root, prog |-> j.prog, next |-> j.next,
           staging |-> j.staging, pay |-> j.pay, man |-> j.man]
  BY DEF Journal
<1>2. k = [root |-> k.root, prog |-> k.prog, next |-> k.next,
           staging |-> k.staging, pay |-> k.pay, man |-> k.man]
  BY DEF Journal
<1> QED BY <1>1, <1>2

\* What a driver knows of its journal before it changes it.
LEMMA OwnJournal ==
    ASSUME Steady, NEW w \in Worker, drv[w].tx \in TxId
    PROVE  LET t == drv[w].tx
           IN  /\ drv \in [Worker -> Driver] /\ drv[w] \in Driver
               /\ jn \in [TxId -> Journal] /\ jn[t] \in Journal /\ disk.jn[t] \in Journal
               /\ Stored(jn[t], applied[t]) /\ Lag(drv[w], jn[t], disk.jn[t])
               /\ applied[t] \in SUBSET (1 .. MaxOps)
BY SteadyFacts, OwnLag DEF Steady, Synced, AllStored

LEMMA ClearNextSteady ==
    ASSUME Steady, OneWorker, Atomic', NEW w \in Worker, ClearNext(w)
    PROVE  Steady'
<1> DEFINE t == drv[w].tx
           k == [jn[t] EXCEPT !.next = NoProgress]
           d == [drv[w] EXCEPT !.pc = "write"]
           e == [drv[w] EXCEPT !.pc = "write", !.sync = "root"]
<1>1. /\ drv[w].sync = "none" /\ drv[w].pc = "clear" /\ UNCHANGED <<disk, dest, ops, applied>>
      /\ t \in TxId /\ drv[w].pc \notin Ahead
  BY PersistingKnows, SteadyFacts DEF ClearNext, At, Persisting, Ahead
<1>2. /\ drv \in [Worker -> Driver] /\ drv[w] \in Driver /\ jn \in [TxId -> Journal] /\ jn[t] \in Journal
      /\ Stored(jn[t], applied[t]) /\ Lag(drv[w], jn[t], disk.jn[t])
  BY <1>1, OwnJournal
<1>3. jn[t].root /\ disk.jn[t] = jn[t]
  BY <1>1, <1>2 DEF Lag
<1>4. CASE jn[t].next = NoProgress /\ Goto(w, "write") /\ jn' = jn
  <2>1. drv' = [drv EXCEPT ![w] = d] /\ d.tx = t /\ d.pc = "write" /\ d.sync = "none"
    BY <1>1, <1>2, <1>4 DEF Goto, Driver
  <2> HIDE DEF d
  <2> QED BY <1>1, <1>3, <1>4, <2>1, FlushedMove DEF Failing
<1>5. CASE /\ jn' = [jn EXCEPT ![t].next = NoProgress]
           /\ drv' = [drv EXCEPT ![w].pc = "write", ![w].sync = "root"]
  <2>1. /\ drv' = [drv EXCEPT ![w] = e] /\ e.tx = t /\ e.pc = "write" /\ e.sync = "root"
        /\ jn' = [jn EXCEPT ![t] = k]
    BY <1>1, <1>2, <1>5 DEF Driver
  <2>2. k.next = NoProgress /\ k.root /\ k.staging = jn[t].staging /\ k.pay = jn[t].pay
    BY <1>2, <1>3 DEF Journal
  <2> HIDE DEF e, k
  <2>3. Stored(k, applied[t])
    BY <1>2, <2>2 DEF Stored
  <2>4. Lag(e, k, disk.jn[t])
    BY <1>3, <2>1, <2>2 DEF Lag, Failing
  <2> QED BY <1>1, <2>1, <2>3, <2>4, OwnStep
<1> QED BY <1>4, <1>5 DEF ClearNext, Mine

LEMMA WriteNextSteady ==
    ASSUME Steady, OneWorker, Atomic', NEW w \in Worker, WriteNext(w)
    PROVE  Steady'
<1> DEFINE t == drv[w].tx
           k == [jn[t] EXCEPT !.next = drv[w].mem]
           b == [k EXCEPT !.next = NoProgress]
           d == [drv[w] EXCEPT !.pc = "rename"]
<1>1. /\ drv[w].sync = "none" /\ drv[w].pc = "write" /\ UNCHANGED <<disk, dest, ops, applied>>
      /\ t \in TxId /\ drv[w].mem \in Progress
  BY PersistingKnows, SteadyFacts DEF WriteNext, At, Persisting
<1>2. /\ drv \in [Worker -> Driver] /\ drv[w] \in Driver /\ jn \in [TxId -> Journal] /\ jn[t] \in Journal
      /\ Stored(jn[t], applied[t]) /\ Lag(drv[w], jn[t], disk.jn[t])
  BY <1>1, OwnJournal
<1>3. jn[t].root /\ disk.jn[t] = jn[t] /\ jn[t].next = NoProgress
  BY <1>1, <1>2 DEF Lag
<1>4. jn' = [jn EXCEPT ![t].next = drv[w].mem] /\ Goto(w, "rename")
  BY <1>3 DEF WriteNext, Mine
<1>5. /\ drv' = [drv EXCEPT ![w] = d] /\ d.tx = t /\ d.pc = "rename" /\ d.sync = "none" /\ d.mem = drv[w].mem
      /\ jn' = [jn EXCEPT ![t] = k]
  BY <1>1, <1>2, <1>4 DEF Goto, Driver
<1>6. /\ k \in Journal /\ k.next = drv[w].mem /\ k.root = jn[t].root /\ k.prog = jn[t].prog
      /\ k.staging = jn[t].staging /\ k.pay = jn[t].pay /\ k.man = jn[t].man
  BY <1>1, <1>2 DEF Journal
<1> HIDE DEF d, k
<1>7. b = jn[t]
  <2>1. /\ b \in Journal /\ b.next = NoProgress /\ b.root = k.root /\ b.prog = k.prog
        /\ b.staging = k.staging /\ b.pay = k.pay /\ b.man = k.man
    BY <1>6 DEF Journal
  <2> HIDE DEF b
  <2> QED BY <1>2, <1>3, <1>6, <2>1, SameJournal
<1>8. Stored(k, applied[t])
  BY <1>2, <1>6 DEF Stored
<1>9. Lag(d, k, disk.jn[t])
  BY <1>3, <1>5, <1>6, <1>7 DEF Lag, Failing
<1> QED BY <1>1, <1>5, <1>8, <1>9, OwnStep

LEMMA RenameNextSteady ==
    ASSUME Steady, OneWorker, Atomic', NEW w \in Worker, RenameNext(w)
    PROVE  Steady'
<1> DEFINE t == drv[w].tx
           k == [jn[t] EXCEPT !.prog = jn[t].next, !.next = NoProgress]
           d == [drv[w] EXCEPT !.pc = drv[w].back, !.sync = "root"]
<1>1. /\ drv[w].sync = "none" /\ drv[w].pc = "rename" /\ UNCHANGED <<disk, dest, ops, applied>>
      /\ t \in TxId /\ drv[w].mem \in Progress
  BY PersistingKnows, SteadyFacts DEF RenameNext, At, Persisting
<1>2. /\ drv \in [Worker -> Driver] /\ drv[w] \in Driver /\ jn \in [TxId -> Journal] /\ jn[t] \in Journal
      /\ Stored(jn[t], applied[t]) /\ Lag(drv[w], jn[t], disk.jn[t]) /\ disk.jn[t] \in Journal
  BY <1>1, OwnJournal
<1>3. drv[w].back \in {"mkStaging", "authorize", "publish", "decide", "cleanup"}
  BY <1>1, OwnRegisters, SteadyFacts DEF DriverShape, Persisting
<1>4. jn[t].root /\ disk.jn[t] = [jn[t] EXCEPT !.next = NoProgress] /\ jn[t].next = drv[w].mem
  BY <1>1, <1>2 DEF Lag
<1>5. disk.jn[t].root /\ disk.jn[t].pay = jn[t].pay
  BY <1>2, <1>4 DEF Journal
<1>6. jn[t].next # NoProgress
  BY <1>1, <1>4, ProgressFacts
<1>7. /\ jn' = [jn EXCEPT ![t].prog = jn[t].next, ![t].next = NoProgress]
      /\ drv' = [drv EXCEPT ![w].pc = drv[w].back, ![w].sync = "root"]
  BY <1>6 DEF RenameNext, ProgressSync
<1>8. /\ drv' = [drv EXCEPT ![w] = d] /\ d.tx = t /\ d.pc = drv[w].back /\ d.sync = "root"
      /\ jn' = [jn EXCEPT ![t] = k]
  BY <1>1, <1>2, <1>7 DEF Driver
<1>9. k.root = jn[t].root /\ k.staging = jn[t].staging /\ k.pay = jn[t].pay
  BY <1>2 DEF Journal
<1> HIDE DEF d, k
<1>10. Stored(k, applied[t])
  BY <1>2, <1>9 DEF Stored
<1>11. Lag(d, k, disk.jn[t])
  BY <1>3, <1>4, <1>5, <1>8, <1>9 DEF Lag, Failing
<1> QED BY <1>1, <1>3, <1>8, <1>10, <1>11, OwnStep

\* While staging is filled no operation took effect.
LEMMA StagingSteady ==
    ASSUME Steady, NEW w \in Worker,
           drv[w].pc \in {"mkStaging", "stage", "fill", "manifest", "fillManifest", "precheck"}
    PROVE  LET t == drv[w].tx
           IN  /\ t \in TxId /\ drv[w].pc \in Settled /\ applied[t] = {} /\ jn[t].root
               /\ drv \in [Worker -> Driver] /\ drv[w] \in Driver
               /\ jn \in [TxId -> Journal] /\ jn[t] \in Journal /\ disk.jn[t] \in Journal
               /\ Stored(jn[t], applied[t]) /\ Lag(drv[w], jn[t], disk.jn[t])
               /\ drv[w].idx \in Nat
<1>1. /\ drv[w].tx \in TxId /\ jn[drv[w].tx].prog.phase = "begun" /\ jn[drv[w].tx].root
      /\ Sound(jn[drv[w].tx], ops[drv[w].tx], dest, applied[drv[w].tx]) /\ drv[w].idx \in 1 .. MaxOps + 1
  BY StagingKnows, SteadyFacts
<1>2. applied[drv[w].tx] = {} /\ drv[w].idx \in Nat
  BY <1>1, BoundAssumption DEF Sound
<1> QED BY <1>1, <1>2, OwnJournal DEF Settled

LEMMA MakeStagingSteady ==
    ASSUME Steady, OneWorker, Atomic', NEW w \in Worker, MakeStaging(w)
    PROVE  Steady'
<1> DEFINE t == drv[w].tx
           k == [jn[t] EXCEPT !.staging = TRUE]
           d == [drv[w] EXCEPT !.pc = "stage", !.sync = "root"]
<1>1. /\ drv[w].sync = "none" /\ drv[w].pc = "mkStaging" /\ UNCHANGED <<disk, dest, ops, applied>>
  BY DEF MakeStaging, At
<1>2. /\ t \in TxId /\ jn[t].root /\ drv \in [Worker -> Driver] /\ drv[w] \in Driver /\ applied[t] = {}
      /\ jn \in [TxId -> Journal] /\ jn[t] \in Journal /\ Lag(drv[w], jn[t], disk.jn[t])
  BY <1>1, StagingSteady
<1>3. disk.jn[t] = jn[t]
  BY <1>1, <1>2 DEF Lag
<1>4. /\ jn' = [jn EXCEPT ![t].staging = TRUE]
      /\ drv' = [drv EXCEPT ![w].pc = "stage", ![w].sync = "root"]
  BY <1>2 DEF MakeStaging, Mine
<1>5. /\ drv' = [drv EXCEPT ![w] = d] /\ d.tx = t /\ d.pc = "stage" /\ d.sync = "root"
      /\ jn' = [jn EXCEPT ![t] = k]
  BY <1>1, <1>2, <1>4 DEF Driver
<1>6. k.root = jn[t].root /\ k.staging /\ k.pay = jn[t].pay
  BY <1>2 DEF Journal
<1> HIDE DEF d, k
<1>7. Stored(k, applied[t]) /\ Lag(d, k, disk.jn[t])
  BY <1>2, <1>3, <1>5, <1>6 DEF Stored, Lag, Failing
<1> QED BY <1>1, <1>2, <1>5, <1>7, OwnStep

LEMMA StageSteady ==
    ASSUME Steady, OneWorker, Atomic', NEW w \in Worker, Stage(w)
    PROVE  Steady'
<1> DEFINE t == drv[w].tx
           i == drv[w].idx
           pay == [jn[t].pay EXCEPT ![i] = "torn"]
           k == [jn[t] EXCEPT !.pay = pay]
           b == [k EXCEPT !.pay = jn[t].pay]
           d == [drv[w] EXCEPT !.pc = "fill"]
           e == [drv[w] EXCEPT !.idx = i + 1]
<1>1. /\ drv[w].sync = "none" /\ drv[w].pc = "stage" /\ UNCHANGED <<disk, dest, ops, applied>>
      /\ drv[w].pc \notin Ahead
  BY DEF Stage, At, Ahead
<1>2. /\ t \in TxId /\ jn[t].root /\ drv \in [Worker -> Driver] /\ drv[w] \in Driver /\ applied[t] = {}
      /\ jn \in [TxId -> Journal] /\ jn[t] \in Journal /\ Lag(drv[w], jn[t], disk.jn[t])
      /\ drv[w].pc \in Settled
  BY <1>1, StagingSteady
<1>3. disk.jn[t] = jn[t]
  BY <1>1, <1>2 DEF Lag
<1>4. CASE Goto(w, "manifest") /\ jn' = jn
  BY <1>1, <1>2, <1>4, FlushedGoto DEF Failing
<1>5. CASE drv' = [drv EXCEPT ![w].idx = i + 1] /\ jn' = jn
  <2>1. drv' = [drv EXCEPT ![w] = e] /\ e.tx = t /\ e.pc = "stage" /\ e.sync = "none"
    BY <1>1, <1>2, <1>5 DEF Driver
  <2> HIDE DEF e
  <2> QED BY <1>1, <1>2, <1>5, <2>1, FlushedOwn DEF Failing
<1>6. CASE Fail(w, "raw") /\ jn' = jn
  BY <1>1, <1>2, <1>6, FlushedFail
<1>7. CASE /\ jn[t].staging /\ jn[t].pay[i] = "missing"
           /\ jn' = [jn EXCEPT ![t].pay[i] = "torn"] /\ Goto(w, "fill") /\ i <= LastOp(w)
  <2>1. /\ drv' = [drv EXCEPT ![w] = d] /\ d.tx = t /\ d.pc = "fill" /\ d.sync = "none" /\ d.idx = i
        /\ jn' = [jn EXCEPT ![t] = k]
    BY <1>1, <1>2, <1>7 DEF Goto, Driver
  <2>2. i \in 1 .. MaxOps
    <3>1. i \in 1 .. MaxOps + 1 /\ LastOp(w) \in 0 .. MaxOps
      BY <1>1, StagingKnows, SteadyFacts DEF LastOp
    <3> QED BY <1>7, <3>1, BoundAssumption
  <2>3. jn[t].pay \in [1 .. MaxOps -> FileState] /\ pay[i] = "torn" /\ pay \in [1 .. MaxOps -> FileState]
    BY <1>2, <2>2 DEF Journal, FileState
  <2> HIDE DEF pay
  <2>4. /\ k \in Journal /\ k.pay = pay /\ k.root = jn[t].root /\ k.prog = jn[t].prog
        /\ k.staging = jn[t].staging /\ k.next = jn[t].next /\ k.man = jn[t].man
    BY <1>2, <2>3 DEF Journal
  <2> HIDE DEF d, k
  <2>5. b = jn[t]
    <3>1. /\ b \in Journal /\ b.pay = jn[t].pay /\ b.root = k.root /\ b.prog = k.prog
          /\ b.staging = k.staging /\ b.next = k.next /\ b.man = k.man
      BY <2>3, <2>4 DEF Journal
    <3> HIDE DEF b
    <3> QED BY <1>2, <2>4, <3>1, SameJournal
  <2>6. Stored(k, applied[t])
    BY <1>2, <1>7, <2>4 DEF Stored
  <2>7. Lag(d, k, disk.jn[t])
    BY <1>2, <1>3, <2>1, <2>3, <2>4, <2>5 DEF Lag, Failing
  <2> QED BY <1>1, <1>2, <2>1, <2>6, <2>7, OwnStep
<1>8. i <= LastOp(w) \/ i > LastOp(w)
  BY <1>1, StagingKnows, SteadyFacts, BoundAssumption DEF LastOp
<1> QED BY <1>4, <1>5, <1>6, <1>7, <1>8 DEF Stage

LEMMA FillPayloadSteady ==
    ASSUME Steady, OneWorker, Atomic', NEW w \in Worker, FillPayload(w)
    PROVE  Steady'
<1> DEFINE t == drv[w].tx
           i == drv[w].idx
           pay == [jn[t].pay EXCEPT ![i] = "full"]
           k == [jn[t] EXCEPT !.pay = pay]
           b == [k EXCEPT !.pay = disk.jn[t].pay]
           d == [drv[w] EXCEPT !.pc = "stage", !.idx = i + 1, !.sync = "staging"]
<1>1. /\ drv[w].sync = "none" /\ drv[w].pc = "fill" /\ UNCHANGED <<disk, dest, ops, applied>>
  BY DEF FillPayload, At
<1>2. /\ t \in TxId /\ jn[t].root /\ drv \in [Worker -> Driver] /\ drv[w] \in Driver /\ applied[t] = {}
      /\ jn \in [TxId -> Journal] /\ jn[t] \in Journal /\ Lag(drv[w], jn[t], disk.jn[t])
      /\ disk.jn[t] \in Journal /\ Stored(jn[t], applied[t])
  BY <1>1, StagingSteady
<1>3. disk.jn[t] = [jn[t] EXCEPT !.pay = disk.jn[t].pay] /\ jn[t].pay[i] = "torn" /\ disk.jn[t].root
  BY <1>1, <1>2 DEF Lag
<1>4. /\ jn' = [jn EXCEPT ![t].pay[i] = "full"]
      /\ drv' = [drv EXCEPT ![w].pc = "stage", ![w].idx = i + 1, ![w].sync = "staging"]
  BY <1>3 DEF FillPayload, StagingSync
<1>5. /\ drv' = [drv EXCEPT ![w] = d] /\ d.tx = t /\ d.pc = "stage" /\ d.sync = "staging"
      /\ jn' = [jn EXCEPT ![t] = k]
  BY <1>1, <1>2, <1>4 DEF Driver
<1>6. jn[t].staging
  <2>1. i \in 1 .. MaxOps
    <3>1. i <= Len(ops[t])
      BY <1>1, OwnRegisters, SteadyFacts DEF DriverShape
    <3>2. i \in 1 .. MaxOps + 1 /\ Len(ops[t]) \in 0 .. MaxOps
      BY <1>1, StagingKnows, SteadyFacts
    <3> QED BY <3>1, <3>2, BoundAssumption
  <2>2. NoPayloads[i] = "missing"
    BY <2>1 DEF NoPayloads
  <2> QED BY <1>2, <1>3, <2>2 DEF Stored
<1>7. pay \in [1 .. MaxOps -> FileState] /\ disk.jn[t].pay \in [1 .. MaxOps -> FileState]
  BY <1>2 DEF Journal, FileState
<1> HIDE DEF pay
<1>8. /\ k \in Journal /\ k.pay = pay /\ k.root = jn[t].root /\ k.prog = jn[t].prog
      /\ k.staging = jn[t].staging /\ k.next = jn[t].next /\ k.man = jn[t].man
  BY <1>2, <1>7 DEF Journal
<1>9. /\ disk.jn[t].root = jn[t].root /\ disk.jn[t].prog = jn[t].prog /\ disk.jn[t].next = jn[t].next
      /\ disk.jn[t].staging = jn[t].staging /\ disk.jn[t].man = jn[t].man
  BY <1>2, <1>3 DEF Journal
<1> HIDE DEF d, k
<1>10. b = disk.jn[t]
  <2>1. /\ b \in Journal /\ b.pay = disk.jn[t].pay /\ b.root = k.root /\ b.prog = k.prog
        /\ b.staging = k.staging /\ b.next = k.next /\ b.man = k.man
    BY <1>7, <1>8 DEF Journal
  <2> HIDE DEF b
  <2>2. /\ b.root = disk.jn[t].root /\ b.prog = disk.jn[t].prog /\ b.next = disk.jn[t].next
        /\ b.staging = disk.jn[t].staging /\ b.man = disk.jn[t].man
    BY <1>8, <1>9, <2>1
  <2>3. disk.jn[t] \in Journal
    BY <1>2
  <2> QED BY <2>1, <2>2, <2>3, SameJournal
<1>11. Stored(k, applied[t])
  BY <1>2, <1>6, <1>8 DEF Stored
<1>12. Lag(d, k, disk.jn[t])
  BY <1>2, <1>3, <1>5, <1>8, <1>10 DEF Lag, Failing
<1> QED BY <1>1, <1>2, <1>5, <1>11, <1>12, OwnStep

LEMMA WriteManifestSteady ==
    ASSUME Steady, OneWorker, Atomic', NEW w \in Worker, WriteManifest(w)
    PROVE  Steady'
<1> DEFINE t == drv[w].tx
           k == [jn[t] EXCEPT !.man = "torn"]
           b == [k EXCEPT !.man = jn[t].man]
           d == [drv[w] EXCEPT !.pc = "fillManifest"]
<1>1. /\ drv[w].sync = "none" /\ drv[w].pc = "manifest" /\ UNCHANGED <<disk, dest, ops, applied>>
      /\ drv[w].pc \notin Ahead
  BY DEF WriteManifest, At, Ahead
<1>2. /\ t \in TxId /\ jn[t].root /\ drv \in [Worker -> Driver] /\ drv[w] \in Driver /\ applied[t] = {}
      /\ jn \in [TxId -> Journal] /\ jn[t] \in Journal /\ Lag(drv[w], jn[t], disk.jn[t])
      /\ Stored(jn[t], applied[t]) /\ drv[w].pc \in Settled
  BY <1>1, StagingSteady
<1>3. disk.jn[t] = jn[t]
  BY <1>1, <1>2 DEF Lag
<1>4. CASE Fail(w, "raw") /\ jn' = jn
  BY <1>1, <1>2, <1>4, FlushedFail
<1>5. CASE jn' = [jn EXCEPT ![t].man = "torn"] /\ Goto(w, "fillManifest")
  <2>1. /\ drv' = [drv EXCEPT ![w] = d] /\ d.tx = t /\ d.pc = "fillManifest" /\ d.sync = "none"
        /\ jn' = [jn EXCEPT ![t] = k]
    BY <1>1, <1>2, <1>5 DEF Goto, Driver
  <2>2. /\ k \in Journal /\ k.pay = jn[t].pay /\ k.root = jn[t].root /\ k.prog = jn[t].prog
        /\ k.staging = jn[t].staging /\ k.next = jn[t].next
    BY <1>2 DEF Journal, FileState
  <2> HIDE DEF d, k
  <2>3. b = jn[t]
    <3>1. /\ b \in Journal /\ b.man = jn[t].man /\ b.root = k.root /\ b.prog = k.prog
          /\ b.staging = k.staging /\ b.next = k.next /\ b.pay = k.pay
      BY <1>2, <2>2 DEF Journal
    <3> HIDE DEF b
    <3> QED BY <1>2, <2>2, <3>1, SameJournal
  <2>4. Stored(k, applied[t])
    BY <1>2, <2>2 DEF Stored
  <2>5. Lag(d, k, disk.jn[t])
    BY <1>2, <1>3, <2>1, <2>2, <2>3 DEF Lag, Failing
  <2> QED BY <1>1, <1>2, <2>1, <2>4, <2>5, OwnStep
<1> QED BY <1>4, <1>5 DEF WriteManifest

LEMMA FillManifestSteady ==
    ASSUME Steady, OneWorker, Atomic', NEW w \in Worker, FillManifest(w)
    PROVE  Steady'
<1> DEFINE t == drv[w].tx
           man == IF jn[t].man = "torn" THEN "full" ELSE jn[t].man
           k == [jn[t] EXCEPT !.man = man]
           d == [drv[w] EXCEPT !.pc = "precheck", !.sync = "root"]
<1>1. /\ drv[w].sync = "none" /\ drv[w].pc = "fillManifest" /\ UNCHANGED <<disk, dest, ops, applied>>
  BY DEF FillManifest, At
<1>2. /\ t \in TxId /\ jn[t].root /\ drv \in [Worker -> Driver] /\ drv[w] \in Driver /\ applied[t] = {}
      /\ jn \in [TxId -> Journal] /\ jn[t] \in Journal /\ Lag(drv[w], jn[t], disk.jn[t])
      /\ Stored(jn[t], applied[t])
  BY <1>1, StagingSteady
<1>3. disk.jn[t] = [jn[t] EXCEPT !.man = disk.jn[t].man] /\ disk.jn[t].root
  BY <1>1, <1>2 DEF Lag
<1>4. disk.jn[t].pay = jn[t].pay
  BY <1>2, <1>3 DEF Journal
<1>5. /\ drv' = [drv EXCEPT ![w] = d] /\ d.tx = t /\ d.pc = "precheck" /\ d.sync = "root"
      /\ jn' = [jn EXCEPT ![t] = k]
  BY <1>1, <1>2 DEF FillManifest, Driver
<1> HIDE DEF man
<1>6. k.pay = jn[t].pay /\ k.root = jn[t].root /\ k.staging = jn[t].staging
  BY <1>2 DEF Journal
<1> HIDE DEF d, k
<1>7. Stored(k, applied[t]) /\ Lag(d, k, disk.jn[t])
  BY <1>2, <1>3, <1>4, <1>5, <1>6 DEF Stored, Lag, Failing
<1> QED BY <1>1, <1>2, <1>5, <1>7, OwnStep

LEMMA CleanupStepSteady ==
    ASSUME Steady, OneWorker, Atomic', NEW w \in Worker, CleanupStep(w)
    PROVE  Steady'
<1> DEFINE t == drv[w].tx
           left == {i \in 1 .. MaxOps : jn[t].pay[i] # "missing"}
           first == CHOOSE i \in left : \A m \in left : i <= m
           pay == [jn[t].pay EXCEPT ![first] = "missing"]
           pc == IF drv[w].back = "decide" THEN "decide" ELSE "finish"
           d == [drv[w] EXCEPT !.pc = pc, !.sync = "root"]
<1>1. /\ drv[w].sync = "none" /\ drv[w].pc = "cleanup" /\ UNCHANGED <<disk, dest, ops, applied>>
      /\ drv[w].pc \in Settled
  BY DEF CleanupStep, At, Settled
<1>2. t \in TxId
  BY <1>1, SettledKnows, SteadyFacts
<1>3. /\ drv \in [Worker -> Driver] /\ drv[w] \in Driver /\ jn \in [TxId -> Journal] /\ jn[t] \in Journal
      /\ Stored(jn[t], applied[t]) /\ Lag(drv[w], jn[t], disk.jn[t]) /\ applied[t] \in SUBSET (1 .. MaxOps)
  BY <1>2, OwnJournal
<1>4. jn[t].root /\ disk.jn[t].root
  BY <1>1, <1>3 DEF Lag
\* A removal.
<1>5. ASSUME NEW k, jn' = [jn EXCEPT ![t] = k], drv' = drv, k.root, Stored(k, applied[t])
      PROVE  Steady'
  <2>1. drv' = [drv EXCEPT ![w] = drv[w]]
    BY <1>3, <1>5
  <2>2. Lag(drv[w], k, disk.jn[t])
    BY <1>1, <1>4, <1>5 DEF Lag, Failing
  <2> QED BY <1>1, <1>2, <1>5, <2>1, <2>2, OwnStep
<1>6. CASE jn' = [jn EXCEPT ![t].pay[first] = "missing"] /\ drv' = drv
  <2> DEFINE k == [jn[t] EXCEPT !.pay = pay]
  <2>1. jn' = [jn EXCEPT ![t] = k]
    BY <1>2, <1>3, <1>6
  <2>2. jn[t].pay \in [1 .. MaxOps -> FileState]
    BY <1>3 DEF Journal
  <2> HIDE DEF first
  <2>3. \A i \in 1 .. MaxOps : pay[i] = "missing" \/ pay[i] = jn[t].pay[i]
    BY <2>2
  <2>4. pay = [i \in 1 .. MaxOps |-> pay[i]]
    BY <2>2
  <2>5. jn[t].pay = NoPayloads => pay = NoPayloads
    BY <2>3, <2>4 DEF NoPayloads
  <2> HIDE DEF pay
  <2>6. k.root = jn[t].root /\ k.staging = jn[t].staging /\ k.pay = pay
    BY <1>3 DEF Journal
  <2> HIDE DEF k
  <2>7. Stored(k, applied[t])
    BY <1>3, <2>3, <2>5, <2>6 DEF Stored
  <2> QED BY <1>4, <1>5, <1>6, <2>1, <2>6, <2>7
<1>7. CASE left = {} /\ jn' = [jn EXCEPT ![t].staging = FALSE] /\ drv' = drv
  <2> DEFINE k == [jn[t] EXCEPT !.staging = FALSE]
  <2>1. jn' = [jn EXCEPT ![t] = k]
    BY <1>2, <1>3, <1>7
  <2>2. jn[t].pay \in [1 .. MaxOps -> FileState]
    BY <1>3 DEF Journal
  <2>3. jn[t].pay = NoPayloads
    BY <1>7, <2>2 DEF NoPayloads
  <2>4. k.root = jn[t].root /\ k.pay = jn[t].pay
    BY <1>3 DEF Journal
  <2> HIDE DEF k
  <2>5. Stored(k, applied[t])
    BY <1>3, <2>3, <2>4 DEF Stored
  <2> QED BY <1>4, <1>5, <1>7, <2>1, <2>4, <2>5
<1>8. CASE jn' = [jn EXCEPT ![t].next = NoProgress] /\ drv' = drv
  <2> DEFINE k == [jn[t] EXCEPT !.next = NoProgress]
  <2>1. jn' = [jn EXCEPT ![t] = k]
    BY <1>2, <1>3, <1>8
  <2>2. k.root = jn[t].root /\ k.pay = jn[t].pay /\ k.staging = jn[t].staging
    BY <1>3 DEF Journal
  <2> HIDE DEF k
  <2> QED BY <1>3, <1>4, <1>5, <1>8, <2>1, <2>2 DEF Stored
<1>9. CASE jn' = [jn EXCEPT ![t].man = "missing"] /\ drv' = drv
  <2> DEFINE k == [jn[t] EXCEPT !.man = "missing"]
  <2>1. jn' = [jn EXCEPT ![t] = k]
    BY <1>2, <1>3, <1>9
  <2>2. k.root = jn[t].root /\ k.pay = jn[t].pay /\ k.staging = jn[t].staging
    BY <1>3 DEF Journal
  <2> HIDE DEF k
  <2> QED BY <1>3, <1>4, <1>5, <1>9, <2>1, <2>2 DEF Stored
<1>10. CASE ~jn[t].staging /\ jn' = jn /\ drv' = [drv EXCEPT ![w].pc = pc, ![w].sync = "root"]
  <2>1. pc \in {"decide", "finish"}
    OBVIOUS
  <2> HIDE DEF pc
  <2>2. /\ drv' = [drv EXCEPT ![w] = d] /\ d.tx = t /\ d.pc = pc /\ d.sync = "root"
        /\ jn' = [jn EXCEPT ![t] = jn[t]]
    BY <1>2, <1>3, <1>10 DEF Driver
  <2> HIDE DEF d
  <2>3. Lag(d, jn[t], disk.jn[t])
    BY <1>4, <1>10, <2>1, <2>2 DEF Lag, Failing
  <2> QED BY <1>1, <1>2, <1>3, <2>1, <2>2, <2>3, OwnStep
<1>11. \/ jn' = [jn EXCEPT ![t].pay[first] = "missing"] /\ drv' = drv
       \/ left = {} /\ jn' = [jn EXCEPT ![t].staging = FALSE] /\ drv' = drv
       \/ jn' = [jn EXCEPT ![t].next = NoProgress] /\ drv' = drv
       \/ jn' = [jn EXCEPT ![t].man = "missing"] /\ drv' = drv
       \/ ~jn[t].staging /\ jn' = jn /\ drv' = [drv EXCEPT ![w].pc = pc, ![w].sync = "root"]
  BY DEF CleanupStep
<1> QED BY <1>6, <1>7, <1>8, <1>9, <1>10, <1>11

LEMMA BeginSteady ==
    ASSUME Steady, OneWorker, Atomic', NEW w \in Worker, NEW t \in TxId, Begin(w, t)
    PROVE  Steady'
<1>1. /\ drv[w].sync = "none" /\ drv[w].pc = "begin" /\ UNCHANGED <<disk, dest, applied>>
      /\ drv \in [Worker -> Driver] /\ drv[w] \in Driver /\ jn \in [TxId -> Journal] /\ ops[t] = <<>>
      /\ ops \in [TxId -> Manifest]
  BY SteadyFacts DEF Begin, At, Unused
<1>2. drv[w].pc \notin Ahead
  BY <1>1 DEF Ahead
<1>3. Flushed /\ jn[t] = NoJournal /\ disk.jn[t] = NoJournal
  BY <1>1, <1>2, UsuallyFlushed, SteadyFacts DEF Custody, UnusedIsBlank
<1>4. CASE drv' = [drv EXCEPT ![w] = Idle] /\ jn' = jn
  BY <1>1, <1>2, <1>4, FlushedIdle
<1>5. CASE /\ jn' = [jn EXCEPT ![t].root = TRUE]
           /\ ops' = [ops EXCEPT ![t] = drv[w].ops]
           /\ drv' = [drv EXCEPT ![w].tx = t, ![w].ops = <<>>, ![w].pc = "clear",
                                 ![w].mem = [phase |-> "begun", bound |-> FALSE, published |-> 0],
                                 ![w].back = "mkStaging", ![w].sync = "transactions"]
  <2>1. drv'[w].tx = t /\ drv'[w].pc = "clear" /\ drv'[w].sync = "transactions"
    BY <1>1, <1>5 DEF Driver
  <2>2. \A u \in Worker : drv'[u] = drv'[w]
    BY DEF OneWorker
  <2>3. \A u \in TxId : jn'[u] = IF u = t THEN Fresh ELSE jn[u]
    BY <1>1, <1>3, <1>5 DEF Fresh
  <2>4. /\ Fresh.root /\ Fresh.prog = NoJournal.prog /\ Fresh.staging = NoJournal.staging
        /\ Fresh.pay = NoJournal.pay
    BY DEF Fresh, NoJournal
  <2>5. AllStored'
    BY <1>1, <1>3, <2>3, <2>4 DEF Steady, Synced, AllStored, Stored
  <2>6. SoundDisk'
    <3>1. \A u \in TxId : u # t => ops'[u] = ops[u]
      BY <1>1, <1>5
    <3>2. ops'[t] # <<>> => ValidPlan(ops'[t])
      BY DEF Atomic, SoundJournals, Sound
    <3>3. Sound(NoJournal, ops'[t], disk.dest, disk.applied[t])
      <4>1. Sound(NoJournal, ops[t], disk.dest, disk.applied[t])
        BY <1>3 DEF Steady, Synced, SoundDisk
      <4>2. NoJournal.prog.phase = "missing" /\ ~NoJournal.prog.bound
        BY DEF NoJournal, NoProgress
      <4> QED BY <3>2, <4>1, <4>2 DEF Sound
    <3> QED BY <1>1, <1>3, <3>1, <3>3 DEF Steady, Synced, SoundDisk
  <2>7. JournalsLag'
    <3>1. Lag(drv'[w], Fresh, NoJournal)
      BY <2>1 DEF Lag, Failing
    <3>2. \A u \in TxId : disk'.jn[u] = jn[u]
      BY <1>1, <1>3 DEF Flushed
    <3>3. \A u \in Worker : Lag(drv'[u], jn'[drv'[u].tx], disk'.jn[drv'[u].tx])
      BY <1>1, <1>3, <2>1, <2>2, <2>3, <3>1
    <3>4. \A u \in TxId : u # t => jn'[u] = disk'.jn[u]
      BY <2>3, <3>2
    <3>5. \A u \in Worker : drv'[u].tx = t
      BY <2>1, <2>2
    <3> QED BY <3>3, <3>4, <3>5 DEF JournalsLag
  <2>8. RemovesResidue'
    BY <2>1, <2>2 DEF RemovesResidue
  <2>9. EffectsLag'
    BY <1>1, <1>3, <2>1, <2>2 DEF EffectsLag, Flushed
  <2>10. BusyAlone'
    BY <1>1, <1>3 DEF BusyAlone, Steady, Atomic, DriversReady, Flushed
  <2> QED BY <2>5, <2>6, <2>7, <2>8, <2>9, <2>10 DEF Steady, Synced
<1> QED BY <1>4, <1>5 DEF Begin, Return

LEMMA ApplySteady ==
    ASSUME Steady, OneWorker, Atomic', NEW w \in Worker, Apply(w)
    PROVE  Steady'
<1> DEFINE t == drv[w].tx
           i == drv[w].idx
           o == ops[t]
           k == [jn[t] EXCEPT !.pay[i] = "missing"]
           d == [drv[w] EXCEPT !.pc = "verify", !.sync = "parent"]
<1>1. /\ drv[w].sync = "none" /\ drv[w].pc = "apply" /\ UNCHANGED <<disk, ops>>
      /\ drv[w].pc \notin Ahead /\ drv[w].pc \in Settled
  BY DEF Apply, At, Ahead, Settled
<1>2. t \in TxId /\ Flushed
  BY <1>1, UsuallyFlushed, SettledKnows, SteadyFacts
<1>3. /\ drv \in [Worker -> Driver] /\ drv[w] \in Driver /\ jn \in [TxId -> Journal] /\ jn[t] \in Journal
      /\ Stored(jn[t], applied[t]) /\ Lag(drv[w], jn[t], disk.jn[t])
      /\ applied \in [TxId -> SUBSET (1 .. MaxOps)]
  BY <1>2, OwnJournal, SteadyFacts
<1>4. jn[t].root /\ disk.jn[t] = jn[t]
  BY <1>1, <1>3 DEF Lag
<1>5. CASE Fail(w, "raw") /\ UNCHANGED <<dest, jn, applied>>
  BY <1>1, <1>5, FlushedFail
<1>6. CASE /\ dest' = [dest EXCEPT ![Op(w).path] = Op(w).result]
           /\ jn' = [jn EXCEPT ![t].pay[i] = "missing"]
           /\ applied' = [applied EXCEPT ![t] = @ \cup {i}]
           /\ drv' = [drv EXCEPT ![w].pc = "verify", ![w].sync = PublishSync]
  <2>1. /\ drv' = [drv EXCEPT ![w] = d] /\ d.tx = t /\ d.pc = "verify" /\ d.sync = "parent" /\ d.idx = i
        /\ jn' = [jn EXCEPT ![t] = k]
    BY <1>2, <1>3, <1>6 DEF Driver, PublishSync
  <2>2. \A u \in Worker : drv'[u] = d /\ drv[u] = drv[w]
    BY <1>3, <2>1 DEF OneWorker
  <2>3. /\ k.root = jn[t].root /\ k.prog = jn[t].prog /\ k.staging = jn[t].staging /\ k.next = jn[t].next
        /\ k.man = jn[t].man /\ k.pay = [jn[t].pay EXCEPT ![i] = "missing"]
        /\ jn[t].pay \in [1 .. MaxOps -> FileState]
    BY <1>3 DEF Journal
  <2>4. /\ i \in 1 .. Len(o) /\ i \in 1 .. MaxOps /\ i \notin applied[t] /\ dest[o[i].path] = o[i].expected
    <3> DEFINE n == drv[w].mem.published
    <3>1. n \in 0 .. Len(o) /\ Stands(jn[t], o, dest, applied[t], n) /\ i = n + 1 /\ Len(o) \in Nat
         /\ Len(o) \in 0 .. MaxOps
      BY <1>1, <1>2, PublishingKnows, OwnAtomic, SteadyFacts
    <3>2. i <= Len(o)
      BY <1>1, OwnRegisters, SteadyFacts DEF DriverShape
    <3> HIDE DEF n, o
    <3>3. i \in 1 .. Len(o) /\ i \in 1 .. MaxOps /\ i \notin 1 .. n /\ ~(i <= n)
      BY <3>1, <3>2, BoundAssumption
    <3> QED BY <3>1, <3>3 DEF Stands, Done
  <2>5. \A u \in TxId : jn'[u] = IF u = t THEN k ELSE jn[u]
    BY <1>2, <1>3, <2>1
  <2>6. \A u \in TxId : applied'[u] = IF u = t THEN applied[t] \cup {i} ELSE applied[u]
    BY <1>2, <1>3, <1>6
  <2>7. Stored(k, applied[t] \cup {i})
    <3>1. \A m \in applied[t] \cup {i} : k.pay[m] = "missing"
      <4>1. applied[t] \in SUBSET (1 .. MaxOps)
        BY <1>2, <1>3
      <4> DEFINE pay == k.pay
      <4>2. /\ pay = [jn[t].pay EXCEPT ![i] = "missing"] /\ jn[t].pay \in [1 .. MaxOps -> FileState]
            /\ \A m \in applied[t] : jn[t].pay[m] = "missing"
        BY <1>3, <2>3 DEF Stored
      <4> HIDE DEF pay
      <4>3. ASSUME NEW m \in applied[t] \cup {i} PROVE pay[m] = "missing"
        BY <2>4, <4>1, <4>2, <4>3
      <4> QED BY <4>3 DEF pay
    <3>2. ~jn[t].staging => k.pay = NoPayloads
      <4>1. ASSUME ~jn[t].staging PROVE \A m \in 1 .. MaxOps : k.pay[m] = "missing"
        <5>1. jn[t].pay = NoPayloads
          BY <1>3, <4>1 DEF Stored
        <5> QED BY <2>3, <5>1 DEF NoPayloads
      <4>2. k.pay = [m \in 1 .. MaxOps |-> k.pay[m]]
        BY <2>3
      <4> QED BY <4>1, <4>2 DEF NoPayloads
    <3> QED BY <2>3, <3>1, <3>2 DEF Stored
  <2> HIDE DEF d
  <2>8. Lag(d, k, jn[t])
    <3>1. k = [jn[t] EXCEPT !.pay[d.idx] = "missing"]
      BY <2>1
    <3> HIDE DEF k
    <3> QED BY <1>4, <2>1, <2>3, <3>1 DEF Lag, Failing
  <2> HIDE DEF k
  <2>9. AllStored'
    BY <1>1, <2>5, <2>6, <2>7 DEF Steady, Synced, AllStored
  <2>10. SoundDisk'
    BY <1>1 DEF Steady, Synced, SoundDisk
  <2>11. JournalsLag'
    <3>1. \A u \in TxId : disk'.jn[u] = jn[u]
      BY <1>1, <1>2 DEF Flushed
    <3> QED BY <1>2, <2>1, <2>2, <2>5, <2>8, <3>1 DEF JournalsLag
  <2>12. RemovesResidue'
    BY <2>1, <2>2 DEF RemovesResidue
  <2>13. EffectsLag'
    <3>1. disk'.dest = dest /\ disk'.applied = applied /\ ops' = ops
      BY <1>1, <1>2 DEF Flushed
    <3>2. InFlight(d, o, dest', dest, applied'[t], applied[t])
      BY <1>2, <1>6, <2>1, <2>4, <2>6 DEF InFlight, Op
    <3>3. \A u \in TxId : u # t => applied[u] = applied'[u]
      BY <2>6
    <3> QED BY <2>1, <2>2, <3>1, <3>2, <3>3 DEF EffectsLag
  <2>14. BusyAlone'
    <3>1. \A u \in TxId : Busy(jn'[u]) <=> Busy(jn[u])
      BY <2>3, <2>5 DEF Busy, HasCleanupEntries
    <3> QED BY <1>1, <3>1 DEF Steady, Synced, BusyAlone
  <2> QED BY <2>9, <2>10, <2>11, <2>12, <2>13, <2>14 DEF Steady, Synced
<1> QED BY <1>5, <1>6 DEF Apply

-----------------------------------------------------------------------------
(* Synchronisation.                                                        *)

\* A synchronisation covers the one change that was not durable yet.
LEMMA SyncedNow ==
    ASSUME Steady, OneWorker, Atomic', NEW w \in Worker, drv[w].sync # "none",
           NEW s, drv' = [drv EXCEPT ![w].sync = "none", ![w].sure = s], UNCHANGED <<dest, jn, applied>>,
           drv[w].tx \in TxId => jn[drv[w].tx].root, Flushed'
    PROVE  Steady'
<1> DEFINE t == drv[w].tx
           d == [drv[w] EXCEPT !.sync = "none", !.sure = s]
<1>1. drv \in [Worker -> Driver] /\ drv[w] \in Driver
  BY SteadyFacts
<1>2. drv' = [drv EXCEPT ![w] = d] /\ d.tx = t /\ d.pc = drv[w].pc /\ d.sync = "none"
  BY <1>1 DEF Driver
<1> HIDE DEF d
<1>3. \A u \in Worker : drv'[u] = d
  BY <1>1, <1>2 DEF OneWorker
<1>4. drv[w].pc \notin {"unNext", "unDir"}
  BY DEF Steady, Synced, RemovesResidue
<1>5. RemovesResidue'
  BY <1>2, <1>3, <1>4 DEF RemovesResidue
<1>6. \A u \in TxId : Stored(jn'[u], applied'[u])
  BY DEF Steady, Synced, AllStored
<1>7. ASSUME t \in TxId PROVE Lag(d, jn[t], jn[t])
  <2>1. Lag(drv[w], jn[t], disk.jn[t])
    BY <1>7, OwnLag
  <2> QED BY <1>2, <1>7, <2>1 DEF Lag
<1>8. ASSUME NEW u \in Worker
      PROVE  /\ drv'[u].sync # "parent"
             /\ drv'[u].tx \in TxId => Lag(drv'[u], jn'[drv'[u].tx], jn'[drv'[u].tx])
  BY <1>2, <1>3, <1>7, <1>8
<1> QED BY <1>5, <1>6, <1>8, FlushedSteady

LEMMA Undriven ==
    ASSUME Steady, OneWorker, NEW w \in Worker, drv[w].tx \in TxId, NEW u \in TxId, u # drv[w].tx
    PROVE  jn[u] = disk.jn[u]
<1>1. \A v \in Worker : drv[v] = drv[w]
  BY DEF OneWorker
<1> QED BY <1>1, InstanceAssumption DEF Steady, Synced, JournalsLag, Unmarks

LEMMA EffectsFlushed ==
    ASSUME Steady, OneWorker, NEW w \in Worker, drv[w].sync # "parent"
    PROVE  disk.dest = dest /\ disk.applied = applied
<1>1. \A v \in Worker : drv[v] = drv[w]
  BY DEF OneWorker
<1> QED BY <1>1 DEF Steady, Synced, EffectsLag

LEMMA SyncTransactionsFlushes ==
    ASSUME Steady, OneWorker, NEW w \in Worker, drv[w].sync = "transactions"
    PROVE  LET new == SyncTransactions
           IN  /\ \A u \in TxId : new.jn[u] = jn[u]
               /\ new.dest = dest /\ new.applied = applied
               /\ drv[w].tx \in TxId => jn[drv[w].tx].root
<1> DEFINE J == [t \in TxId |-> IF jn[t].root THEN [disk.jn[t] EXCEPT !.root = TRUE] ELSE NoJournal]
           new == [disk EXCEPT !.jn = J]
<1>1. new.jn = J /\ new.dest = disk.dest /\ new.applied = disk.applied
  BY SteadyFacts
<1>2. disk.dest = dest /\ disk.applied = applied
  BY EffectsFlushed
<1>3. ~NoJournal.root /\ Fresh.root
  BY DEF NoJournal, Fresh
<1>4. drv[w].tx \in TxId => jn[drv[w].tx] = Fresh /\ disk.jn[drv[w].tx] = NoJournal
  BY OwnLag DEF Lag
<1>5. ASSUME NEW u \in TxId PROVE J[u] = jn[u]
  <2>1. CASE u = drv[w].tx
    BY <1>3, <1>4, <2>1 DEF Fresh
  <2>2. CASE u # drv[w].tx /\ jn[u] = disk.jn[u] /\ jn[u].root
    <3> DEFINE k == [disk.jn[u] EXCEPT !.root = TRUE]
    <3>1. jn[u] \in Journal /\ disk.jn[u] = jn[u]
      BY <2>2, SteadyFacts
    <3>2. /\ k \in Journal /\ k.root = jn[u].root /\ k.prog = jn[u].prog /\ k.next = jn[u].next
          /\ k.staging = jn[u].staging /\ k.pay = jn[u].pay /\ k.man = jn[u].man
      BY <2>2, <3>1 DEF Journal
    <3>3. J[u] = k
      BY <2>2
    <3> HIDE DEF k
    <3> QED BY <3>1, <3>2, <3>3, SameJournal
  <2>3. CASE u # drv[w].tx /\ jn[u] = disk.jn[u] /\ ~jn[u].root
    <3>1. jn[u] = NoJournal
      BY <2>3, SteadyFacts DEF Sound
    <3> QED BY <1>3, <3>1
  <2>4. CASE Unmarks(drv[w], u, jn[u], disk.jn[u])
    <3>1. jn[u] = NoJournal
      BY <2>4 DEF Unmarks
    <3> QED BY <1>3, <3>1
  <2>5. u # drv[w].tx => jn[u] = disk.jn[u] \/ Unmarks(drv[w], u, jn[u], disk.jn[u])
    <3>1. \A v \in Worker : drv[v] = drv[w]
      BY DEF OneWorker
    <3> QED BY <3>1 DEF Steady, Synced, JournalsLag
  <2> QED BY <2>1, <2>2, <2>3, <2>4, <2>5
<1> QED BY <1>1, <1>2, <1>3, <1>4, <1>5 DEF SyncTransactions

LEMMA SyncRootFlushes ==
    ASSUME Steady, OneWorker, NEW w \in Worker, drv[w].sync = "root"
    PROVE  LET new == SyncRoot(drv[w].tx)
           IN  /\ \A u \in TxId : new.jn[u] = jn[u]
               /\ new.dest = dest /\ new.applied = applied
               /\ drv[w].tx \in TxId /\ jn[drv[w].tx].root
<1> DEFINE t == drv[w].tx
           pay == IF jn[t].staging THEN disk.jn[t].pay ELSE jn[t].pay
           k == [jn[t] EXCEPT !.root = disk.jn[t].root, !.pay = pay]
           new == [disk EXCEPT !.jn[t] = k]
<1>1. t \in TxId
  BY OwnRegisters, SteadyFacts DEF DriverShape
<1>2. /\ jn[t] \in Journal /\ disk.jn[t] \in Journal /\ Lag(drv[w], jn[t], disk.jn[t])
      /\ disk.jn \in [TxId -> Journal]
  BY <1>1, OwnJournal, SteadyFacts
<1>3. jn[t].root /\ disk.jn[t].root /\ pay = jn[t].pay
  BY <1>2 DEF Lag
<1> HIDE DEF pay
<1>4. /\ k \in Journal /\ k.root = jn[t].root /\ k.prog = jn[t].prog /\ k.next = jn[t].next
      /\ k.staging = jn[t].staging /\ k.pay = jn[t].pay /\ k.man = jn[t].man
  BY <1>2, <1>3 DEF Journal
<1> HIDE DEF k
<1>5. k = jn[t]
  BY <1>2, <1>4, SameJournal
<1>6. new.jn = [disk.jn EXCEPT ![t] = k] /\ new.dest = disk.dest /\ new.applied = disk.applied
  BY SteadyFacts
<1>7. \A u \in TxId : new.jn[u] = jn[u]
  BY <1>1, <1>2, <1>5, <1>6, Undriven
<1> QED BY <1>1, <1>3, <1>6, <1>7, EffectsFlushed DEF SyncRoot, k, pay

LEMMA SyncStagingFlushes ==
    ASSUME Steady, OneWorker, NEW w \in Worker, drv[w].sync = "staging"
    PROVE  LET new == SyncStaging(drv[w].tx)
           IN  /\ \A u \in TxId : new.jn[u] = jn[u]
               /\ new.dest = dest /\ new.applied = applied
               /\ drv[w].tx \in TxId /\ jn[drv[w].tx].root
<1> DEFINE t == drv[w].tx
           k == [disk.jn[t] EXCEPT !.pay = jn[t].pay]
           new == [disk EXCEPT !.jn[t] = k]
<1>1. t \in TxId
  BY OwnRegisters, SteadyFacts DEF DriverShape
<1>2. /\ jn[t] \in Journal /\ disk.jn[t] \in Journal /\ Lag(drv[w], jn[t], disk.jn[t])
      /\ disk.jn \in [TxId -> Journal]
  BY <1>1, OwnJournal, SteadyFacts
<1>3. jn[t].root /\ disk.jn[t] = [jn[t] EXCEPT !.pay = disk.jn[t].pay]
  BY <1>2 DEF Lag
<1>4. /\ disk.jn[t].root = jn[t].root /\ disk.jn[t].prog = jn[t].prog /\ disk.jn[t].next = jn[t].next
      /\ disk.jn[t].staging = jn[t].staging /\ disk.jn[t].man = jn[t].man
  BY <1>2, <1>3 DEF Journal
<1>5. /\ k \in Journal /\ k.root = jn[t].root /\ k.prog = jn[t].prog /\ k.next = jn[t].next
      /\ k.staging = jn[t].staging /\ k.pay = jn[t].pay /\ k.man = jn[t].man
  BY <1>2, <1>4 DEF Journal
<1>6. SyncStaging(t) = new
  BY <1>1, <1>2, SteadyFacts DEF SyncStaging
<1> HIDE DEF k
<1>7. k = jn[t]
  BY <1>2, <1>5, SameJournal
<1>8. new.jn = [disk.jn EXCEPT ![t] = k] /\ new.dest = disk.dest /\ new.applied = disk.applied
  BY SteadyFacts
<1>9. \A u \in TxId : new.jn[u] = jn[u]
  BY <1>1, <1>2, <1>7, <1>8, Undriven
<1> QED BY <1>1, <1>3, <1>6, <1>8, <1>9, EffectsFlushed

LEMMA SyncParentFlushes ==
    ASSUME Steady, OneWorker, NEW w \in Worker, drv[w].sync = "parent"
    PROVE  LET new == SyncParent(Op(w).path)
           IN  /\ \A u \in TxId : new.jn[u] = jn[u]
               /\ new.dest = dest /\ new.applied = applied
               /\ drv[w].tx \in TxId /\ jn[drv[w].tx].root
<1> DEFINE t == drv[w].tx
           i == drv[w].idx
           p == Op(w).path
           now(u) == {m \in applied[u] : ops[u][m].path \in Siblings(p)}
           D == [q \in Path |-> IF q \in Siblings(p) THEN dest[q] ELSE disk.dest[q]]
           A == [u \in TxId |-> disk.applied[u] \cup now(u)]
           pay(u) == [m \in 1 .. MaxOps |-> IF m \in now(u) THEN "missing" ELSE disk.jn[u].pay[m]]
           J == [u \in TxId |-> [disk.jn[u] EXCEPT !.pay = pay(u)]]
<1>1. t \in TxId /\ drv[w].pc = "verify"
  BY OwnRegisters, SteadyFacts DEF DriverShape
<1>2. /\ jn[t] \in Journal /\ disk.jn[t] \in Journal /\ Lag(drv[w], jn[t], disk.jn[t])
      /\ disk.jn \in [TxId -> Journal] /\ dest \in [Path -> Fingerprint] /\ disk.dest \in [Path -> Fingerprint]
      /\ applied \in [TxId -> SUBSET (1 .. MaxOps)] /\ disk.applied \in [TxId -> SUBSET (1 .. MaxOps)]
  BY <1>1, OwnJournal, SteadyFacts
<1>3. /\ i \notin disk.applied[t] /\ applied[t] = disk.applied[t] \cup {i}
      /\ dest = [disk.dest EXCEPT ![p] = Op(w).result]
      /\ \A u \in TxId : u # t => disk.applied[u] = applied[u]
  BY DEF Steady, Synced, EffectsLag, InFlight, Op
<1>4. jn[t].root /\ jn[t] = [disk.jn[t] EXCEPT !.pay[i] = "missing"]
  BY <1>2 DEF Lag
<1>5. p \in Path /\ p \in Siblings(p)
  <2>1. i <= Len(ops[t]) /\ i \in Nat \ {0}
    BY <1>1, OwnRegisters, SteadyFacts, BoundAssumption DEF DriverShape, Driver
  <2>2. ops[t] \in Seq(Operation) /\ Len(ops[t]) \in Nat
    BY <1>1, OwnAtomic, SteadyFacts
  <2>3. ops[t][i] \in Operation
    BY <2>1, <2>2
  <2> QED BY <2>3 DEF Op, Operation, Siblings
<1>6. D = dest
  <2>1. \A q \in Path : D[q] = dest[q]
    BY <1>2, <1>3, <1>5
  <2> QED BY <1>2, <2>1
<1>7. i \in now(t)
  BY <1>3, <1>5 DEF Op
<1>8. A = applied
  <2>1. \A u \in TxId : A[u] = applied[u]
    BY <1>3, <1>7
  <2> QED BY <1>2, <2>1
<1>9. ASSUME NEW u \in TxId PROVE J[u] = jn[u]
  <2>1. jn[u] \in Journal /\ disk.jn[u] \in Journal /\ jn[u].pay \in [1 .. MaxOps -> FileState]
    BY SteadyFacts DEF Journal
  <2>2. \A m \in disk.applied[u] : disk.jn[u].pay[m] = "missing"
    BY DEF Steady, Synced, AllStored, Stored
  <2>3. \A m \in 1 .. MaxOps : pay(u)[m] = jn[u].pay[m]
    <3>1. CASE u = t
      <4>1. jn[t].pay = [disk.jn[t].pay EXCEPT ![i] = "missing"] /\ disk.jn[t].pay \in [1 .. MaxOps -> FileState]
        BY <1>2, <1>4 DEF Journal
      <4>2. \A m \in now(t) : m = i \/ m \in disk.applied[t]
        BY <1>3
      <4> HIDE DEF now
      <4> QED BY <1>7, <2>2, <3>1, <4>1, <4>2
    <3>2. CASE u # t
      <4>1. now(u) \subseteq disk.applied[u] /\ jn[u] = disk.jn[u]
        BY <1>1, <1>3, <3>2, Undriven
      <4> HIDE DEF now
      <4> QED BY <2>2, <4>1
    <3> QED BY <3>1, <3>2
  <2>4. pay(u) = jn[u].pay
    <3>1. pay(u) = [m \in 1 .. MaxOps |-> pay(u)[m]] /\ jn[u].pay = [m \in 1 .. MaxOps |-> jn[u].pay[m]]
      BY <2>1
    <3> QED BY <2>3, <3>1
  <2>5. /\ disk.jn[u].root = jn[u].root /\ disk.jn[u].prog = jn[u].prog /\ disk.jn[u].next = jn[u].next
        /\ disk.jn[u].staging = jn[u].staging /\ disk.jn[u].man = jn[u].man
    <3>1. CASE u = t
      BY <1>2, <1>4, <3>1 DEF Journal
    <3>2. CASE u # t
      BY <1>1, <3>2, Undriven
    <3> QED BY <3>1, <3>2
  <2> DEFINE k == [disk.jn[u] EXCEPT !.pay = pay(u)]
  <2>6. J[u] = k
    OBVIOUS
  <2> HIDE DEF pay, J
  <2>7. /\ k \in Journal /\ k.root = jn[u].root /\ k.prog = jn[u].prog /\ k.next = jn[u].next
        /\ k.staging = jn[u].staging /\ k.pay = jn[u].pay /\ k.man = jn[u].man
    BY <2>1, <2>4, <2>5 DEF Journal
  <2> HIDE DEF k
  <2> QED BY <2>1, <2>6, <2>7, SameJournal
<1>10. SyncParent(p) = [dest |-> D, applied |-> A, jn |-> J]
  BY DEF SyncParent
<1> HIDE DEF D, A, J, p
<1>11. /\ SyncParent(p).dest = D /\ SyncParent(p).applied = A /\ SyncParent(p).jn = J
  BY <1>10
<1> QED BY <1>1, <1>4, <1>6, <1>8, <1>9, <1>11 DEF p

LEMMA SyncSteady ==
    ASSUME Steady, OneWorker, Atomic', NEW w \in Worker, Sync(w)
    PROVE  Steady'
<1> DEFINE t == drv[w].tx
           s == drv[w].sync
<1>1. /\ s # "none" /\ UNCHANGED <<dest, jn, ops, applied>>
      /\ s \in {"transactions", "root", "staging", "parent"}
  BY SteadyFacts DEF Sync, Driver
<1>2. s \in {"root", "staging"} => jn[t].root
  BY SyncRootFlushes, SyncStagingFlushes
<1>3. /\ disk' = CASE s = "transactions" -> SyncTransactions
                   [] s = "root"    -> SyncRoot(t)
                   [] s = "staging" -> SyncStaging(t)
                   [] OTHER         -> SyncParent(Op(w).path)
      /\ drv' = [drv EXCEPT ![w].sync = "none", ![w].sure = drv[w].sure \/ drv[w].pc = "publish"]
  BY <1>2 DEF Sync
<1>4. /\ \A u \in TxId : disk'.jn[u] = jn[u]
      /\ disk'.dest = dest /\ disk'.applied = applied
      /\ t \in TxId => jn[t].root
  <2>1. CASE s = "transactions"
    BY <1>3, <2>1, SyncTransactionsFlushes
  <2>2. CASE s = "root"
    BY <1>3, <2>2, SyncRootFlushes
  <2>3. CASE s = "staging"
    BY <1>3, <2>3, SyncStagingFlushes
  <2>4. CASE s = "parent"
    BY <1>3, <2>4, SyncParentFlushes
  <2> QED BY <1>1, <2>1, <2>2, <2>3, <2>4
<1>5. Flushed'
  BY <1>1, <1>4 DEF Flushed
<1> QED BY <1>1, <1>3, <1>4, <1>5, SyncedNow

-----------------------------------------------------------------------------
(* Power losses.                                                           *)

\* What is left of a journal that reached the disk as j does, when k is the
\* durable one, eff took effect and kept of it stays.
Remains(j, k, kept, eff) ==
    [j EXCEPT !.pay = [i \in 1 .. MaxOps |->
        CASE i \in kept \/ ~j.staging -> "missing"
          [] i \in eff \ kept         -> k.pay[i]
          [] OTHER                    -> j.pay[i]]]

LEMMA RemainsOf ==
    ASSUME NEW j \in Journal, NEW b \in Journal, NEW k, NEW kept, NEW eff, Stored(j, kept),
           b.root = j.root, b.prog = j.prog, b.next = j.next, b.staging = j.staging, b.man = j.man,
           \A i \in eff \ kept : j.pay[i] = k.pay[i],
           \A i \in (1 .. MaxOps) \ eff : b.pay[i] = j.pay[i]
    PROVE  Remains(b, k, kept, eff) = j
<1> DEFINE f(i) == CASE i \in kept \/ ~b.staging -> "missing"
                     [] i \in eff \ kept         -> k.pay[i]
                     [] OTHER                    -> b.pay[i]
           pay == [i \in 1 .. MaxOps |-> f(i)]
           r == [b EXCEPT !.pay = pay]
<1>1. j.pay \in [1 .. MaxOps -> FileState]
  BY DEF Journal
<1>2. \A i \in kept : j.pay[i] = "missing"
  BY DEF Stored
<1>3. ~b.staging => \A i \in 1 .. MaxOps : j.pay[i] = "missing"
  BY DEF Stored, NoPayloads
<1>4. ASSUME NEW i \in 1 .. MaxOps PROVE f(i) = j.pay[i]
  <2>1. CASE i \in kept \/ ~b.staging
    BY <1>2, <1>3, <2>1
  <2>2. CASE ~(i \in kept \/ ~b.staging) /\ i \in eff \ kept
    BY <2>2
  <2>3. CASE ~(i \in kept \/ ~b.staging) /\ i \notin eff
    <3>1. i \notin eff \ kept
      BY <2>3
    <3>2. f(i) = b.pay[i]
      BY <2>3, <3>1
    <3> QED BY <2>3, <3>2
  <2> QED BY <2>1, <2>2, <2>3
<1>5. Remains(b, k, kept, eff) = r
  BY DEF Remains
<1> HIDE DEF f
<1>6. j.pay = [i \in 1 .. MaxOps |-> j.pay[i]]
  BY <1>1
<1>7. pay = j.pay
  BY <1>4, <1>6
<1> HIDE DEF pay
<1>8. /\ r \in Journal /\ r.root = j.root /\ r.prog = j.prog /\ r.next = j.next
      /\ r.staging = j.staging /\ r.pay = j.pay /\ r.man = j.man
  BY <1>1, <1>7 DEF Journal
<1> HIDE DEF r
<1> QED BY <1>5, <1>8, SameJournal

\* What the driver did last reached the disk, or it did not.
LEMMA PowerLossLeaves ==
    ASSUME Steady, OneWorker, PowerLoss
    PROVE  /\ \A t \in TxId : jn'[t] \in {jn[t], disk.jn[t]}
           /\ \A t \in TxId : Sound(jn'[t], ops[t], dest', applied'[t]) /\ Stored(jn'[t], applied'[t])
           /\ disk'.dest = dest' /\ disk'.jn = jn' /\ disk'.applied = applied'
           /\ ops' = ops /\ drv' = [w \in Worker |-> Idle]
<1> USE DEF PowerLoss
<1>1. PICK J \in SUBSET TxId, D \in SUBSET Path :
        LET kept(t) == disk.applied[t] \cup {i \in applied[t] : ops[t][i].path \in D}
            base(t) == IF t \in J THEN jn[t] ELSE disk.jn[t]
            left(t) == Remains(base(t), disk.jn[t], kept(t), applied[t])
            now == [p \in Path |-> IF p \in D THEN dest[p] ELSE disk.dest[p]]
        IN  /\ dest' = now
            /\ jn' = [t \in TxId |-> IF base(t).root THEN left(t) ELSE NoJournal]
            /\ applied' = [t \in TxId |-> kept(t)]
            /\ disk' = [dest |-> dest', jn |-> jn', applied |-> applied']
  BY DEF Remains
<1>2. ops' = ops /\ drv' = [w \in Worker |-> Idle]
  OBVIOUS
<1> HIDE DEF PowerLoss
<1> DEFINE kept(t) == disk.applied[t] \cup {i \in applied[t] : ops[t][i].path \in D}
           base(t) == IF t \in J THEN jn[t] ELSE disk.jn[t]
           left(t) == Remains(base(t), disk.jn[t], kept(t), applied[t])
           now == [p \in Path |-> IF p \in D THEN dest[p] ELSE disk.dest[p]]
<1>3. /\ dest' = now /\ applied' = [t \in TxId |-> kept(t)]
      /\ jn' = [t \in TxId |-> IF base(t).root THEN left(t) ELSE NoJournal]
      /\ disk'.dest = dest' /\ disk'.jn = jn' /\ disk'.applied = applied'
  BY <1>1
<1>4. \A t \in TxId : /\ base(t) \in {jn[t], disk.jn[t]} /\ base(t) \in Journal
                      /\ jn[t] \in Journal /\ disk.jn[t] \in Journal
                      /\ Stored(jn[t], applied[t]) /\ Stored(disk.jn[t], disk.applied[t])
                      /\ Sound(jn[t], ops[t], dest, applied[t])
                      /\ Sound(disk.jn[t], ops[t], disk.dest, disk.applied[t])
                      /\ applied[t] \in SUBSET (1 .. MaxOps)
  BY SteadyFacts DEF Steady, Synced, AllStored, SoundDisk
<1>5. dest \in [Path -> Fingerprint] /\ disk.dest \in [Path -> Fingerprint]
  BY SteadyFacts
<1> HIDE DEF base
\* A journal whose effects are the same on both sides stays what it reached the disk as.
<1>6. ASSUME NEW t \in TxId, disk.applied[t] = applied[t]
      PROVE  applied'[t] = applied[t] /\ jn'[t] = base(t)
  <2>1. kept(t) = applied[t]
    BY <1>6
  <2> HIDE DEF kept
  <2>2. Stored(base(t), kept(t)) /\ base(t) \in Journal
    BY <1>4, <1>6, <2>1
  <2>3. left(t) = base(t)
    <3>1. \A i \in applied[t] \ kept(t) : base(t).pay[i] = disk.jn[t].pay[i]
      BY <2>1
    <3> HIDE DEF left
    <3>2. Remains(base(t), disk.jn[t], kept(t), applied[t]) = base(t)
      BY <2>2, <3>1, RemainsOf
    <3> QED BY <3>2 DEF left
  <2>4. ~base(t).root => base(t) = NoJournal
    BY <1>4 DEF Sound
  <2> HIDE DEF left
  <2> QED BY <1>3, <2>1, <2>3, <2>4
<1>7. CASE \A w \in Worker : drv[w].sync # "parent"
  <2>1. disk.dest = dest /\ disk.applied = applied
    BY <1>7 DEF Steady, Synced, EffectsLag
  <2>2. dest' = dest
    BY <1>3, <1>5, <2>1
  <2>3. \A t \in TxId : applied'[t] = applied[t] /\ jn'[t] = base(t)
    BY <1>6, <2>1
  <2> QED BY <1>2, <1>3, <1>4, <2>1, <2>2, <2>3
<1>8. ASSUME NEW w \in Worker, drv[w].sync = "parent"
      PROVE  /\ \A t \in TxId : jn'[t] \in {jn[t], disk.jn[t]}
             /\ \A t \in TxId : Sound(jn'[t], ops[t], dest', applied'[t]) /\ Stored(jn'[t], applied'[t])
  <2> DEFINE t == drv[w].tx
             i == drv[w].idx
             p == ops[t][i].path
  <2>1. t \in TxId
    BY <1>8, OwnRegisters, SteadyFacts DEF DriverShape
  <2>2. /\ i \notin disk.applied[t] /\ applied[t] = disk.applied[t] \cup {i}
        /\ dest = [disk.dest EXCEPT ![p] = ops[t][i].result]
        /\ \A u \in TxId : u # t => disk.applied[u] = applied[u]
    BY <1>8 DEF Steady, Synced, EffectsLag, InFlight
  <2>3. jn[t].root /\ disk.jn[t].root /\ jn[t] = [disk.jn[t] EXCEPT !.pay[i] = "missing"]
    BY <1>8, <2>1, OwnLag DEF Lag
  <2>4. /\ jn[t].prog = disk.jn[t].prog /\ jn[t].next = disk.jn[t].next /\ jn[t].root = disk.jn[t].root
        /\ jn[t].staging = disk.jn[t].staging /\ jn[t].man = disk.jn[t].man
        /\ \A m \in 1 .. MaxOps : m # i => jn[t].pay[m] = disk.jn[t].pay[m]
    BY <1>4, <2>1, <2>3 DEF Journal
  <2>5. base(t).root
    BY <1>4, <2>1, <2>3
  <2>6. \A u \in TxId : u # t => applied'[u] = applied[u] /\ jn'[u] = jn[u] /\ jn[u] = disk.jn[u]
    BY <1>4, <1>6, <1>8, <2>1, <2>2, Undriven
  <2>7. \A m \in (1 .. MaxOps) \ applied[t] : m # i
    BY <2>2
  <2>8. CASE p \in D
    <3>1. now = dest
      BY <1>5, <2>2, <2>8
    <3>2. kept(t) = applied[t]
      BY <2>2, <2>8
    <3> HIDE DEF kept, now
    <3>3. left(t) = jn[t]
      <4>1. \A m \in applied[t] \ kept(t) : jn[t].pay[m] = disk.jn[t].pay[m]
        BY <3>2
      <4>2. \A m \in (1 .. MaxOps) \ applied[t] : base(t).pay[m] = jn[t].pay[m]
        BY <1>4, <2>1, <2>4, <2>7
      <4>3. /\ base(t).root = jn[t].root /\ base(t).prog = jn[t].prog /\ base(t).next = jn[t].next
            /\ base(t).staging = jn[t].staging /\ base(t).man = jn[t].man
            /\ base(t) \in Journal /\ jn[t] \in Journal /\ Stored(jn[t], kept(t))
        BY <1>4, <2>1, <2>4, <3>2
      <4> HIDE DEF t, i, p, left
      <4>4. Remains(base(t), disk.jn[t], kept(t), applied[t]) = jn[t]
        BY <4>1, <4>2, <4>3, RemainsOf
      <4> QED BY <4>4 DEF left
    <3> HIDE DEF left
    <3>4. dest' = dest /\ applied'[t] = applied[t] /\ jn'[t] = jn[t]
      BY <1>3, <2>1, <2>5, <3>1, <3>2, <3>3
    <3> QED BY <1>4, <2>6, <3>4
  <2>9. CASE p \notin D
    <3>1. now = disk.dest
      BY <1>5, <2>2, <2>9
    <3>2. kept(t) = disk.applied[t]
      BY <2>2, <2>9
    <3> HIDE DEF kept, now
    <3>3. left(t) = disk.jn[t]
      <4>1. \A m \in (1 .. MaxOps) \ applied[t] : base(t).pay[m] = disk.jn[t].pay[m]
        BY <1>4, <2>1, <2>4, <2>7
      <4>2. /\ base(t).root = disk.jn[t].root /\ base(t).prog = disk.jn[t].prog
            /\ base(t).next = disk.jn[t].next /\ base(t).staging = disk.jn[t].staging
            /\ base(t).man = disk.jn[t].man
            /\ base(t) \in Journal /\ disk.jn[t] \in Journal /\ Stored(disk.jn[t], kept(t))
        BY <1>4, <2>1, <2>4, <3>2
      <4> HIDE DEF t, i, p, left
      <4>3. Remains(base(t), disk.jn[t], kept(t), applied[t]) = disk.jn[t]
        BY <4>1, <4>2, RemainsOf
      <4> QED BY <4>3 DEF left
    <3> HIDE DEF left
    <3>4. dest' = disk.dest /\ applied'[t] = disk.applied[t] /\ jn'[t] = disk.jn[t]
      BY <1>3, <2>1, <2>5, <3>1, <3>2, <3>3
    <3> QED BY <1>4, <2>2, <2>6, <3>4
  <2> QED BY <2>8, <2>9
<1> QED BY <1>2, <1>3, <1>7, <1>8

LEMMA PowerLossSteady ==
    ASSUME Steady, OneWorker, Custody', PowerLoss
    PROVE  Steady'
<1>1. /\ \A t \in TxId : jn'[t] \in {jn[t], disk.jn[t]}
      /\ \A t \in TxId : Sound(jn'[t], ops[t], dest', applied'[t]) /\ Stored(jn'[t], applied'[t])
      /\ disk'.dest = dest' /\ disk'.jn = jn' /\ disk'.applied = applied'
      /\ ops' = ops /\ drv' = [w \in Worker |-> Idle]
  BY PowerLossLeaves
<1>2. \A w \in Worker : /\ drv'[w].tx = NoTx /\ drv'[w].idx = 1 /\ drv'[w].pc = "idle"
                        /\ drv'[w].sync = "none"
  BY <1>1 DEF Idle
<1>3. SoundJournals'
  BY <1>1 DEF SoundJournals
<1>4. OneBusy'
  BY <1>1 DEF OneBusy, Steady, Atomic, Synced, BusyAlone
<1>5. DriversReady'
  BY <1>2, InstanceAssumption DEF DriversReady
<1>6. Atomic'
  BY <1>3, <1>4, <1>5 DEF Atomic
<1>7. Flushed'
  BY <1>1 DEF Flushed
<1>8. RemovesResidue'
  BY <1>2 DEF RemovesResidue
<1>9. \A w \in Worker : drv'[w].sync # "parent" /\ drv'[w].tx \notin TxId
  BY <1>2, InstanceAssumption
<1> QED BY <1>1, <1>6, <1>7, <1>8, <1>9, FlushedSteady

-----------------------------------------------------------------------------

LEMMA InitSteady == Init => Steady
<1> SUFFICES ASSUME Init PROVE Steady
  OBVIOUS
<1>1. Atomic
  BY InitAtomic
<1>2. disk.jn = jn /\ disk.dest = dest /\ disk.applied = applied
  BY DEF Init
<1>3. \A t \in TxId : jn[t] = NoJournal /\ applied[t] = {}
  BY DEF Init
<1>4. \A w \in Worker : drv[w].tx = NoTx /\ drv[w].pc = "idle" /\ drv[w].sync = "none"
  BY DEF Init, Idle
<1>5. AllStored
  <2>1. Stored(NoJournal, {})
    BY DEF Stored, NoJournal
  <2> QED BY <1>2, <1>3, <2>1 DEF AllStored
<1>6. SoundDisk
  BY <1>1, <1>2 DEF SoundDisk, Atomic, SoundJournals
<1>7. JournalsLag
  BY <1>2, <1>4, InstanceAssumption DEF JournalsLag
<1>8. RemovesResidue
  BY <1>4 DEF RemovesResidue
<1>9. EffectsLag
  BY <1>2, <1>4 DEF EffectsLag
<1>10. BusyAlone
  BY <1>1, <1>2 DEF BusyAlone, Atomic, OneBusy
<1> QED BY <1>1, <1>5, <1>6, <1>7, <1>8, <1>9, <1>10 DEF Steady, Synced

LEMMA StepSteady ==
    ASSUME Steady, OneWorker, Custody', NEW w \in Worker, Step(w)
    PROVE  Steady'
<1>0. Atomic'
  BY StepAtomic DEF Steady
<1>1. CASE Sync(w)
  BY <1>0, <1>1, SyncSteady
<1>2. CASE Preflight(w)
  BY <1>0, <1>2, ReconcileSteady, UnmarkNextSteady, UnmarkDirectorySteady, PreflightSteady DEF Preflight
<1>3. CASE PersistProgress(w)
  BY <1>0, <1>3, ClearNextSteady, WriteNextSteady, RenameNextSteady DEF PersistProgress
<1>4. CASE DriveExecution(w)
  BY <1>0, <1>4, BeginSteady, MakeStagingSteady, StageSteady, FillPayloadSteady, WriteManifestSteady,
     FillManifestSteady, PrepareSteady, AuthorizeSteady DEF DriveExecution
<1>5. CASE Publish(w)
  BY <1>0, <1>5, ApplySteady, VerifySteady DEF Publish
<1>6. CASE DriveRecovery(w)
  BY <1>0, <1>6, DecideSteady, RecheckSteady DEF DriveRecovery
<1>7. CASE Conclude(w)
  BY <1>0, <1>7, CleanupStepSteady, ConcludeSteady DEF Conclude
<1> QED BY <1>1, <1>2, <1>3, <1>4, <1>5, <1>6, <1>7 DEF Step

LEMMA NextSteady ==
    ASSUME ~RecoverLive, OneWorker, MaxEdits = 0, MaxCrash = 0, MaxFault = 0, Steady, [Next]_vars
    PROVE  Steady'
<1>1. Custody'
  BY NextCustody DEF Steady, Atomic
<1>2. CASE UNCHANGED vars
  <2>1. UNCHANGED <<dest, jn, disk, ops, applied, drv>>
    BY <1>2 DEF vars
  <2>2. SoundJournals' /\ OneBusy' /\ DriversReady'
    BY <2>1 DEF Steady, Atomic, SoundJournals, OneBusy, DriversReady
  <2>3. AllStored' /\ SoundDisk' /\ BusyAlone' /\ RemovesResidue'
    BY <2>1 DEF Steady, Synced, AllStored, SoundDisk, BusyAlone, RemovesResidue
  <2>4. JournalsLag'
    BY <2>1 DEF Steady, Synced, JournalsLag
  <2>5. EffectsLag'
    BY <2>1 DEF Steady, Synced, EffectsLag
  <2> QED BY <1>1, <2>2, <2>3, <2>4, <2>5 DEF Steady, Atomic, Synced
<1>3. ASSUME NEW w \in Worker, Step(w) PROVE Steady'
  BY <1>1, <1>3, StepSteady
<1>4. ASSUME NEW w \in Worker, Call(w) PROVE Steady'
  <2>1. Atomic'
    BY <1>1, <1>4, SubmitAtomic, RecoverAtomic DEF Call, Steady
  <2> QED BY <1>4, <2>1, CallSteady
<1>5. CASE Environment
  <2>1. budget.crash \in 0 .. 0 /\ budget.fault \in 0 .. 0 /\ budget.edits \in 0 .. 0
    BY SteadyFacts DEF Shape, Files
  <2>2. ~(budget.crash < MaxCrash) /\ ~(budget.fault < MaxFault) /\ ~(budget.edits < MaxEdits)
    BY <2>1
  <2>3. PowerLoss
    <3>1. \A w \in Worker : ~Crash(w) /\ ~Fault(w)
      BY <2>2 DEF Crash, Fault
    <3>2. \A p \in Path, c \in Content \cup {Missing} : ~Edit(p, c)
      BY <2>2 DEF Edit
    <3> QED BY <1>5, <3>1, <3>2 DEF Environment
  <2> QED BY <1>1, <2>3, PowerLossSteady
<1> QED BY <1>2, <1>3, <1>4, <1>5 DEF Next

-----------------------------------------------------------------------------

\* A durable "committed" means durable results, however often the machine loses
\* its power: every rename is synchronised before the progress document that
\* counts it.  One process at a time that no call fails and nobody kills: the
\* driver that takes over from a lost one does not synchronise what that one had
\* renamed, and recordPublishedOperation takes it for durable.
THEOREM CommitIsDurable ==
    ASSUME ~RecoverLive, OneWorker, MaxEdits = 0, MaxCrash = 0, MaxFault = 0
    PROVE  Spec => []CommittedIsDurable
<1>1. Init => Steady
  BY InitSteady
<1>2. Steady /\ [Next]_vars => Steady'
  BY NextSteady
<1>3. Steady => CommittedIsDurable
  <2> SUFFICES ASSUME Steady, NEW t \in TxId, disk.jn[t].prog.phase = "committed"
               PROVE  disk.applied[t] = DOMAIN ops[t]
    BY DEF CommittedIsDurable
  <2>1. Sound(disk.jn[t], ops[t], disk.dest, disk.applied[t]) /\ ops[t] \in Seq(Operation)
    BY SteadyFacts DEF Steady, Synced, SoundDisk, Manifest
  <2> QED BY <2>1 DEF Sound
<1> QED BY <1>1, <1>2, <1>3, PTL DEF Spec

\* Wherever the power fails, and however often, decideRecovery never blocks on
\* the journal and the destinations the disk kept.
THEOREM PowerLossRecoverable ==
    ASSUME ~RecoverLive, OneWorker, MaxEdits = 0, MaxCrash = 0, MaxFault = 0
    PROVE  Spec => []AlwaysRecoverable
<1>1. Init => Steady
  BY InitSteady
<1>2. Steady /\ [Next]_vars => Steady'
  BY NextSteady
<1>3. Steady => AlwaysRecoverable
  BY AtomicRecoverable DEF Steady
<1> QED BY <1>1, <1>2, <1>3, PTL DEF Spec
=============================================================================
